------------------------------ MODULE Syscall -------------------------------
(***************************************************************************)
(* The system calls of a CSX64 machine: src/src/Syscall.cpp.  RAX holds    *)
(* the code of the call and receives its result; RBX, RCX and RDX hold its *)
(* arguments.  RIP is already past the SYSCALL operation, which is one     *)
(* byte long.                                                              *)
(*                                                                         *)
(* What the file system or a stream answers is nondeterministic here.      *)
(***************************************************************************)
EXTENDS Computer

CONSTANTS
  IntValues     (* how many values an int has (2^32)                       *)

ASSUME IntAssumption == IntValues \in 1 .. W

(* The conversion of a u64 register to int keeps its low bits.             *)
AsInt(v) == v % IntValues

(* (SyscallCode)RAX                                                        *)
Code == AsInt(regs.RAX)

sys_exit == 0
sys_read == 1
sys_write == 2
sys_open == 3
sys_close == 4
sys_lseek == 5
sys_brk == 6
sys_rename == 7
sys_unlink == 8
sys_mkdir == 9
sys_rmdir == 10

Failed == W - 1      \* ~(u64)0

Answer(r) == regs' = [regs EXCEPT !.RAX = r]

(* The call returns to the operation after it.                             *)
Return == RIP' = (RIP + 1) % W /\ UNCHANGED <<suspended_read, RSP, RFLAGS>>

(* The call stops the client.                                              *)
Abort(fault) ==
  /\ Terminate(fault)
  /\ Return
  /\ UNCHANGED <<sizeVars, loadVars, max_mem_size, regs>>

KeepMemory == UNCHANGED <<sizeVars, loadVars, max_mem_size>>

-----------------------------------------------------------------------------
(* Descriptor checks, in the order of the code; can is the capability.     *)

FDFault(can) ==
  IF regs.RBX >= FDCount THEN "OutOfBounds"
  ELSE IF FileDescriptors[regs.RBX] = NULL THEN "FDNotInUse"
  ELSE IF ~FileDescriptors[regs.RBX][can] THEN "FilePermissions" ELSE "None"

(* Mutant: the end of the buffer is not tested.                            *)
BufferFaultNoEnd ==
  IF regs.RCX >= mem_size \/ regs.RDX >= mem_size THEN "OutOfBounds" ELSE "None"

(* The buffer at RCX of RDX bytes.                                         *)
BufferFault ==
  IF \/ regs.RCX >= mem_size \/ regs.RDX >= mem_size
     \/ (regs.RCX + regs.RDX) % W > mem_size
  THEN "OutOfBounds" ELSE "None"

ReadCallFault ==
  IF FDFault("CanRead") # "None" THEN FDFault("CanRead")
  ELSE IF BufferFault # "None" THEN BufferFault
  ELSE IF regs.RCX < ReadonlyBarrier THEN "AccessViolation" ELSE "None"

WriteCallFault ==
  IF FDFault("CanWrite") # "None" THEN FDFault("CanWrite") ELSE BufferFault

-----------------------------------------------------------------------------

SysExit ==
  /\ Code = sys_exit
  /\ Exit(AsInt(regs.RBX))
  /\ Return
  /\ KeepMemory /\ UNCHANGED regs

(* Mutant: the read suspends without backing up to the SYSCALL.            *)
SysReadNoBackup ==
  /\ Code = sys_read
  /\ ReadCallFault = "None"
  /\ FileDescriptors[regs.RBX].interactive
  /\ suspended_read' = TRUE
  /\ RIP' = (RIP + 1) % W
  /\ UNCHANGED <<sizeVars, loadVars, max_mem_size, lifeVars, regs, RSP, RFLAGS>>

(* A read that got nothing from an interactive stream backs RIP up to the  *)
(* SYSCALL and suspends; any other answers the bytes read, or that the     *)
(* stream threw.                                                           *)
SysRead ==
  /\ Code = sys_read
  /\ \/ ReadCallFault # "None" /\ Abort(ReadCallFault)
     \/ /\ ReadCallFault = "None"
        /\ FileDescriptors[regs.RBX].interactive
        /\ suspended_read' = TRUE
        /\ UNCHANGED <<sizeVars, loadVars, max_mem_size, lifeVars, cpuVars>>
     \/ /\ ReadCallFault = "None"
        /\ \E n \in 0 .. regs.RDX, v \in Values :
             /\ n > 0 \/ ~FileDescriptors[regs.RBX].interactive
             /\ mem' = Written(mem, regs.RCX, n, v)
             /\ Answer(n)
        /\ Return
        /\ UNCHANGED <<mem_size, mem_cap, loadVars, max_mem_size, lifeVars>>
     \/ /\ ReadCallFault = "None"
        /\ Answer(Failed)
        /\ Return
        /\ KeepMemory /\ UNCHANGED lifeVars

(* A write answers RDX, or failure when the wrapper answers 0 or throws.   *)
SysWrite ==
  /\ Code = sys_write
  /\ \/ WriteCallFault # "None" /\ Abort(WriteCallFault)
     \/ /\ WriteCallFault = "None"
        /\ Answer(IF regs.RDX = 0 THEN Failed ELSE regs.RDX) \/ Answer(Failed)
        /\ Return
        /\ KeepMemory /\ UNCHANGED lifeVars

(* OpenFlags: the bits of RCX.                                             *)
HasFlag(bit) == (AsInt(regs.RCX) \div bit) % 2 = 1
FlagRead == 1
FlagWrite == 2
FlagTrunc == 16
FlagAppend == 32

(* The modes std::fstream::open accepts: truncating needs writing and no   *)
(* appending, and without reading, writing or appending there is no mode.  *)
ModeExists ==
  /\ HasFlag(FlagRead) \/ HasFlag(FlagWrite) \/ HasFlag(FlagAppend)
  /\ HasFlag(FlagTrunc) => HasFlag(FlagWrite) /\ ~HasFlag(FlagAppend)

OpenedFile == [interactive |-> FALSE, CanRead |-> HasFlag(FlagRead),
               CanWrite |-> HasFlag(FlagWrite), CanSeek |-> TRUE, client |-> TRUE]

(* The descriptor is looked for before the path is read; a full table is   *)
(* an answer and not a fault.                                              *)
SysOpen ==
  /\ Code = sys_open
  /\ \/ "FSF" \notin RFLAGS /\ Abort("FSDisabled")
     \/ /\ "FSF" \in RFLAGS /\ ~TableFull
        /\ StringFault(regs.RBX) # "None"
        /\ Abort(StringFault(regs.RBX))
     \/ /\ "FSF" \in RFLAGS
        /\ TableFull \/ StringFault(regs.RBX) = "None"
        /\ Answer(Failed)
        /\ Return
        /\ KeepMemory /\ UNCHANGED lifeVars
     \/ /\ "FSF" \in RFLAGS
        /\ StringFault(regs.RBX) = "None" /\ ModeExists
        /\ \E fd \in FD :
             /\ Available(fd)
             /\ FileDescriptors' = [FileDescriptors EXCEPT ![fd] = OpenedFile]
             /\ Answer(fd)
        /\ Return
        /\ KeepMemory /\ UNCHANGED <<running, error, return_value>>

(* Closing a descriptor not in use succeeds.                               *)
SysClose ==
  /\ Code = sys_close
  /\ \/ regs.RBX >= FDCount /\ Abort("OutOfBounds")
     \/ /\ regs.RBX < FDCount
        /\ FileDescriptors' = [FileDescriptors EXCEPT ![regs.RBX] = NULL]
        /\ Answer(0)
        /\ Return
        /\ KeepMemory /\ UNCHANGED <<running, error, return_value>>

(* A seek answers some position, or failure for a mode other than set,     *)
(* cur and end and for a stream that fails.                                *)
SysLseek ==
  /\ Code = sys_lseek
  /\ \/ FDFault("CanSeek") # "None" /\ Abort(FDFault("CanSeek"))
     \/ /\ FDFault("CanSeek") = "None"
        /\ \/ Answer(Failed)
           \/ AsInt(regs.RDX) \in 0 .. 2 /\ \E pos \in Values : Answer(pos)
        /\ Return
        /\ KeepMemory /\ UNCHANGED lifeVars

(* sys_brk: 0 asks for the break; any other size is the new one, if it is  *)
(* between the size at Initialize and the host's limit.                    *)
SysBrk ==
  /\ Code = sys_brk
  /\ \/ regs.RBX = 0 /\ Answer(mem_size) /\ UNCHANGED sizeVars
     \/ /\ regs.RBX # 0
        /\ \/ regs.RBX > max_mem_size
           \/ regs.RBX < min_mem_size
           \/ regs.RBX > mem_cap        \* malloc may always refuse
        /\ Answer(Failed) /\ UNCHANGED sizeVars
     \/ /\ regs.RBX # 0
        /\ regs.RBX \in min_mem_size .. max_mem_size
        /\ \E b \in Values : Realloc(regs.RBX, TRUE, b % B)
        /\ Answer(0)
  /\ Return
  /\ UNCHANGED <<loadVars, max_mem_size, lifeVars>>

(* rename, unlink, mkdir, rmdir: the paths are read (rename has two), then *)
(* the file system does it or not.                                         *)
PathCallFault ==
  IF "FSF" \notin RFLAGS THEN "FSDisabled"
  ELSE IF StringFault(regs.RBX) # "None" THEN StringFault(regs.RBX)
  ELSE IF Code = sys_rename THEN StringFault(regs.RCX) ELSE "None"

SysPath ==
  /\ Code \in {sys_rename, sys_unlink, sys_mkdir, sys_rmdir}
  /\ \/ PathCallFault # "None" /\ Abort(PathCallFault)
     \/ /\ PathCallFault = "None"
        /\ Answer(0) \/ Answer(Failed)
        /\ Return
        /\ KeepMemory /\ UNCHANGED lifeVars

SysUnhandled == Code > sys_rmdir /\ Abort("UnhandledSyscall")

ProcessSYSCALL ==
  \/ SysExit \/ SysRead \/ SysWrite \/ SysOpen \/ SysClose \/ SysLseek
  \/ SysBrk \/ SysPath \/ SysUnhandled

=============================================================================
