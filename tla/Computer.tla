------------------------------ MODULE Computer ------------------------------
(***************************************************************************)
(* The life of a CSX64::Computer (src/src/Computer.cpp): loading a program *)
(* with Initialize, stopping it with Terminate and Exit, its table of open *)
(* files, and the calls its host may make between two Ticks.               *)
(*                                                                         *)
(* Host and client share one thread: a host call and an executed operation *)
(* are atomic with respect to each other, but the host may call anything   *)
(* between any two operations, because it chooses the count of each Tick.  *)
(***************************************************************************)
EXTENDS Memory, FiniteSets, FiniteSetsExt

CONSTANTS
  FDCount,       (* file descriptors of a machine (16)                     *)
  NULL,          (* a file descriptor not in use                           *)
  HostFiles,     (* file wrappers the host may link to a descriptor        *)
  Exes,          (* executables the host may load                          *)
  ArgLists,      (* command lines it may load them with                    *)
  StackSizes,    (* stack sizes it may ask for                             *)
  MemLimits,     (* limits it may set with MaxMemory                       *)
  HostFlags,     (* settings of FSF and OTRF it may choose                 *)
  Addrs,         (* addresses that host or client compute                  *)
  Sizes,         (* sizes of an operand                                    *)
  Values,        (* values stored or read                                  *)
  Registers,     (* contents of RAX, RBX, RCX, RDX host or client may load *)
  RandomRegisters, (* contents an uninitialised or a random register has   *)
  HostStrings,   (* strings the host may write to memory                   *)
  Garbage        (* what a field nothing has initialised may hold          *)

(* A file wrapper is its capabilities, and whether sys_open made it.       *)
FileWrapper == [interactive : BOOLEAN, CanRead : BOOLEAN, CanWrite : BOOLEAN,
                CanSeek : BOOLEAN, client : BOOLEAN]

(* The codes the operations modelled here end in.                          *)
ErrorCode == {"None", "OutOfBounds", "UnhandledSyscall", "UndefinedBehavior",
              "Abort", "FSDisabled", "AccessViolation", "FDNotInUse",
              "StackOverflow", "UnknownOp", "FilePermissions"}

(* The flags told apart: the two private ones, out of a client's reach,    *)
(* and DF for the rest.                                                    *)
Flag == {"FSF", "OTRF", "DF"}
PrivateFlags == {"FSF", "OTRF"}

Uninit == -1     \* a return_value that no Exit has set

(* The four segments of an executable, text first; construct has checked   *)
(* that their sum fits a u64.                                              *)
Content(x) == x.text \o x.rodata \o x.data
TotalSize(x) == Len(Content(x)) + x.bss

ASSUME HostAssumption ==
  /\ FDCount \in Nat \ {0} /\ FDCount < W
  /\ NULL \notin FileWrapper \cup Exes
  /\ HostFiles \subseteq [interactive : BOOLEAN, CanRead : BOOLEAN,
                          CanWrite : BOOLEAN, CanSeek : BOOLEAN, client : {FALSE}]
  /\ Exes \subseteq [text : Seq(Byte), rodata : Seq(Byte), data : Seq(Byte), bss : Nat]
  /\ \A x \in Exes : TotalSize(x) < W
  /\ \A args \in ArgLists : args \in Seq(Seq(Byte))
  /\ StackSizes \subseteq Word
  /\ MemLimits \subseteq Word
  /\ HostFlags \subseteq SUBSET PrivateFlags
  /\ Addrs \subseteq Word /\ Values \subseteq Word /\ Garbage \subseteq Word
  /\ Sizes \subseteq 1 .. PtrSize
  /\ Registers \subseteq [RAX : Word, RBX : Word, RCX : Word, RDX : Word]
  /\ RandomRegisters \subseteq [RAX : Word, RBX : Word, RCX : Word, RDX : Word]
  \* the host holds a string in a block of its own
  /\ HostStrings \subseteq Seq(Byte) /\ \A str \in HostStrings : Len(str) < MaxAlloc

VARIABLES
  ExeBarrier,      (* operations are fetched below it only                 *)
  running, suspended_read, error, return_value,
  FileDescriptors, (* descriptor -> wrapper or NULL                        *)
  regs,            (* RAX, RBX, RCX, RDX                                   *)
  RSP, RIP,
  RFLAGS,          (* the set of flags that are on                         *)
  exe,             (* history: the executable loaded last, or NULL,        *)
  cmdline          (* and the command line it was loaded with              *)

lifeVars == <<running, error, return_value, FileDescriptors>>
cpuVars == <<regs, RSP, RIP, RFLAGS>>
loadVars == <<limitVars, ExeBarrier, exe, cmdline>>
vars == <<sizeVars, limitVars, max_mem_size, ExeBarrier, running, suspended_read,
          error, return_value, FileDescriptors, cpuVars, exe, cmdline>>

FD == 0 .. (FDCount - 1)
AllClosed == [fd \in FD |-> NULL]

-----------------------------------------------------------------------------
(* Constructor: it sets mem, the sizes, running and error, and leaves the  *)
(* other fields as it finds them.                                          *)
Init ==
  /\ mem = <<>> /\ mem_size = 0 /\ mem_cap = 0
  /\ max_mem_size \in MemLimits
  /\ min_mem_size \in Garbage
  /\ ExeBarrier \in Garbage /\ ReadonlyBarrier \in Garbage /\ StackBarrier \in Garbage
  /\ running = FALSE /\ suspended_read \in BOOLEAN
  /\ error = "None" /\ return_value = Uninit
  /\ FileDescriptors = AllClosed
  /\ regs \in RandomRegisters
  /\ RSP \in Garbage /\ RIP \in Garbage
  /\ RFLAGS = {}
  /\ exe = NULL /\ cmdline = <<>>

-----------------------------------------------------------------------------
(* Stopping.                                                               *)

(* Mutant: a machine that has stopped takes a new error.                   *)
TerminateAgain(err) ==
  /\ error' = err
  /\ running' = FALSE
  /\ FileDescriptors' = AllClosed
  /\ UNCHANGED return_value

(* Terminate of a running machine; a stopped one keeps its first error.    *)
Terminate(err) ==
  /\ running
  /\ error' = err
  /\ running' = FALSE
  /\ FileDescriptors' = AllClosed
  /\ UNCHANGED return_value

(* Mutant: Exit leaves the files open.                                     *)
ExitKeepingFiles(ret) ==
  /\ running
  /\ return_value' = ret
  /\ running' = FALSE
  /\ UNCHANGED <<FileDescriptors, error>>

(* Exit of a running machine; a stopped one keeps its first result.        *)
Exit(ret) ==
  /\ running
  /\ return_value' = ret
  /\ running' = FALSE
  /\ FileDescriptors' = AllClosed
  /\ UNCHANGED error

(* A call that may fail: it goes on when fault is "None", and otherwise    *)
(* stops the client, if one is running.                                    *)
Ends(fault) ==
  \/ (fault = "None" \/ ~running) /\ UNCHANGED lifeVars
  \/ fault # "None" /\ Terminate(fault)

-----------------------------------------------------------------------------
(* The stack.                                                              *)

(* Mutant: the stack pointer is a signed number.                           *)
PushRawSigned(n, v) ==
  LET pos == RSP - n
      fault == PushFault(pos, n)
  IN /\ RSP' = pos
     /\ Ends(fault)
     /\ mem' = IF fault = "None" THEN Written(mem, pos, n, v) ELSE mem

(* PushRaw: RSP is lowered whether or not the write succeeds.              *)
PushRaw(n, v) ==
  LET pos == (RSP - n) % W
      fault == PushFault(pos, n)
  IN /\ RSP' = pos
     /\ Ends(fault)
     /\ mem' = IF fault = "None" THEN Written(mem, pos, n, v) ELSE mem

(* PopRaw: RSP is raised if the read succeeds.                             *)
PopRaw(n) ==
  /\ Ends(PopFault(RSP, n))
  /\ RSP' = IF PopFault(RSP, n) = "None" THEN (RSP + n) % W ELSE RSP

-----------------------------------------------------------------------------
(* Initialize.                                                             *)

(* Memory once the image was copied and its bss zeroed.                    *)
Loaded(m, x) ==
  [a \in DOMAIN m |-> IF a < Len(Content(x)) THEN Content(x)[a + 1]
                      ELSE IF a < TotalSize(x) THEN 0 ELSE m[a]]

(* ArgPos(args, size)[i]: where argument i goes.  Each is put below the    *)
(* last with its terminator, in u64 arithmetic; nothing checks for room.   *)
ArgPos(args, size) ==
  LET pos[i \in 0 .. Len(args)] ==
        IF i = 0 THEN size ELSE (pos[i - 1] - (Len(args[i]) + 1)) % W
  IN pos

(* Where the argv array goes, with its closing null.                       *)
ArgvPos(args, size) ==
  (ArgPos(args, size)[Len(args)] - (Len(args) + 1) * PtrSize) % W

(* The bytes of the first arguments, each with its terminator, and of all  *)
(* that Initialize puts on the stack: them, argv with its null, RSI, RDI.  *)
ArgBytes(args) ==
  LET bytes[i \in 0 .. Len(args)] ==
        IF i = 0 THEN 0 ELSE bytes[i - 1] + (Len(args[i]) + 1)
  IN bytes

FrameSize(args) == ArgBytes(args)[Len(args)] + (Len(args) + 3) * PtrSize

(* The host has the command line, a string object longer than a pointer    *)
(* for each argument, in an address space of W bytes.                      *)
ASSUME CommandLineAssumption == \A args \in ArgLists : FrameSize(args) < W

(* What Initialize writes, in the order of its calls: SetCString of every  *)
(* argument, SetMem of the argv array with its closing null, Push of RSI   *)
(* and of RDI.  Only a Push has a floor; only SetCString is quiet.         *)
WordStore(pos, v, floor) ==
  [pos |-> pos, len |-> PtrSize, byte |-> [i \in 0 .. (PtrSize - 1) |-> ByteOf(v, i)],
   floor |-> floor, quiet |-> FALSE]

StringStore(pos, str) ==
  [pos |-> pos, len |-> Len(str) + 1,
   byte |-> [i \in 0 .. Len(str) |-> IF i < Len(str) THEN str[i + 1] ELSE 0],
   floor |-> 0, quiet |-> TRUE]

InitStores(args, size, stack, floor) ==
  LET n == Len(args)
      pos == ArgPos(args, size)
  IN [k \in 1 .. (2 * n + 3) |->
        IF k <= n THEN StringStore(pos[k], args[k])
        ELSE IF k <= 2 * n + 1
             THEN WordStore((stack + (k - n - 1) * PtrSize) % W,
                            IF k <= 2 * n THEN pos[k - n] ELSE 0, 0)
        ELSE IF k = 2 * n + 2 THEN WordStore((stack - PtrSize) % W, stack, floor)
        ELSE WordStore((stack - 2 * PtrSize) % W, n, floor)]

(* A store into a machine of that size lands, or fails with a fault.  A    *)
(* string out of bounds does neither: SetCString only returns false.       *)
Lands(s, size, rdonly) ==
  /\ s.pos >= s.floor
  /\ s.pos \in rdonly .. (size - 1)
  /\ (s.pos + s.len) % W <= size

\* Mutant: the pushes of Initialize have no floor.
StoreFaultNoFloor(s, size, rdonly) ==
  IF s.pos \notin 0 .. (size - 1) \/ (s.pos + s.len) % W > size
  THEN IF s.quiet THEN "None" ELSE "OutOfBounds"
  ELSE IF s.pos < rdonly THEN "AccessViolation" ELSE "None"

StoreFault(s, size, rdonly) ==
  IF s.pos < s.floor THEN "StackOverflow"
  ELSE IF s.pos \notin 0 .. (size - 1) \/ (s.pos + s.len) % W > size
       THEN IF s.quiet THEN "None" ELSE "OutOfBounds"
  ELSE IF s.pos < rdonly THEN "AccessViolation" ELSE "None"

(* Memory m after the stores that land, a later one over an earlier one.   *)
AfterStores(m, stores, size, rdonly) ==
  LET landing == {k \in DOMAIN stores : Lands(stores[k], size, rdonly)}
  IN [a \in DOMAIN m |->
        LET hits == {k \in landing :
                       a \in stores[k].pos .. (stores[k].pos + stores[k].len - 1)}
        IN IF hits = {} THEN m[a]
           ELSE LET s == stores[Max(hits)] IN s.byte[a - s.pos]]

(* The first fault stops the machine; the later ones change nothing.       *)
FirstFault(stores, size, rdonly) ==
  LET faulty == {k \in DOMAIN stores : StoreFault(stores[k], size, rdonly) # "None"}
  IN IF faulty = {} THEN "None" ELSE StoreFault(stores[Min(faulty)], size, rdonly)

(* Initialize, when it does not throw: the size does not overflow, is      *)
(* within the host's limit, and realloc succeeds.  Before that nothing has *)
(* changed, so an Initialize that throws is no step.  b is what a new      *)
(* block holds.  The program is left stopped if its command line does not  *)
(* fit.  return_value and files already open stay.                         *)
Initialize(x, args, stacksize) ==
  LET size == (TotalSize(x) + stacksize) % W
      rdonly == Len(x.text) + Len(x.rodata)
  IN
  /\ size >= stacksize
  /\ size <= max_mem_size
  /\ size > mem_cap => CanAllocate(size)
  /\ mem_size' = size
  /\ mem_cap' = IF size <= mem_cap THEN mem_cap ELSE size
  /\ min_mem_size' = size
  /\ ExeBarrier' = Len(x.text)
  /\ ReadonlyBarrier' = rdonly
  /\ StackBarrier' = TotalSize(x)
  /\ RIP' = 0 /\ RFLAGS' = {}
  /\ suspended_read' = FALSE
  /\ exe' = x /\ cmdline' = args
  /\ RSP' = (ArgvPos(args, size) - 2 * PtrSize) % W
  /\ \E b \in IF size <= mem_cap THEN {0} ELSE Values,
        stores \in {InitStores(args, size, ArgvPos(args, size), TotalSize(x))} :
       LET block == IF size <= mem_cap THEN mem ELSE Fresh(size, 0, b % B)
       IN /\ mem' = AfterStores(Loaded(block, x), stores, size, rdonly)
          /\ error' = FirstFault(stores, size, rdonly)
  /\ running' = (error' = "None")
  /\ FileDescriptors' = IF running' THEN FileDescriptors ELSE AllClosed
  /\ regs' \in RandomRegisters
  /\ UNCHANGED <<max_mem_size, return_value>>

-----------------------------------------------------------------------------
(* The other calls of the host.                                            *)

HostTerminate(err) ==
  Terminate(err) /\ UNCHANGED <<sizeVars, loadVars, max_mem_size, cpuVars, suspended_read>>

HostExit(ret) ==
  Exit(ret) /\ UNCHANGED <<sizeVars, loadVars, max_mem_size, cpuVars, suspended_read>>

ResumeSuspendedRead ==
  /\ running
  /\ suspended_read' = FALSE
  /\ UNCHANGED <<sizeVars, loadVars, max_mem_size, cpuVars, lifeVars>>

(* FindAvailableFD: the lowest descriptor not in use, if there is one.     *)
Available(fd) ==
  /\ FileDescriptors[fd] = NULL
  /\ \A lower \in 0 .. (fd - 1) : FileDescriptors[lower] # NULL

TableFull == \A fd \in FD : FileDescriptors[fd] # NULL

SetDescriptor(fd, f) ==
  /\ FileDescriptors' = [FileDescriptors EXCEPT ![fd] = f]
  /\ UNCHANGED <<sizeVars, loadVars, max_mem_size, cpuVars, suspended_read,
                 running, error, return_value>>

OpenFileWrapper(f) == \E fd \in FD : Available(fd) /\ SetDescriptor(fd, f)
OpenFileWrapperAt(fd, f) == SetDescriptor(fd, f)
CloseFileWrapper(fd) == SetDescriptor(fd, NULL)

CloseFiles ==
  /\ FileDescriptors' = AllClosed
  /\ UNCHANGED <<sizeVars, loadVars, max_mem_size, cpuVars, suspended_read,
                 running, error, return_value>>

MaxMemory(max) ==
  /\ max_mem_size' = max
  /\ UNCHANGED <<sizeVars, loadVars, cpuVars, suspended_read, lifeVars>>

(* The register accessors hand the host a writable reference to any        *)
(* register and any flag, the private ones included, at any time.          *)
SetRegister ==
  /\ \/ regs' \in Registers /\ UNCHANGED <<RSP, RIP, RFLAGS>>
     \/ RSP' \in Addrs /\ UNCHANGED <<regs, RIP, RFLAGS>>
     \/ RIP' \in Addrs /\ UNCHANGED <<regs, RSP, RFLAGS>>
     \/ /\ \E private \in HostFlags, others \in SUBSET (Flag \ PrivateFlags) :
             RFLAGS' = private \cup others
        /\ UNCHANGED <<regs, RSP, RIP>>
  /\ UNCHANGED <<sizeVars, loadVars, max_mem_size, suspended_read, lifeVars>>

(* What a memory access or an operation other than a system call leaves.   *)
Private == <<mem_size, mem_cap, loadVars, max_mem_size, suspended_read>>

(* The host's own GetMem and GetCString,                                   *)
HostRead ==
  /\ \E pos \in Addrs : \/ \E n \in Sizes : Ends(ReadFault(pos, n))
                         \/ Ends(StringFault(pos))
  /\ UNCHANGED <<Private, mem, cpuVars>>

(* SetMem,                                                                 *)
HostSetMem(pos, n, v) ==
  LET fault == WriteFault(pos, n)
  IN /\ Ends(fault)
     /\ mem' = IF fault = "None" THEN Written(mem, pos, n, v) ELSE mem
     /\ UNCHANGED <<Private, cpuVars>>

(* SetCString,                                                             *)
HostSetCString(pos, str) ==
  LET s == StringStore(pos, str)
  IN /\ Ends(StoreFault(s, mem_size, ReadonlyBarrier))
     /\ mem' = AfterStores(mem, <<s>>, mem_size, ReadonlyBarrier)
     /\ UNCHANGED <<Private, cpuVars>>

(* Push and Pop: RSP moves whether or not a client is running.             *)
HostPush(n, v) == PushRaw(n, v) /\ UNCHANGED <<Private, regs, RIP, RFLAGS>>
HostPop(n) == PopRaw(n) /\ UNCHANGED <<Private, mem, regs, RIP, RFLAGS>>

Load == \E x \in Exes, args \in ArgLists, stacksize \in StackSizes :
          Initialize(x, args, stacksize)

HostCall ==
  \/ \E err \in {"None", "Abort"} : HostTerminate(err)
  \/ HostExit(0)
  \/ ResumeSuspendedRead
  \/ \E f \in HostFiles : OpenFileWrapper(f)
  \/ \E fd \in FD, f \in HostFiles : OpenFileWrapperAt(fd, f)
  \/ \E fd \in FD : CloseFileWrapper(fd)
  \/ CloseFiles
  \/ \E max \in MemLimits : MaxMemory(max)
  \/ SetRegister
  \/ HostRead
  \/ \E pos \in Addrs, n \in Sizes, v \in Values : HostSetMem(pos, n, v)
  \/ \E pos \in Addrs, str \in HostStrings : HostSetCString(pos, str)
  \/ \E n \in Sizes, v \in Values : HostPush(n, v)
  \/ \E n \in Sizes : HostPop(n)

=============================================================================
