----------------------------- MODULE MCMachine ------------------------------
(***************************************************************************)
(* Machine for the model checker: bytes below 17, two-byte words, programs *)
(* of a few operations, and the choices of host and client that reach each *)
(* check of the code from both sides.                                      *)
(***************************************************************************)
EXTENDS Machine, Functions

MCW == 17 * 17

(* Executables: text, rodata, data, bss.                                   *)
Program(text, rodata, data, bss) ==
  [text |-> text, rodata |-> rodata, data |-> data, bss |-> bss]

(* Stores, pushes and pops next to a read-only byte and a data byte; calls  *)
(* and returns that leave the text; flags; the operations that stop.       *)
CodeExes ==
  {Program(<<MOV, 0, PUSH, 0, POP, 0, JMP, 0>>, <<7>>, <<5>>, 0),
   Program(<<POP, 0, CALL, 0, NOP, JMP, 0, UNKNOWN, 0, RET>>, <<>>, <<>>, 1),
   Program(<<POP, 0, STLDF, 0, JMP, 0, HLT, 0, 0, CALL>>, <<>>, <<0>>, 0)}
CodeAddrs == {0, 4, 9, MCW - 2}

NoArgs == {<<>>}
NoRegisters == {[RAX |-> 0, RBX |-> 0, RCX |-> 0, RDX |-> 0]}

(* A program that reads its arguments from the registers and calls.        *)
CallLoop == {Program(<<MOV, 0, SYSCALL, JMP, 0>>, <<>>, <<0>>, 0)}

Regs(a, b, c, d) == [RAX |-> a, RBX |-> b, RCX |-> c, RDX |-> d]

FileRegisters ==
  {Regs(sys_read, 0, 5, 1), Regs(sys_write, 1, 5, 1),
   Regs(sys_open, 5, 3, 0), Regs(sys_open, 200, 2, 0),
   Regs(sys_close, 0, 0, 0), Regs(sys_close, 9, 0, 0), Regs(11, 0, 0, 0),
   Regs(sys_lseek, 1, 0, 1),
   Regs(sys_exit, 67, 0, 0), Regs(sys_rename, 5, 200, 0), Regs(sys_rename, 5, 5, 0)}

Keyboard == [interactive |-> TRUE, CanRead |-> TRUE, CanWrite |-> FALSE,
             CanSeek |-> FALSE, client |-> FALSE]

MCExes == CodeExes \cup CallLoop
MCRegisters == NoRegisters \cup FileRegisters
MCFlags == {{}, {"FSF"}, {"OTRF"}}
MCHostFiles == {Keyboard}
MCStrings == {<<0>>}

(* A program is followed with what its operations read: registers, files   *)
(* and FSF if it makes system calls, the stack pointer if it does not, the *)
(* other flags if it sets flags.  The steps that leave this are checked,   *)
(* and not followed.                                                       *)
Has(op) == op \in Range(exe.text)
StartRSP == (ArgvPos(cmdline, min_mem_size) - 2 * PtrSize) % W
Followed ==
  exe # NULL =>
    /\ IF Has(SYSCALL) THEN RSP = StartRSP
       ELSE regs \in NoRegisters /\ FileDescriptors = AllClosed /\ "FSF" \notin RFLAGS
    /\ ~Has(STLDF) => RFLAGS \subseteq {"FSF"}

(* A machine is not given programs of both kinds, the one over what the    *)
(* other left in memory.                                                   *)
OneKind == exe # NULL => (exe \in CallLoop <=> exe' \in CallLoop)

(* Of the registers and flags of a stopped machine nothing is read but RSP *)
(* before Initialize sets them all: they tell no two states apart.  Nor do *)
(* two values of RSP out of the stack, although a host that pushes for     *)
(* ever comes round to it again.                                           *)
Seen ==
  <<sizeVars, limitVars, max_mem_size, ExeBarrier, running, suspended_read, error,
    return_value, FileDescriptors, exe, cmdline,
    IF running THEN cpuVars
    ELSE IF RSP \in StackBarrier .. mem_size THEN <<RSP>> ELSE <<>> >>

(* Command lines that fit, that reach into data and text, and that run     *)
(* below address zero; moves of the break around the size at Initialize,   *)
(* and reads that end at or past it.                                       *)
LoadExes == {Program(<<MOV, 0, SYSCALL, JMP, 0>>, <<>>, <<5>>, 1)}
LoadArgs == {<<<<3>>, <<>>>>, <<<<1, 2, 3, 4>>, <<5>>, <<6, 7>>>>}
LoadStacks == {3, 12, 13, MCW - 9}
BreakRegisters ==
  {Regs(sys_brk, n, 0, 0) : n \in {0, 4, 19, 21, 22, MCW - 2}}
  \cup {Regs(sys_read, 0, 18, 2), Regs(sys_read, 0, 19, 2)}
Pipe == [Keyboard EXCEPT !.interactive = FALSE]
MCPipe == {Pipe}

(* The limit the driver sets, the largest u64, and one below the capacity. *)
DriverLimit == {MCW - 1}
LoadLimits == {21, MCW - 1}

=============================================================================
