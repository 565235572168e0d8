# Verification of CSX64

CSX64 (`src/`) is an emulator of a 64-bit machine with its own encoding of a subset of the Intel instruction set, a NASM-like assembler, a linker and a console driver. This directory holds TLA+ models of the emulator, the assembler and the linker, the TLC configurations that check them on small instances, and TLAPS proofs of what matters most.

The program is single-threaded. What is hard about it is the *interleaving of host and client*: the host chooses how many operations each `Tick` runs and may call anything on the machine in between; *long sequences of legal client operations* (moves of the stack pointer, of the break, reloads, suspended reads) against a handful of bounds checks in wrapping arithmetic; *boundaries* and *cached state* in the arithmetic units; and *two descriptions of one encoding*, the assembler's and the machine's, that nothing keeps in step.

## Inventory

| Component | Source | State | Operations | What makes it correct | Module |
|---|---|---|---|---|---|
| Machine memory | `Memory.cpp`, `Computer.h:270-430`, `Computer.cpp:11-40`, `aligned_malloc` in `Utility.cpp` | `mem`, `mem_size`, `mem_cap`, limits, barriers | Get/SetMem, Push/Pop, strings, realloc | no access leaves accessible memory, writes stay out of text and rodata, pushes out of data, the capacity is really there | `Memory` |
| Life cycle and host interface | `Computer.cpp`, `Computer.h` | `running`, `suspended_read`, `error`, `return_value`, descriptors, the loaded program | Initialize, Terminate, Exit, ResumeSuspendedRead, OpenFileWrapper, CloseFiles, MaxMemory, Push, Pop, Get/SetMem, references to registers and flags | a started machine has its start frame; the first outcome stays; client files do not outlive the client | `Computer` |
| System calls | `Syscall.cpp` | registers, descriptors, the break | exit, read, write, open, close, lseek, brk, rename, unlink, mkdir, rmdir | break limits; a suspended read repeats exactly | `Syscall` |
| Fetch, control, stack, flags | `Computer.cpp:129-155`, `Instructions.cpp` | `RIP`, `RSP`, `RFLAGS` | Tick and the handlers that act on the machine | as above, and a client cannot change its private flags | `Machine` |
| File wrappers | `ExeTypes.h:324-560` | stream state, line buffer | Read, Write, Seek | a stream is read in order, once, to its end | `Terminal` (input); capabilities of all in `Syscall` |
| Integer instructions | `Instructions.cpp:400-2317` | registers, status flags | sums, comparisons, logic, shifts, rotates, products, quotients | conditions order what was compared; sums and quotients are exact or say so | `Alu` |
| String instructions | `Instructions.cpp:1970-2240` | RSI, RDI, RCX, DF | MOVS, CMPS, STOS, LODS, SCAS with REP | REP over many Ticks does what REP in one Tick does | `StringOps` |
| x87 unit | `Instructions.cpp:2328-3210`, `Computer.h:640-760` | register stack, tags, control and status words | push, pop, compare, load, store | stack discipline, tags agree with registers | `Fpu` |
| Vector unit | `Instructions.cpp:3208-4312`, `ExeTypes.h:249-315` | ZMM registers | moves, lane-wise operations, conversions, transfers | a lane is done from the operands found; masked lanes keep or clear; nothing past a fault | `VpuLanes`, `Vpu` |
| Executables | `Executable.cpp` | four segments | construct, load, save | the sum of the segments does not wrap | construct in `Linker`, segments in `Computer` |
| Assembler and linker | `Assembly.cpp` | object files, symbols, holes | assemble, link | every hole ends at the address of what its symbol labels; what is included is what is needed | `Linker` |
| Assembly parser and routing tables | `AsmArgs.cpp`, `AsmTables.cpp` | the text segment, its holes | one format handler per operand pattern, 634 mnemonics | the machine reads what was written; a line that has an encoding is not refused | `AsmOperands`, `AsmFormats`, `AsmFpuFormats`, `AsmVpuFormats`, `AsmTables`, `Assembling` |
| Instruction decoding | `Instructions.cpp`, `ExeTables.cpp`, `Memory.cpp:157-186` | `RIP` | one fetch function per format, the handlers' own reading | as above | `OperandFormats`, `OpcodeHandlers` |
| Binary literals | `BinaryLiteral.cpp` | pool of byte strings | add, merge | an index keeps denoting its bytes; nothing is stored twice | `BinaryLiterals` |
| Expressions | `Expr.cpp` | tree with cached values | evaluate, populate | cyclic definitions end in an error | symbols in `Linker` |
| Console driver | `driver.cpp` | - | run, assemble, link | its use of the host interface is among `HostCall` | `Computer` |
| Utilities, random numbers, build | `Utility.cpp`, `FastRng.h`, ... | - | formatting | - | only `aligned_malloc` |

`asm/`, `BiggerInts/` and `ios-frstor/` are submodules whose contents are not in the tree.

**How they interact.** The driver builds an `Executable`, calls `Initialize`, links file wrappers to descriptors 0-2 and calls `Tick` in a loop; `Tick` reads an opcode at `RIP` and calls the handler, which reaches memory only through the accessors of `Memory.cpp` and the outside only through `ProcessSYSCALL`. A fault anywhere ends in `Terminate(code)`. A read of an interactive wrapper that answers nothing sets `suspended_read`, backs `RIP` up by one and makes `Tick` return; `ResumeSuspendedRead` lets the next `Tick` repeat the call. The assembler fills an `ObjectFile`, whose expressions name binary literals by their index in its collection; `Link` consumes object files, starting from the first and following imports, and hands three segments and a length to `Executable::construct`.

The hazards this leads to are listed in `PROJECT.json`, each with its line and the properties that cover it.

## Modules

`Machine` EXTENDS `Syscall` EXTENDS `Computer` EXTENDS `Memory`: one machine, in layers, each adding its variables and actions. `Terminal` refines the "some answer" of `Syscall`'s reads for one kind of wrapper and implements the abstract `InputStream`. `Alu` refines the "some result" that `Machine`'s MOV stands for. `StringOps` EXTENDS `StringElements` EXTENDS `Memory` and implements `StringInstruction`. `Fpu` EXTENDS `FpuNumbers` and implements `FpuStack`. `Vpu` EXTENDS `VpuLanes` EXTENDS `Memory`. `Linker` EXTENDS `BinaryLiterals`. Each `...Proofs` module EXTENDS the module it is about (`MachineProofs` both `Machine` and `Terminal`); `Induction` has the lemmas that several of them use. `Assembling` composes the assembler's side (`AsmTables` EXTENDS `AsmFpuFormats`, `AsmVpuFormats` EXTEND `AsmFormats` EXTENDS `AsmOperands`) with the machine's (`OpcodeHandlers` EXTENDS `OperandFormats`) and with what a line means (`AsmMeaning`).

* **Memory** - A `u64` is a number below `W`, a byte a number below `B`, and sums are taken modulo `W` where the code adds `u64`s. Accessors are *faults*: `ReadFault`, `WriteFault`, `PushFault`, `PopFault` and `StringFault` are the `ErrorCode` the checks of `GetMemRaw`, `SetMemRaw`, `PushRaw`, `PopRaw` and `GetCString` end in, in their order. `Held` is the number in some bytes (`GetMemRaw`, `ZMMRegister::uint`), a sum written as a recursive function. `mem` is the block that is really there, so its domain and `mem_cap` can disagree: `Usable` is what `aligned_malloc` really gets. `Backed` says that the padding of the allocation did not wrap; a machine of which that is not true goes on in memory that is not its own, which is undefined, so `Machine`'s `Next` stops there.
* **Computer** - `Initialize` is one action: checks, realloc, image, bss, barriers, registers, arguments, argv and the two pushes. Its stores are written as the list of calls the code makes (`InitStores`), each landing, faulting or failing silently as `SetCString` does. An `Initialize` that throws has changed nothing and is no step. `HostCall` is what else a host may do between two operations: stop, resume, open and close files, set the limit, `GetMem` and `GetCString`, `SetMem` and `SetCString`, `Push` and `Pop` (which move RSP and may fault whether or not a client runs), and write any register, `RIP` and any flag through the references the accessors return (`SetRegister`). Four things a host can do stay out: the public `realloc`, writing x87 or vector registers, acting on a file through `GetFileWrapper`, and overriding `ProcessSYSCALL`. `exe` and `cmdline` are history.
* **Syscall** - one action per call, with every early return. File system and streams answer nondeterministically, capabilities are those of the wrapper.
* **Machine** - `Tick` with a count of one; a larger count is several steps, with fewer host calls between them than the model allows. `Jump` is JMP, Jcc and LOOPcc with the outcome of the condition open; `MovRegister`, `MovLoad` and `MovStore` stand for every instruction that computes in registers and reads or writes one memory operand.
* **Terminal**, **InputStream** - `Refill` is the loop around `get()`, with `eofbit` and `failbit`, which `get()` sets together at the end of the stream and the wrapper never clears. `HandOver` is the rest of `Read` together with `sys_read`'s decision to suspend. `end` is how many of the waiting characters come before the end of input that the user of a blocking stream signalled. `Kinds` distinguishes an interactive wrapper from one that is not, and a stream that blocks (`std::cin`) from one that is at its end whenever it is empty.
* **Alu** - one action per instruction, for one operand size of `Bits` bits, at most the 64 of a `u64` (`MaxBits`). An operand is a number; `BitsOf` and `Value` go to the set of its bits and back, with the powers `Two`. `flags` is the set of status flags that are on. A flag that the code randomises (`RFLAGS() ^= Rand() & mask`, `Rand() & 1`) takes a value out of `Rands`. `compared` and `op` are history: the operands of the last comparison while its flags stand, and the last instruction with its source. An `ArithmeticError` ends the run; the 32-bit `IDIV` of the least dividend by -1 overflows an `i64` in C++ and may, depending on the host, trap in the emulator instead.
* **StringElements**, **StringInstruction**, **StringOps** - `Element` is one of the five `__ProcessSTRING_*` helpers, on a record of what they read and write, with the bounds checks of `Memory`. `StringOps` is the client in one such instruction: `Once` without a prefix, `WholeLoop` with OTRF, `OneElement` without it, where `past = FALSE` is `RIP` backed up to the instruction. Between two Ticks the host sets or clears OTRF or stops the client. `StringInstruction` is the same instruction in one step, or stopped after some elements; the refinement mapping shows it `start` until the instruction is over and the machine after that. `start` and `startRCX` are history.
* **FpuNumbers**, **FpuStack**, **Fpu** - numbers are names in a small set with their order, their rounding to single and double precision and a NaN; a result of arithmetic is any of them, while everything the unit decides by, moves, tags and rounds is exact. `Fpu` has the physical registers, the tag word, and the control word as a number with its bit fields (`Field`, `WithField`), because `TOP` is one of them. One action per handler; those that differ only in the result they compute share one (named after the first), which allows what any of them leaves in the condition codes. `Environment` takes over the words of FLDENV and FRSTOR one by one, so that a failing access leaves the first of them. `FpuStack` knows neither tags nor TOP: st(0), st(1), ... are a ring, each empty or a value, and `Faults` says where an instruction must stop the client. How often a comparison pops, and where it answers, is there what the table above `ProcessFCOM` says; `Misread` in `Fpu` names the comparisons the code does otherwise, and what it does. FUCOM is the comparison whose `unordered` bit is set. `instr` and `op` are history.
* **VpuLanes**, **Vpu** - a register is 64 bytes, as in the program, and `uint` and `WithLane` are `ZMMRegister::uint` and its assignment. `Integer` has what the delegates compute in an integer lane. A floating-point lane is a sign and a magnitude with a NaN on top, which is all that comparing and choosing need; `Condition` is the table of the 32 comparisons, and `Host` whatever the host's arithmetic and conversions return. A step of `Vpu` is one round of a handler's loop (`Load`, `Store`, `VPUBinary`, `VPUUnary`, `VPUCVT_packed`): the machine does them all in one Tick, but a fault may stop the loop at any lane. A packed conversion fills `temp` and assigns it at the end (`Done`). `VPUCVT_scalar` and `TRANS` have no loop. `start` is history: the registers and memory the instruction found.
* **BinaryLiterals** - `BinaryLiteralCollection` as operators on a record: `Added` is `add`, with its three cases and the loop that absorbs what the new literal contains; `With` is `_insert`.
* **Linker** - the steps of `Link`, one per loop and one per included file, over segments of cells that know their file, segment and offset, which is what the properties recognise them by. A symbol is a label or another name; an expression with operators is left out. The assembler appears as `Provision`, once per binary literal. The order in which the imports of a file are met is that of a hash table and is left open. `literal_fix_map` is `MergedTops`' `fix`, taken as the code takes it, one literal at a time; an index past the end of the offsets reads anything (`Junk`). `places` is what the symbols of the literals evaluate to, from the start of rodata. `program` and `provided` are history.
* **AsmOperands** - an operand is a register, an `st(i)`, a vector register, an immediate or an address. An expression is its value and *when* it is known: on the spot, at the end of the file, or in the linker. `ParsedAddress` takes the registers of an address in any order, since `TryParseAddress` walks a hash map. Code is a list of bytes and of expressions with a size; `Laid` appends them with dummy bytes and a hole for what is not known.
* **AsmFormats**, **AsmFpuFormats**, **AsmVpuFormats** - one operator per format handler of `AsmArgs.cpp`, which gives the code of a line or `Rejected`.
* **AsmTables** - `asm_routing_table` as a function from mnemonics to rows: the handler and what it is called with. A mnemonic is a tuple of parts (`<<"CMP", "EQ", "PD">>`), so that families are products. `Routed` has the rows that look at their operands first.
* **OperandFormats**, **OpcodeHandlers** - the other side: one operator per fetch function of `Instructions.cpp`, from the text and a position to the operands and the position after them; `ReadInstruction` is the dispatch of `opcode_handlers` and the choices handlers make by a byte of their own.
* **AsmMeaning** - what a line says, written from the mnemonic and the operands alone; this is the specification, so it has no counterpart in the code.
* **Assembling** - one line between the assembler, the end of its file (`_ElimHoles`), the linker (`_FixAllHoles`) and the machine. `Misassembled` names the lines that are known to come out wrong.

## Runs

| Run | Module | What it asks | Bounds |
|---|---|---|---|
| `machine` | Machine | segments, outcome, private flags, files and suspended reads under every operation and every call of the host | four programs, addresses on both sides of each barrier and at the top of the `u64` range, operands of 1 and 2 bytes, two descriptors, every system call, one interactive wrapper, the driver's limit |
| `load` | Machine | start frame, break and capacity | command lines that fit, that reach into data and text, and that wrap below zero; break requests one below, at and above each limit and near the largest `u64`; a limit of 21 bytes and the driver's |
| `limits` (violation) | Machine | whether a granted `sys_brk` keeps contents, as `realloc` promises | as `load`, with the driver's limit |
| `reads` | Terminal | order, completeness, end and arrival of terminal input | four characters of three kinds (two letters and a newline), buffers of one and two, all four kinds of stream |
| `integer` | Alu | conditions, sums, quotients, rotates | 3-bit operands, all values, all instructions |
| `adc` (violation) | Alu | whether ADC is exact with its carry | as `integer` |
| `strings` | StringOps | REP in many Ticks against REP in one, block moves, searches, termination | every instruction, size and direction, two contents of five bytes, counts 0, 1 and 3 |
| `fpu` | Fpu | tags against registers, and the ring the instructions promise | four registers, four values, every instruction and mode, two environments to load |
| `vector` | Vpu | which lanes an instruction has done, wherever it stopped; what an integer lane or a comparison holds | every operation and every conversion mode, two registers, all shapes of the element sizes, three masks, addresses at the end of memory, of its read-only part and of the address space |
| `link` | Linker | literal indices and sharing, symbol resolution and alignment, what is included, what stays reusable | nineteen lists of up to three files, up to four literals of five, three entry points |
| `formats` | Assembling | does the machine read what was written; are lines with an encoding accepted | every mnemonic with operands of every kind, nearly ten thousand lines |
| `literals` (violation) | Linker | whether a literal's address is that of its bytes | two files, four literals |

Why the bounds are enough:

* **Machine.** `B = 17`, `PtrSize = 2`, `W = 289`: memory is at most 22 bytes, so "near the top of the range" and "inside memory" are far apart, as they are with 64 bits, while a sum can still wrap. The checks compare a position with a barrier or a size, so only the side of each barrier matters, and the addresses chosen are on both sides of each. `MaxAlloc = 40` is above every legal size, so that no allocation fails for a reason the code could not see. `Overhead = 3` is the padding, and the largest limit, `W - 1`, is the driver's: a request for the largest sizes wraps it. The configurations constrain what is *followed*, never what is checked: each step of a followed state is checked, wherever it leads. `Followed` is the states in which a program has only what its operations read: the registers, files and FSF for the one that makes system calls, the stack pointer for the others, the status flags for the one that sets them. Without it each of these multiplies the others, and a program that has no system call looks the same with any register. `OneKind` does not follow a load of the program with system calls over one without, or the reverse. `Seen` is what is left of a stopped machine's registers: RSP, and that only inside the stack, since `Initialize` sets all of them before anything reads them.
* **Terminal.** With four characters there can be a whole line, a line shorter than a buffer, one longer, and one unfinished. The bounds are `MaxFed` on typing and the sizes in `Caps`.
* **Alu.** With three bits every value of `lo`, `hi` and the source is enumerated; `Counts` is on both sides of `Bits` and `Bits + 1`; a "nibble" of 4 keeps AF different from CF. The draws `Rands` turn every flag on and off. The view `cpu` leaves the history `op` out of the state's identity: the properties that read it read `op'` only, which a step sets.
* **StringOps.** With `W = 16` and five bytes of memory, a pointer of 15 is past the end and wraps in one step, 0 wraps downwards, and 0, 1 and 3 overlap in both directions. Elements are one byte (a register write that keeps the upper byte, as the 8- and 16-bit ones do) and two (one that does not). A barrier at 2 lets a fault come after the first elements. Three elements are a first, a middle and a last one. `Numbers` bounds RCX and RAX.
* **Fpu.** Four registers with a two-bit TOP in place of eight with three: TOP wraps, overlaps the rounding control, the stack fills and empties, and there is a register that is neither st(0), st(1) nor the last. The four values are one outside [-1, 1], zero, one that single precision rounds to zero and NaN. `Draws` is one draw, `Images` two environments: single precision with all registers in use, and extended with TOP at 1 and two empty. The view leaves out what no instruction reads (flags, host rounding, the history, the condition codes, and which of the three tags a register in use has) and merges what follows a fault, which is nothing; the properties read those parts only in the step that sets them.
* **Vpu.** Sizes and numbers of lanes are those of the program; only a byte is one bit, so that elements have one, two, four and eight bits. Two registers are enough for a target that is either operand, both or neither. Forty bytes of memory with a barrier at 4 and `W = 256`: a vector fits, runs over the end, starts below the barrier, or starts near the top of the address space and, with its first lane masked out, comes round to address 0. The registers hold runs and irregular bits, so that lanes are zero, least, greatest and NaN; `MCHost` is an arbitrary function of its operands.
* **Linker.** The lists (`Lists` in `MCLinker`) hold every way in which `Link` refuses and, among those it links, imports in a circle met from either side, two imports at once, a file nobody needs, another name for a label and for the heap, labels in every segment and segments that need padding before, between and after files. `MaxLiterals` allows four literals in one file, three in two and two in three; four make the loop of `add` remove a top level literal and move another, and three at once one after the other. `W = 64` is above every address and below the bss of one list, which overflows.

* **Assembling.** One mnemonic of each handler (`Thorough`) is tried with every kind of operand: registers of each size, low and high ids, a high byte; addresses with each multiplier, one and two registers, each size, displacements that are zero, small, negative, and unknown until the end of the file or the link; immediates plain, sized and strict; masks absent, partial, full, zeroing and late. Every other mnemonic has a smaller set, of one operand for each case its handler distinguishes; each of the 634 has at least one line that is accepted. The NOP before the line makes a hole at the wrong offset show.

### What the violation runs show

1. `adc`: `ADC` and `ADCX` compute CF as `res < a` after adding the carry (`Instructions.cpp:1840,1846`). With a source of all ones and CF on, `res = a` and the carry is lost.
2. `limits`: `aligned_malloc` adds its padding without a test for overflow (`Utility.cpp:54`), and the console driver sets the limit to the largest `u64` (`driver.cpp:446`). A client that asks `sys_brk` for nearly that much gets a block of a few bytes: `realloc` copies the old contents past its end, records the size asked for as its capacity, and returns true, where `Computer.h:218-221` promises the contents up to the lesser size, or no change at all. `BreakSafe`, in the run `load`, says that this is the only way in which a capacity can fail to be there.
3. `literals`: `Link` writes down where each literal of a file is in the total right after adding it (`Assembly.cpp:895`), but adding the next one may move, replace or remove it. With the literals `1` and `2` in one file and `3` and `1,2` in another, adding `1,2` moves `3` from the third to the second place and leaves the note at the third, past the end of the table that is then read (`Assembly.cpp:951`).

### What the models have as the code does it

Some behaviour was modelled as it is although it may surprise; no line of the repository promises otherwise, so no run calls it wrong. `FPU_TOP` is a field of the control word (`Computer.h:664`), where it shares bit 11 with the rounding control: pushes and pops change rounding, `FLDCW` turns the register stack, and `FSTSW` never shows TOP. A zero is tagged special, since `IsDenorm` is true of zero and is asked first (`Computer.h:69`). `FRSTOR` assigns all eight registers and thereby marks all of them as in use, whatever the tag word it has just loaded says. `SUBS` of a vector adds the negative (3759), and the least number is its own: subtracted from a number that is not negative it is added in place of the result being held at the greatest, and from one that is negative it gives the least number although the difference fits. A packed conversion clears lanes that are masked out whether or not `zmask` is on, since its buffer starts clear (3507). `fesetround` is never undone (2347). The physical registers are not initialised, which no property depends on since all are tagged empty. `sys_read` takes every answer of 0 from an interactive stream as "no data yet" (`Syscall.cpp:63`), but 0 is also the answer to a read of 0 bytes, which therefore waits forever; the run `reads` has no such read.

`Misread`, in `Fpu`, lists where comparisons depart from the table of their formats (`Instructions.cpp:3016-3032`). A mode has four bits and its pops are chosen by three (`s & 7`, 3099): `FICOMP m16` (mode 8) does not pop, `FICOM m32` (9) pops once and `FICOMP m32` (10) twice, where the table says once, not at all and once. The modes 11 and 12, `eflags` in the table, answer in the CPU's flags only when the whole byte is 11 or 12 (`s == 11`, 3083), that is for st(0) with itself in the ordered form, and otherwise in the FPU's. `KeepsPromises` excepts exactly these; leave any of the four out of `Misread` and TLC reports the comparison.

`Misassembled` and `ForgetsSize` list where the assembler and the machine part, or where a line means something else than its mnemonic. `SETA` and `MOVA` have the code of `BE` (`AsmTables.cpp:391`, `426`: listed twice, and the first of two initializers with one key stays), and `FMOVB` is listed in place of `FMOVNB` (691). A shift of a value in memory is written with the constant 1 in place of the address settings (`AsmArgs.cpp:2257`). `FCOM` and `FCOMP` of two registers are assembled as `FCOMI` and `FCOMIP`, `FILD` of a register as `FLD`. `BT` and `BEXTR` take unsized memory with an immediate for a byte. `CMP` with a plain zero forgets the size that came with the zero (`AsmTables.cpp:538`). The displacement of a 16- or 32-bit address is read without its sign (`Memory.cpp:177`).

### Fairness

`Machine`, `Alu`, `Fpu`, `Vpu`, `Assembling` and `Linker` are checked for safety only and assume no fairness: a host may stop calling `Tick` at any time. `StringOps` assumes weak fairness of `Tick` for `InstructionEnds`: the driver ticks as long as the machine runs (`driver.cpp`). `Terminal` assumes weak fairness of `Read` (the driver ticks as long as the machine runs) and of `Request` (the property is about a client that keeps reading), and of nothing else: no host in the repository clears a stream or resumes a client, and no user has to type. So `InputArrives` cannot promise every character. It says exactly what is left: a character is read, or from some time on it is `Stuck`, still in a stream that stays at its sticky `eofbit` (`ExeTypes.h:482`) or that a client waits for which stays suspended. What has entered the buffer always arrives, and a host that clears and resumes again and again, in whatever order, loses nothing.

`Alu` stops at an arithmetic error, `Fpu` at a fault, `Vpu` at a fault or when the instruction is over, `StringOps` when the instruction is over, `Linker` when the link is and `Assembling` when the code is read, so their runs do not check for deadlock. Nor do those of `Machine`, which ends where a block is not there. The run of `Terminal` does: a user can always act, until the bound on typing is reached and everything was read, when the client still repeats its read.

## Proofs

Every theorem is about the specification that the runs check, for all values of the constants that the assumptions admit. An assumption is on a size or on the shape of an input, except `TableAssumption`, which is about no constant at all: TLC evaluates it and has thereby decided it; those about the world are `WordAssumption` (a process cannot allocate half of its address space), `CommandLineAssumption` (the host holds the command line, a string object for each argument, in an address space of `W` bytes), and `HostAssumption` (host arithmetic on bit patterns returns a number).

The models keep recursion in functions, never in operators, so that it can be reasoned about. `Induction` proves induction for properties that form a *set* of numbers (`Induct`, `InductTo`), and from it that the recursive functions of the models exist (`PowersDefined`, `SumsDefined`: a function defined by `CHOOSE` is its equation only once some function satisfies it) and what sums of digits are (`SumsBounded`, `SumOfDigits`, `DigitOfSum`). That is how the powers `Power` and `Two`, the numbers `Held` in bytes, the values of bit sets, the loops over elements, and the literals, files and symbols of the linker come within reach.

**MachineProofs**

| Theorem | Says |
|---|---|
| `Invariance` | `Spec => []Sound`: all of `IInv` as long as the block is there, and what holds of the client in any case |
| `TypesKept`, `ReadonlyKept`, `BreakKept`, `ClientFilesClosed` | the invariants of the runs `machine` and `load` |
| `SuspensionSafe` | `Spec => SuspendedAtRead`: a client that becomes or stays suspended stands at the read it will repeat, unless the host wrote its registers |
| `StackContained` | no push, of the client or of the host, changes a byte below `StackBarrier` |
| `OutcomeKept`, `FlagsPrivate` | the action properties `StoppedIsInert` and `PrivateFlagsKept`, from the actions alone |
| `AccessesContained` | `Spec => AccessesStayInside`: no write leaves memory or enters the readonly segments, no fetch lacks its operands |
| `BreakKeepsContents` | a `sys_brk` keeps what is below both breaks |
| `StartsFramed` | a machine that starts to run has its whole start frame: counts, argv, pointers, strings and segments |

The invariants are not inductive by themselves. That text and rodata stay intact needs every write to land inside the block *as it is* and not only inside `mem_size`, hence `CapacityBacked`; that needs `mem_cap <= MaxAlloc`; that the barriers bound the text needs their exact values in terms of the executable and `BreakKeepsProgram`; that a suspended client's SYSCALL can be found again needs the text intact. `IInv` is the conjunction of `MemoryInv` and `ClientInv`. No assumption is made on the limits a host sets, so an allocation may wrap its padding: then `Overrun` holds, which has what can still be said of the sizes, and `Sound` is `MemoryInv` or `Overrun`, with `ClientInv` (`PaddingWrapped`, `BreakMoved`). A machine that is `Backed` has all of `IInv` (`Real`). The properties about contents of memory are therefore conditional on `Backed`, in the step that reads them; those about the outcome, the flags, files, suspension and sizes are not. The proof is one lemma per group of actions (`PlainOperations`, `StoringOperations`, `FlagOperations`, the calls, `InitializeKept`, `HostCalls`, `HostAccesses`) over two carrying lemmas: `OperationKept` for what keeps memory, or changes it at or above the readonly barrier only (`WritableChange`), and `ClientKept` for what goes on or stops. The arithmetic is in `ModSmall` and `NoWrap`.

`Initialize` looks at the result of none of its stores (`Computer.cpp:87-122`), a string out of bounds does not even terminate the machine (`Memory.cpp:27`), and the positions of the arguments may wrap. `LastPushTells` says why the last push, which terminates, is enough: memory is less than half of `W` and the whole frame less than `W` (`CommandLineAssumption`), so if the last position is at or above the stack barrier and inside memory, no position before it wrapped. The stores are then packed one below the other (`FramePacked`), so each outlives those that follow, and `FrameComplete` reads the frame back. The same pushed words (`RoomForPushes`) stand between the text and the least break that `sys_brk` grants. They are the room for operands that a fetch at the end of the text needs (`RoomForOperands`): `Tick` tests only the address of the opcode against the text.

**AluProofs**, for every operand size from 2 to 64 bits:

| Theorem | Says |
|---|---|
| `AluTypes` | `Spec => []TypeOK` |
| `AluComparisons` | `Spec => []CompareDecides`: the twelve ordering conditions order what was compared, unsigned and signed |
| `AluSums` | `Spec => SumsExact`: ADD, ADC, SUB, NEG, INC and DEC are exact with CF, and as signed numbers unless OF |
| `AluDivisions` | `Spec => DivisionExact`: quotient and remainder of the whole pair, or an error exactly when there is no quotient that fits |
| `AluRotates` | `Spec => RotatesTurnTheRing`: rotates turn the bits, with or without CF among them, by their count |

A wrapped sum or difference is off by exactly `M` (`Wraps`), the sign bit says which half a number is in (`SignOf`), and CF and OF each say whether the wrap happened (`SumFacts`, `DifferenceFacts`). That a step was the instruction `op'` names, and which, is `Tells`. A signed quotient in C++ truncates, so the proof divides magnitudes (`QuotientFacts`) and needs also that no other quotient would do (`QuotientUnique`), for the half of the property about errors. A rotate without carry exchanges the two parts of the operand; `LowBit` and `HighBit` say which bit of a number in two parts is which, and `RotatedBits` that they have turned. A rotate through the carry is a loop: one turn to the left turns the ring by one (`LeftRing`), one to the right is undone by one to the left (`LeftOfRight`), and turns add up modulo the ring (`TurnedTwice`, `TurnedCount`).

**StringOpsProofs**, for every word, byte size, memory, count and direction:

| Theorem | Says |
|---|---|
| `StringsInvariant`, `StringsTypeOK` | the inductive invariant and the types |
| `StringsWhole` | `Spec => WholeInstruction`: the instruction in many Ticks, with OTRF set or cleared on the way, implements the one in a single step |
| `SearchesStopAtFirst` | a search stands after the first element that ends it |
| `BlockMovesCopy` | a block move whose destination does not run ahead into its source copies it |

The invariant says that the machine is what `Steps[j]` makes of the start, for the `j` by which RCX has gone down, and that no element before the last ends the instruction. The loop of one Tick is unfolded from its end (`LoopUnfolds`, `LoopEnds`), and the abstract instruction's `After` is `Steps` again (`AfterIsSteps`). For the copy, the places of the elements do not wrap when none faults (`MovedInside`, `PlacesExact`), a number is its bytes and back (`HeldBytes`), and bytes of the source that are still to be read are not yet written (`WritesSpare`).

**VpuProofs**, for every size of a byte, instruction, register file, memory and host arithmetic:

| Theorem | Says |
|---|---|
| `VectorTypes` | `Spec => []TypeOK` |
| `VectorLaneByLane` | `Spec => []LaneByLane`: which lanes an instruction has done and from what, wherever it stopped; a conversion assigns all at once; the fault is the one that is due |
| `VectorLanesExact` | `Spec => []LanesExact`: each integer lane and each comparison is the one its name says |
| `RegisterLanes` | the first part of `LaneByLane` alone |
| `SignedSaturation`, `UnsignedSaturation`, `SignedDifference` | `ADDS`, `ADDUS` and `SUBS` hold at the ends of the range; `SUBS` unless the least number is subtracted |

A lane in a register is still as it was found when its turn comes, although the target may be an operand: the lanes already written lie below it (`OperandsAsFound`, from `LaneOfByte`: a byte belongs to one lane), and they stay when another is assigned (`WantedStays`). Stores need more: the lanes of a store lie apart in memory even where addresses wrap, because a vector is at most 64 bytes and an address space at least 256 (`LanesApart`), and what is written is not read again. A conversion is in `temp` up to the lane it is at (`Converting`). A fault is due at the first lane that is `Bad`, so the invariant has that no lane passed was (`FaultsInvariant`). Exactness of bitwise lanes is that of sums of digits (`FromBits` of a set of bits has those bits); the 32 comparisons are a table, line by line.

**FpuProofs**, for two, four or eight registers and every set of numbers:

| Theorem | Says |
|---|---|
| `FpuTypes` | `Spec => []TypeOK` |
| `FpuKeepsPromises` | `Spec => KeepsPromises`: physical registers, tag word and TOP implement the ring of `FpuStack`, but for the comparisons of `Misread` |
| `FpuTagsFollow` | `Spec => TagsFollow`: a register's value does not change without its tag |

There is one lemma per instruction (`FLDStep` to `FSTLDUndefinedStep`), over what the few primitive changes - assign, free, turn, push, pop - show of the ring (`AssignSeen`, `FreedSeen`, `TurnSeen`, `PushSeen`, `PopSeen`). A comparison is shown to make the pops and give the answer the code does (`FCOMPopsShows`), and that to be what the table has or what `Misread` excepts (`ComparesOrMisread`). TOP is a field of the control word, so those rest on what assigning a field does to the others (`FieldsAre`, `TopIsSet`).

Also in **MachineProofs**, about `Terminal`, for every alphabet, kind of stream and buffer size:

| Theorem | Says |
|---|---|
| `TerminalTypes` | `TerminalSpec => []TerminalTypeOK` |
| `TerminalLosesNothing` | `TerminalSpec => []NothingLost` |
| `TerminalReadsAreInput` | `TerminalSpec => ReadsAreInput`: the wrapper and the suspended reads implement `InputStream` |

What the client has, what the buffer still holds and what the stream still holds are together what was typed. A refill cuts the stream in two and an answer the buffer, and cutting a sequence changes nothing (`Cut`). For the refinement the invariant also has that the buffer is one line (`OneLine`) and that the end of input is ahead (`EndPending`).

**LinkerProofs**, for all object files, literals and bytes:

| Theorem | Says |
|---|---|
| `LinkerLiteralsDenote` | `Spec => []LiteralsDenote`: an index keeps denoting the bytes it was given for |
| `LinkerSharesLiterals` | `Spec => []MaximallyShared`: no literal is stored that another contains |
| `LinkerIncludesNeeded` | `Spec => []IncludedAsNeeded` |
| `LinkerCleanUntouched` | `Spec => CleanUntouched` |
| `LinkerLayout` | `BssFits => (Spec => []TypeInv)`: the segments of the included files stand whole and aligned in the total's, the bss of files apart, the origins one after another |
| `LinkerTypes` | `BssFits => (Spec => []TypeOK)` |
| `LinkerReferencesResolve` | `BssFits => (Spec => []ReferencesResolve)`: a hole holds the address of what its symbol stands for |

`add` replaces, moves and removes top level literals, and each must keep every range that points into one (`ReplacedKeeps`, `RemovedKeeps`): `Keeping` says that a change keeps what indices denote *if* the collection was sound. The condition matters, since `Link` itself breaks the total's indices (the run `literals`), while those of the files and the sharing stay sound (`Apart`). The search that absorbs contained literals steps over a list that shrinks under it (`SearchedStep`). What is included is what the import relation reaches: the queue and the included files are among what is needed, and what an included file needs is among them (`InclusionOK`); when the queue is empty, that is the closure (`ReachedIsLeast`).

That holes resolve takes two more invariants. `TypeInv` says where things are: a file's segments stand at the offsets of `included`, cell by cell, except for what fills their holes (`Placed`, `IsCell`); they stay there while other files, literals and padding are appended (`PlacedStays`); each offset is a multiple of the file's alignment, and so is each origin, because the alignment a segment is padded for is the greatest of powers of two and thus a multiple of every other (`AlignmentOfAll`, from `AlignmentAssumption`); the bss of files lies apart (`BssApart`). `ValuesOK` says what symbols are worth: a symbol that has a value *resolves* to it (`Resolves`), which is to say that every set of names that holds it and is closed under references has one that denotes the value. That is shown along the names `Evaluate` has not yet visited (`EvaluateResolves`: `Evaluate` is a function on sets of visited names, and `ValueExists` that there is such a function), then across files (`ExternalsDefined`: an external has the value its exporter's global had *before* any external was defined, so one round is enough), and no other hole overwrites a cell (`HoleFilled`). In the end `ImageParts` finds the cell in the executable.

`BssFits` (the bss of a program's files, with padding, is less than `W`) is necessary: `bsslen` is summed modulo 2^64 while files are merged (`Assembly.cpp:837`, `862`), and `construct` tests the wrapped sum. Give `Main` and `Buf` of `MCLinker` 40 cells of bss each in a space of 64 and TLC finds an executable in which they overlap. `IsObjectFile` has what the assembler makes sure of, that labels and holes are inside their segments and no two holes at one place; `ObjectFile::load` tests a loaded file for its alignments (`Assembly.cpp:224`) but not for that.

**AssemblingProofs**, for every set of lines:

| Theorem | Says |
|---|---|
| `AssemblingAccepts` | `Spec => []AcceptsWellFormed`: no well-formed line becomes an error, at the line, at the end of the file or in the linker |
| `AssemblingTypes` | `Spec => []TypeOK`: whatever handler writes the line, its text is bytes and its holes are inside of the text, at the line, at the end of the file and in the linker |
| `AssemblingReads` | `Spec => [][ReadNext => pc' > pc \/ stage' = "undefined"]_vars`: whatever the bytes are, reading an instruction ends beyond its opcode or in an error |

The parser walks over the register names in the order of a hash map, looks for each in the address, and puts those it finds into two places of which only one can be scaled. The walk is a fold over all names, so the proof follows it from its end (`SlotsWalk`) and says after k names what the first k need (`PlacedOK`): whether a register without a scale is met before or after the scaled one, both fit, and in the end both places hold what an encodable address asks for (`EncodedSlots`). The handler of a well-formed line then finds one size, in whichever operand states it (`BinarySized`), and what it writes are pieces that all *fit*: bytes, or expressions that have an encoding of their size, which not every floating-point one has (`CodeFits`). That is not enough for the end of the file: a hole left at the line is filled later, by `TryPatchHole`, which can refuse. So the inductive invariant `Accepting` has that every hole of a well-formed line can be filled (`Patchable`), which laying out and filling keep, piece by piece and from the last hole to the first (`LaidAccepted`, `FilledAccepted`). It is also where a floating-point value may be an error although the line reads well: as a displacement of an address of 2 bytes, or as an immediate of 1 or 2. `Encodable` and `OneSize` exclude exactly those.

`AssemblingTypes` does not restrict the lines: an operand is any register, address, value or mask that can be written (`LinesAssumption`), and a line may be refused anywhere on its way. Every handler is shown to write *pieces* (`Typed`: bytes, expressions of one to eight bytes, or a refusal) when its operands have been parsed (`IsSeen`) and its row has the numbers the handler can do with (`IsRow`: a mode that fits its half of a byte, one shape for the sizes of a conversion); `CodeTyped` puts the handlers together, one for each form of the table. It is a proof about arithmetic more than about cases: that a register, a size and a flag share a byte without a carry is what `16 * id + 4 * size + flag` has to show for each handler. The inductive invariant `Typing` says of each hole that it lies within the text *as it is now* (`HolesIn`), which `LaidTyped` keeps while the text grows and `FilledTyped` keeps because a patch leaves its length alone. That every row satisfies `IsRow` is `TableAssumption`: it is closed - nothing in it depends on a constant - and TLC evaluates it for all 634 rows on the run `formats`; the table is built with operators of the module TLC (`@@`, `:>`), which the provers cannot expand.

`AssemblingReads` needs nothing but that the text is bytes. `Onward` holds of what each fetch function returns (the next place is not before the one given), `Ends` of what a handler makes of it (or it is an error), and `InstructionRead` follows the table of opcodes. `Tick` is thus done with a line of n bytes after at most n instructions.

**Only model-checked:** `DecodesAsWritten` of `Assembling`. That reading undoes writing has to be shown for each pair of a row and its fetch function, with the values of the bytes between them: a proof would be an enumeration of the rows, which the run already is. Liveness (`InstructionEnds`, `InputArrives`) is out of the prover's reach.


## What is left out

* The public `realloc` called by the host itself: it may cut memory away under a running program, and nothing in the code defends against it. Of the rest of the host's interface: writing x87 and vector registers, acting on a wrapper through `GetFileWrapper`, and a subclass that overrides `ProcessSYSCALL`.
* What a machine does with a block whose padding wrapped: undefined in C++, and the model ends there.
* A fetch whose operands lie past the end of memory. `OperandsPresent`, a part of `AccessesStayInside`, says that the words `Initialize` pushes always leave room for them, and `AccessesContained` proves it, so the model has no such fault.
* `return_value` after an end by `Terminate` is whatever it was before; the model keeps it so, and no property is stated because nothing in the code promises otherwise. The same goes for files of a program that is still running when `Initialize` is called: they stay open.
* Bits of `ErrorCode` that only unmodelled instructions raise.
* In `Alu`: operand formats and their undefined extension codes, moves between sizes (`MOVxX`; `Cxy` stands for the sign extensions), `BSWAP`, `LEA`, the decimal adjustments, and `LOOPcc` (in `Jump`).
* In `StringOps` and `Fpu`: a fetch of the operand byte that fails (see above), and a string instruction that overwrites itself. The status flags other than ZF of CMPS and SCAS are those of `Alu`'s CMP, computed by the same lines.
* In `Fpu`: what FSAVE, FSTENV and the stores put into memory, MXCSR, and the operand widths of FLD and FADD apart from one. Results of arithmetic are any value.
* In `Vpu`: the reading of the settings bytes (in `OpcodeHandlers`), MXCSR, and what host arithmetic returns, including the conversions of numbers out of range, which C++ leaves undefined. MOVBE, mode 4 of TRANS, is an integer instruction.
* In `Assembling`: the text of a line (splitting, quoting, labels, macros, `TIMES`), the directives, and the `StrictUND` checks, which are compiled out. `MOVQ` and `MOVD` with a single operand read an operand that is not there (`AsmTables.cpp:778`) and are not among the lines.
* In `Linker`: what the assembler does apart from binary literals, operators in expressions, holes that are too narrow for their value, load and save of object files, and, in the runs and by the hypothesis `BssFits` in the theorems, files whose bss together exceeds the address space.
* Formatting, localization, command line parsing, the debug dumps.

## Plan

In this order, each with its properties and, where it can be had, a theorem:

1. **Executable** and **BasicFile**: construct, load and save with a file that ends early and segments whose sum wraps; the file wrapper after the end of its stream.
2. **Bytes and decimals** in `Alu`: DAA, DAS, AAA, AAS after a sum of decimal digits; BSWAP and MOVBE, whose `ByteSwap` overwrites its partial results (`Utility.h:429-435`).
3. **Expr**: the operators, evaluation with caching, the assembler's passes over symbols and holes.
4. Proofs of these, and of the linker's types without `BssFits`.
