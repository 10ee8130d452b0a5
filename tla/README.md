# A verification of asm_stuff

`asm_stuff` is a collection of size-optimised Linux programs: 32-bit ones in
NASM assembler with a macro library they share (asmlib), and experiments in C
that do without a C library, or find one at run time. What holds the collection
together is not one program but a few machines that are easy to get subtly wrong:

* **the register tracker** of asmlib: while NASM assembles a program, every
  macro reads and rewrites an assemble-time record of what each register will
  hold at run time, and picks the shortest instructions that are right *if the
  record is*;
* **viert**, a Forth whose primitives each keep a few bytes by counting on
  what the one before left in the registers;
* **the symbol lookups** of the C experiments, which walk the dynamic loader's
  list of objects and take a function's address out of its tables, by four bytes
  of its name or by a hash;
* **the code without a C library**: inline assembly that a C compiler knows only
  by what it has been told, start-up code, and a signal handler that makes
  system calls of traps.

The modules here model these, one network program built with the tracker, and
the number printers. The newest state of the library is
`isvm-tool/viert.proj/asmlib`, which is the one modelled (the programs of
`isvm-tool/` include an older copy, `isvm-tool/asmlib`, with the same rules for
the instructions that matter here; `asmlib/` is older still).

Paths below are relative to `src/`; `V/` stands for `isvm-tool/viert.proj/`.

## 1. The system's parts

| part | state | operations | model |
|---|---|---|---|
| register tracker, `V/asmlib/generic.mac` | assemble time: `reg_*_val` of 8 registers, run time: the registers and the stack | `set`, `zero`, `ychg`, `taint`, `rset`, `rinit`, `push0`, `alloca2`, `memset`, `memcpy`, `stos`, `doloop`, `reg_assert` | `RegTrack` (all but `doloop`) |
| system-call layer, `V/asmlib/syscall.mac` | the same record; processes, for the `antiptrace` family | `syscall` / `sc_param`, one macro for each call, `antiptrace2`, `antistrace`, `system`, `printstatic` | `RegTrack` (`syscall`) |
| number printing, `V/asmlib/print.mac`, `regdump.mac`; in C, `hello4.c` | eax, the buffer on the stack | `printnum`, `tohex`; `hexprint`, `xxprint`, `hexprint3` | `Digits` |
| viert, `V/codewords.asm`, `forthwords.asm`, `macros.asm`, `viert3.asm` | esi, esp, ebp, eax; two stacks in one segment; the threaded code | 31 primitives, `NEXT`, `DOCOL`/`EXIT`, the words, the control-flow macros | `ViertCode`, `Viert`, `Forth` |
| clock setter, `isvm-tool/ntppool2.asm` | one UDP socket, two buffers, the timer | DNS query, NTP request, `settimeofday` | `NtpPool` |
| symbol lookup in C, `dnl.c`, `heb.c`, `dnload.c`, and their callers in `mini.h`, `hello.c`, `heb.c`, `dnload.h` | the link map, read only; `g_symbol_table` | `_start`, `dnl_int`, `loopy`, `main`, `dnload`, `dnload_find_symbol`, `elf32_get_library_dynamic_section` … | `LinkMap`, `Lookup`, `Symbols` |
| small C programs and IMPORT, `hello5.c`–`hello7.c`, `hep.c`, `42.c`, `dl.c`, `dl.h` | stdio's buffer, the loader's pending error | start, print, import, leave | `Startup` |
| alternative calls, `hello2.c` | instruction pointer, handlers, pending signals | `sigaction`, seven kinds of trap, the handler `trap`, `setcontext` | `AltCall` |
| code without a C library, `hello3.c`, `clang-sucks.c`, `dbg.h`, `abort.c` | registers and stack | `write`, the ways to exit, hypervisor test, six cpuid printers, debug prints | `Cero` |
| environment printer, `envstr.c` | a pointer into the stack | the walk, the writes | `EnvStr` |
| older clients `ntppool.asm`, `sntp.asm`, `dns.asm` | – | the same protocol | not modelled: predecessors |
| flat-binary loaders `binfmt2`–`6.asm` | the mapped page, the descriptor | open, mmap/read, jump | not modelled |
| FizzBuzz, checksums, printers, CPU and VM detection in assembler | registers | straight code | not modelled |
| ELF headers, hardening, debugging output of asmlib | none | layout | not modelled: no state |
| `debug-trap.h`, `whiten.h`, `clang-crash.c`, `42orig.c`, `oldmini.h` | none | – | not modelled (section 7) |
| `2048.asm` | board | – | not modelled: third-party |

**How they interact.** A program in assembler is NASM source whose lines are
macros of asmlib; the tracker sees only those lines, in source order, and the
program tells it what it cannot see (`rset eax, 0`, `taint`). Two facts thus live
in two places and are never compared at run time: what the record says, and what
the processor holds. `ntppool2.asm` uses this on purpose: `rset eax, 0 ;
OPTIMISTIC` after a call that may have failed. viert uses asmlib for its start-up
only; its words interact through eax ("must be ≤ 255"), the two stacks, and the
convention that loop counters and return addresses share the return stack.

The C programs share a convention of the same kind with what runs before them:
`_start` finds in eax the link map ld.so left there, or whatever the kernel put;
`heb.c` and `dnload.c` find it through the program's own header, at a fixed
address. What a lookup returns is *called*, untested. A C function around an asm
statement trusts the statement's list of registers, as the tracker trusts `rset`.

**What is hard.**

* tracker: a stale or wrong record makes a *later, unrelated* macro emit the
  wrong instruction. The choice has some 40 alternatives, with boundaries at
  each width and sign, and each may read or write other registers.
* viert: an illegal state of one word shows in the next one. The stack depth of
  each path through a word, failing writes, stacks that meet.
* clock setter: no result of any call is tested; replies are lost, late, refused
  or there twice; a failed call leaves a negative number where the next call's
  number goes; the only timeout is a signal that may come at any instruction.
* lookups: what an object's pointers mean depends on who mapped it; imports look
  like definitions; keys collide; state of one object survives into the next;
  the end of the list is not tested, the end of a section neither; a table is
  replaced in place while it is read.
* alternative calls: the handler tells signals apart by fields anyone might
  have filled in, moves the instruction pointer by a number of bytes that is not
  always the instruction's, and may be interrupted itself.
* code without a C library, start-up: registers lost without the compiler's
  knowledge, lengths written by hand, results that are lost by the way out.
* printers: the boundaries (0, the sign bit, ten digits, 64-bit registers).

**What makes each part correct** is, in the same order: the record never claims
what the processor would deny, so every macro does what its line says whatever
ran before; each primitive is a step of an abstract Forth machine and each word
does what Forth says; the clock is set only from an NTP answer, no server gets
the other's request, the exit status tells, the program ends; a lookup answers
with what the first object (in `heb.c` the last) has for the key, or is lost for
one of the reasons the abstract specification names, never with a mixture of two
objects' tables; only a trap of main's own is passed over, once; a snippet
changes nothing the compiler has not been told of and writes its own bytes only;
the digits are those of the number.

## 2. The modules

| module | what it is |
|---|---|
| `RegTrack` | asmlib's tracker, with the macros built on it |
| `RegTrackProofs` | its theorems |
| `MCRegTrack`, `MCRegTrackWide` | instances: few registers and unbounded programs; all registers and short programs |
| `ViertCode` | the threaded code: tokens, dictionary, control-flow macros, arithmetic on cells |
| `Forth` | what viert promises: two stacks as sequences, one action per family of words |
| `Viert` | the registers and the memory; refines `Forth` |
| `ViertProofs` | its theorems: the ABI and the refinement |
| `MCViert` | some 560 programs with what Forth says of them, and the pairs of words |
| `NtpPool`, `MCNtpPool` | the clock setter, the network, the timer |
| `NtpPoolProofs` | its theorems |
| `LinkMap` | the list of loaded objects, and the helpers all three lookups share |
| `Lookup` | what a lookup promises: ask, and be answered or be lost |
| `Symbols`, `MCSymbols` | the three lookups with their callers; implements `Lookup` |
| `SymbolsProofs` | their theorems, the refinement among them |
| `Startup` | nine small C programs: how they start, print, import and leave |
| `AltCall` | `hello2.c`: traps as system calls |
| `AltCallProofs` | its theorems: the filter, the order of service, what kills |
| `Cero`, `MCCero` | inline assembly instruction by instruction, 23 programs |
| `CeroProofs` | its theorems, for every text |
| `EnvStr`, `MCEnvStr` | the walk over the environment |
| `EnvStrProofs` | its theorems |
| `Digits`, `MCDigits` | `printnum`, `tohex`, and the printers of `hello4.c` |
| `DigitsProofs` | its theorems, one for each property |

### RegTrack

*State.* `val` is the record (`reg_eax_val` …: a number, or −1 … −4 for "nothing
known", "8 bits", "16 bits", "not negative"), `reg` the processor's registers
after the emitted instructions have run, `pushed` the word last pushed by
`push0`. A step is one macro of a straight-line program, so both sides change at
once; `TLC` and the proof thus quantify over *programs*.

*Correspondence.* `Uint32`, `Sint32` are `int32` (with NASM's unsigned 64-bit
`%`); `SetIdiom` is the cascade of `__set_num` and `FromZeroIdiom` that of
`setfz`, in their order; `Effect` is what the emitted instructions do; `Cleared`
the choice between `cdq` and a zero segment register; `Zero` the macro `zero`
with its cpuid and mul cases; `Fill`/`AtTrap` are `sc_param` for the seven
operands of `syscall` in order. `SetFrom` is `rmov`, `Overwrite` a write that
the tracker is not told of, `WriteAs` a write followed by `rset` or `taint`.

*Scaling.* A byte has `Q` values, a word `Q^4`. The code's case is Q = 256; TLC
uses Q = 4 (256 words; the ranges of a sign-extended byte, a byte, a 16-bit
value, the top byte and the sign bit are all there and all distinct); the
theorems hold for every even Q ≥ 4.

*Inputs.* What a program may write is given by constants: the `Operands` of
`set`, the argument lists of `zero`, `syscall`, `memset`/`memcpy` (`Blocks`), the
numbers of `stos` (`Stored`) and of `alloca2` (`Sizes`). `MCRegTrack` leaves the
last three empty, since its programs use eax and edx only; `MCRegTrackWide`
fires them. `Instruction` stands for code of the program's own together with the
`rset` or `taint` that tells the tracker the truth about it.

*Options.* The ones the programs of the repository use: `REG_OPT` 1, `reg_stack`
1, `zero_seg` 1, `reg_keepflags` 0, `COPY/LEA/IMUL_FROM_OTHER` 0; `REG_SEARCH` is
a constant of the model.

### Viert and Forth

The build modelled is the one of the project (`-DBREAK=31 -DBASEREG=0
WORD_SIZE=1`): byte tokens, primitives first. `ViertCode` translates
`forthwords.asm` and the macros `if`, `ifelse`, `doloop`, `lit` to sequences of
tokens at addresses; `CodeAt` is the program's text followed by the dictionary.
A step of `Viert` is NEXT with the primitive, or `DOCOL`, it jumps to. The guard
`At(name)` looks the token up as NEXT does, with all of eax. Both stacks live in
one segment: `mem` maps its cells, esp and ebp move towards each other as in the
code, and nothing in `Viert` keeps them apart. A token that the table does not
have, or one whose operand bytes would lie behind the code, is no word
(`Fetched`): viert goes on with whatever it finds there, the status `wild`.

`Forth` is the abstract machine: sequences instead of memory, no registers. Its
operands are checked, memory is what `sp_at` and `rp_at` point at, everything
else may "crash". The refinement maps esp … `DataBase` to `data`, ebp …
`ReturnBase` to `ret`, and the ways to die to `crashed`. The two agree only for
code that keeps to what it was given, as viert checks nothing: `Disciplined` says
what that is (the next word is there, its operands are on the stacks, there is
room for a return address, the text it writes is in the code or on the data
stack).

*Bounds.* Cells have W = 1024 values (two bytes and a bit are enough to tell
bytes, cells and signs apart; `lit32` reads two bytes instead of four, and the
model allows powers of two from 512 to 65536); stacks
count cells rather than bytes; 24 data cells, a gap of 8, the segment starts at
`StackEnd` = 300; at most one write fails or falls short (`MaxFaults`). What lies
above the return stack (the program's arguments) is not modelled: popping it is
the status `wild`.

### NtpPool

One action for each `int 0x80` (with the instructions before it), four for the
network, one for SIGALRM. eax and ebx are the state that counts, because the
tracker chose to put call numbers into parts of them: connect is `mov ax, 362`
on an eax claimed to be a byte, write is `mov al, 4` on an eax claimed to be 0,
read is the whole of eax (`lea eax, [ebp+3]`, as ebp is claimed to be 0 and no
register 3): the tracker follows the lines of the source, where `settimeofday
esp, 0` stands before `ue_func` and has replaced the 3 that `rset ebx, 3` claimed
of the descriptor. Buffers are abstracted to
what the program reads off them: an address (or 0.0.0.0, which Linux takes for
the machine itself) and a timestamp (or 0).
The network loses, delays and reorders datagrams, refuses them (the ICMP error
that waits for the socket's next call) and delivers up to `MaxDuplicates` of them
twice. A socket takes datagrams from its current peer only, but keeps those
queued before.
`socket()` may return any descriptor or errno. The descriptor is also the number
of seconds the timer is set to, and the exit status of a run without a time; for
descriptor 0, what a program started with standard input closed gets, section 6
says what becomes of both.

### LinkMap, Lookup and Symbols

`LinkMap` holds what the three C files only read: an object is its load address,
whether ld.so has relocated the pointers of its dynamic section (it has not in
the vDSO's), that section, and its symbol table. `DPtr` is `d_un.d_ptr` as found
there, `FixUp` the code's guess (a pointer below the load address is an offset),
`Where` the truth the guess is compared with. `Int4` and `sdbm_hash` are the
keys: `dnl.c` and `heb.c` compare four bytes of a name, `dnload.c` a hash.

`Symbols` runs one of the three programs, chosen in `Init`. A step is one turn of
one of their loops: an object (`Object1`, or `ThreeTags` for `dnload.c`, which
searches the section once per tag), an entry of its dynamic section (`DynEntry`,
`DynEnd`), a symbol (`loopy`, `loopyAll`, `Hashed`), the next object. The
callers are actions of their own: `_start` and `exit2` of `mini.h`, `main` of
`heb.c`, `dnload` with its table. Three differences between the programs are kept
because the properties are about them: `dnl.c` goes down through the symbols and
takes an address of 0 for no answer, `heb.c` goes up and lets every match
overwrite the one before, `dnload.c` stops at the first. The end of the list is
tested by `heb.c` alone; `dnl.c` tests it with `SAFER` only, which nothing sets.

`Lookup` is the abstract specification: a state that is idle, asked or lost, a
key and an answer. `Promise` says which object and which of its symbols answer,
`Lost` when there is no answer. The mapping (`Abstract` in `Symbols`) takes the
whole walk for one step: the program counters between asking and answering are
"asked", the ones that fault are "lost", the map of a program started without
ld.so is empty, and `heb.c`'s half-made answers are hidden until it returns.

Dead code is left out: behind `exit2(111)` (`mini.h:99`) the `_start` of `mini.h`
goes on to call main and `exit`, and never gets there; `Startup` has that end of
it for itself. `DYN` changes only the address the
program's header is read at, in `heb.c` and `dnl.c`; the model has one address.

### Startup

Each program is the sequence of calls it makes (`Code`), in the four builds
`NOSTART` and `DEBUG` make, and an action is a call. stdio has one buffer and
writes it through at once to a terminal only; `exit` flushes it, `_exit` does
not. `argc` is what a terminal user gives, or garbage where `_start` calls
`main` without arguments. The dynamic loader resolves the names in `found`,
those of `exit` and `_exit` included: a main that imports `puts` leaves by
returning to the C library, by `mini.h`'s `_exit` (`mini.h:19`), which imports the
real one and calls it, or by the end of its `_start` (`mini.h:151`–158), which
imports `exit`. Each import is asked for, tested (DEBUG) and called, as the macros
of `dl.h` do.
`mini-dl.h`, which `dl.c` includes, is not in the repository; its main is
modelled as started by the C library.

### AltCall

`ip` is an offset into the bytes main's asm statements assemble to, and `Code`
what the processor decodes at each offset it can come to, also in the middle of
an instruction: the handler's skips are not all as long as the instructions. What
follows the last asm statement before `kill(0, 0)` is the compiler's code for that
call, of the build the file starts with.
`Raises` is the processor (a signal and its si_code), `Fault` and `Deliver` the
kernel: a fault whose signal is blocked or at its default kills. `frames` are the
handlers that run, as a handler may be interrupted by another signal, or trap.
Three things of the machine are chosen in `Init`: the architecture, whether the
bytes at edi, eax and esi are mapped, and whether a hypervisor takes `vmcall`.

### Cero

A machine of six registers and a stack, on which every asm statement of the four
files runs instruction by instruction. A word is a number in two halves (32
bits, in TLC's integers) or a symbolic value that says where it came from:
cpuid's answer for a leaf, the address of a string, "what the caller had in
edx". That is what lets properties say that a register is *the caller's*, and
that the words printed are *that leaf's*. The programs stand in for the C
functions the statements are in, for i386 and, where the source has both, amd64.
A write may take all, one byte, or nothing. The texts they print are strings of C
(`TextsAssumption`): bytes, one of them a NUL, and the first NUL ends the string.

Five snippets (`Pasted`) paste a literal into an asm template and an `.ascii`
directive. There `%`, a brace, a quote and a backslash have to be escaped, and the
length of the write is that of the literal with its escapes, one more for each
(`DBG_LEN`; `Escaped` is a constant, since a newline may be spelt either way). The
write then takes bytes of the code behind the text, `Behind`.

### EnvStr

The block at the top of the stack as the kernel lays it out: strings with their
NULs, then a null pointer of 4 or 8 bytes to the very end. A byte matters only
for being zero, so a text is a sequence of Booleans that ends with a byte of the
last string, which is not empty, and its NUL. `libcero.h`, which the program
includes for `write` and `_exit`, is not in the repository; both are taken for the
system calls.

### Digits

`printnum` is a step per round of its loop, with eax and edx as they are after
`cdq; div` (the newline is written first, and the number is tested before it is
divided); `tohex` is a step per nibble: the rotation, and `cmp`, `sbb`, `das`
with both carry flags, compared with a table of characters. W is 2^31 - 2 rather
than 2^32 (`WidthAssumption` allows both), the most TLC's integers take: the
largest positive number has ten digits like the code's. The printers of
`hello4.c` run on the same nibbles, for a `size_t` of 8 or 16 of them; nothing
reaches them, as the file's `main` returns 42 first.

## 3. The runs

| run | module, cfg | checks | size |
|---|---|---|---|
| `tracker` | `MCRegTrack` | `SetDelivers` for programs of any length over eax and edx, one operand for every idiom, with the search | 30 s |
| `tracker_all_macros` | `MCRegTrackWide` | also `TypeOK`, `Sound`, `ZeroClears`, `SyscallReceives`: all registers and macros, programs of at most `MaxLen` = 3 macros | 113 820 states, 60 s |
| `viert` | `MCViert`, `MCViert.cfg` | `AbiHolds`, `Delivers`, `EndsAsMeant`, `Balanced`, `Terminates` over every primitive and word | 8 453 states |
| `viert_refines_forth` | `MCViert`, `ViertRefines.cfg` | `Disciplined` and `ImplementsForth`, also after every pair of words on seven literals | some 48 000 states |
| `ntppool` | `MCNtpPool` | `ClockFromTimeServer`, `NoMisdirected`, `ExitTells`, `Terminates` | 2 506 states |
| `digits` | `MCDigits` | `PrintsNumber`, `LoopLeaves` around every power of ten, 0 and the sign bit, `PrintsHex`, `PrintsHexC` with every nibble at every place | 3 820 states |
| `symbols` | `MCSymbols` | `TypeOK`, `TablesOfThisObject`, `WildOnlyByImportOrPrefix`, `TableResolved`, `KeepsPromise` (the refinement of `Lookup`), `Ends` | 4 919 states |
| `startup` | `Startup` | `GreetingOut`, `MissingReported`, `StatusTells` for every program and build | 6 936 states |
| `altcall` | `AltCall` | `Served`, `Filters`, `KilledInTheEnd` with two signals sent by others | 293 069 states |
| `cero` | `MCCero` | `PrintsIds`, `Transparent`, `OwnBytes`, `ExitTells`, `Ends` | 8 698 states |
| `envstr` | `MCEnvStr` | `FallsOffOnlyUnaligned`, `PrintsAll` | 16 180 states |
| `tracker_negative` | `MCRegTrack`, `RegTrackNegative.cfg` | finds `SetDelivers` violated: section 6 | – |

*Why the bounds suffice.* `tracker` has no bound on the program: the record and
the registers are finite, and its operands reach every branch of `SetIdiom` and
`FromZeroIdiom`. `tracker_all_macros` adds the registers and macros whose
interplay matters (`cdq` after `eax`, cpuid, mul, push through a zero register),
which takes two macros to set up and one to go wrong. Neither bound matters for
the theorems. The viert programs contain every word of the dictionary, on values
at both ends of the byte, the sign and the cell; a word reads only its operands,
so pairs are enough to see what one leaves behind for the next. The clock
setter's calls form a line, and at most two requests are ever sent; one
duplicate is what it takes to deliver an answer twice. Three programs of `MCViert`
put as many loop counters on the return stack as it has room for, one less and one
more: the one too many replaces the bottom of the data stack (`Deeper`; in the
code that takes some 16 000).

The link maps of `MCSymbols` are a program and up to two libraries, every
combination of three and five shapes: linked at 0 or not, relocated or not, with
and without a hash table, both orders of the tables, a name that is imported, is
a prefix or has the same prefix, and hashes of four bits so that names collide.
Two libraries are what it takes for the tables of one to be mistaken for the
other's and for the first and the last match to differ; the theorems are for
maps of any length. Two signals (`MaxSent`) are one to interrupt main and one to
interrupt the handler; a third finds the handler's signals blocked or the process
dead. `Cero` and `Startup` are finite and run whole: the strings of `MCCero` are
the empty one, one of a byte, one with a newline inside, one with a NUL inside and
one with two bytes to escape, and the theorems are for all. Blocks of up to four
strings of up to four bytes, and of six strings with four empty ones in a row, put
the end of `EnvStr`'s block, and a run of empty strings, at every alignment.

Each property is also known to be breakable: `PROJECT.json` names, for each, a
plausible bug in a definition that makes TLC find it violated. These operators
stand before the definition they alter, marked `Mutant`; nothing uses them.

*Deadlock* is off where the system stops: a finished program (all but the
tracker) and the bounded programs of `MCRegTrackWide`. `MCRegTrack` checks it.

## 4. Liveness and fairness

* `Viert`: `WF(Next)`; nothing stops a processor, and a `write` to stdout
  returns. `Terminates` holds for the programs of the run, all of whose loops
  count down.
* `NtpPool`: `WF(Program)` (the processor again; `Recv` is disabled while nothing
  is queued, so that fairness does not pretend that an answer comes) and
  `WF(Sigalrm)` (time passes). The network is under no fairness: it may do
  nothing for ever, and `alarm` alone ends the program; on descriptor 0 not even
  that does, and `Terminates` excepts a read that is stuck there.
* `Symbols`: `WF(Next)` in `FairSpec`; one thread that waits for nobody. `Ends`
  says that no shape of the link map keeps it walking.
* `AltCall`: `WF(Process)`, the program and its handler; nobody has to send a
  signal, and the kernel may keep one that was sent. `KilledInTheEnd` also says
  that misread bytes make no loop.
* `Cero`: `WF(Next)`: the only loop is that of `cpuid5` over three leaves.
* `RegTrack`, `Startup`, `EnvStr` and `Digits` have no liveness property. The
  first is a statement about all programs, the next two are lines, or walk up to
  the end of memory, and the loop of the last is bounded by `LoopLeaves`.

## 5. What is proved

### The tracker

`RegTrackProofs` proves, for every even byte size Q ≥ 4, every choice of
registers, operands, labels and argument lists, both settings of `REG_SEARCH`,
and programs of any length:

| theorem | states |
|---|---|
| `TypeCorrect` | `Legal => (Spec => []TypeOK)` |
| `Soundness` | `Legal => (Spec => []Sound)` |
| `SetIsRight` | … `[]SetDelivers`: every idiom of `set` delivers its operand |
| `ZeroIsRight` | … `[]ZeroClears` |
| `SyscallIsRight` | … `[]SyscallReceives` |
| `PushIsRight` | … `[]PushesZero`: what `push0` and `alloca2` push is 0 (stated by this theorem alone, no run) |

*Assumptions.* The ASSUMEs of `RegTrack` (ranges of the constants) and
`WidthAssumption`: no recorded form of a negative operand, 2^32 + 1 … 2^32 +
2^31, is a power of two. That is evident for the code's width, and TLC evaluates
it for Q = 4. `Legal` excludes precisely what section 6 says to fail:
0xFFFFFFFF as an operand, two negative operands that are neighbours, writes
that leave a tracked register stale (`StaleWrites`), and a processor that answers
an unknown cpuid leaf with anything but zeros (`CpuidAnswer`).

*Argument.* `SetDelivers` is not inductive: nothing in it says what the record
claims. `Sound` is, together with `TypeOK`. Its definition of agreement
(`Agrees`) is the strengthening that matters: a negative operand is recorded as
2^32 + n, outside the words, so the record means nothing as a number, only as a
*tag* for the operand it came from; `Legal` then says that two tags never
differ by one. The lemmas follow the code: arithmetic on quotients and
remainders (`DivUnique`, `Scales`, `Forms`); what `mov al`, `dec ax`, `bswap`,
`ror`, `shl` leave; one lemma for each family of idioms (from zero, from a
neighbour, by a copy, by a partial write, afresh); `zero`, its at-once and loop
parts; then each macro as a step, and the operands of `syscall` one after the
other, since each is filled in a state that is sound again.

### The lookups

`SymbolsProofs` proves, for link maps of any length and with any objects that
are `WellFormed`, any table of names and any width of the hash:

| theorem | states |
|---|---|
| `TypeCorrect` | `Spec => []TypeOK` |
| `TablesRight` | `Spec => []TablesOfThisObject` |
| `Refinement` | `Spec => KeepsPromise`: the three walks implement `Lookup` |
| `WildExplained` | `Spec => []WildOnlyByImportOrPrefix` |
| `TableRight` | `Spec => []TableResolved` |

*Assumptions.* `LinkMapsAssumption` (a map is a non-empty sequence of objects; an
object has at most one entry for each table, always a string and a symbol table,
and pointers left unrelocated only when it is mapped above its own size) and
`SymbolsAssumption` (names are sequences of bytes). TLC evaluates both.

*Argument.* `TablesOfThisObject` says nothing while the dynamic section is being
read, so it is strengthened by `Scanned`: a table whose entry lies before `d` is
right, and one whose entry is still to come is 0 for the hash table (only that is
reset by all programs, and only its absence is asked for); `Place` says which
program counters belong to which program and bounds the counters. Both follow
from `FixUp` being right for every well-formed object (`FixedUp`). For the
promise, three invariants say what the symbol loops have passed over:
`SearchedDown` (`dnl.c`: no match above the counter), `SearchedUp` (`dnload.c`:
no match below), `SearchedAll` (`heb.c`: the answer so far is the highest match
of the last object that has one), each with "no object before this one answers".
`Outcomes` turns them into the value of `Promise` where a walk ends, and the
refinement has one step for each action: `_start`, `main`, `dnload` map to `Ask`,
the step that finds maps to `Answer`, a fault to `GetLost`, everything else
stutters. `Used` adds what a caller does with the answer, for the last two
theorems.

### The clock setter

`NtpPoolProofs` proves, for any number of duplicated datagrams and whatever
`socket()` returns (`FdsAssumption`: any descriptor, or an errno of Linux):

| theorem | states |
|---|---|
| `TypeCorrect` | `Spec => []TypeOK`, the types of the program, the socket and the network |
| `WellDirected` | `Spec => []NoMisdirected` |
| `StatusTells` | `Spec => []ExitTells` |
| `RightClock` | `Spec => []ClockFromTimeServer` |

*Argument.* The program tests no result, so each property holds for a reason
that has to be found in the next instructions. `Directed`: the socket is
connected to the DNS server in the second round only if that round's `connect`
has failed; eax is then negative, and `mov al` of a small number into a negative
eax never gives the number of `write` (`NegativeIsNoWrite`). `Told`: between
`settimeofday` and `exit` eax holds whether the clock was set, and nothing comes
between but a late SIGALRM. `OnItsWay` and `Stamped`: while nothing has been
duplicated, the single DNS query is on its way as one datagram, answer or error
at most, and the first read has taken it (or found none) before the second round
can read; so the read that fills the time holds the time server's bytes, or what
the program had itself put there.

### viert

`ViertProofs` proves, for any set of programs, each a sequence of bytes of any
length, and whatever `write` answers:

| theorem | states |
|---|---|
| `AbiIsKept` | `Spec => []AbiHolds` |
| `RefinesForth` | `Spec /\ []Disciplined => ImplementsForth`: the machine implements `Forth` |

*Assumptions.* `CellAssumption` (a cell has one of the eight widths from 512
values to 65536; the code's 2^32 is out of TLC's integers) and
`LayoutAssumption`: the code lies below the data stack, the return stack above
it with four free cells between them, all within a cell's addresses. TLC
evaluates both in every run of `MCViert`. `[]Disciplined` is a hypothesis and no
assumption on a constant: it is what a Forth program owes its machine (both
stacks within their cells, execution and strings within the code, no store into
either), since nothing in viert checks it. TLC finds it kept by every program of
`viert_refines_forth`.

*Argument.* `AbiInv`: eax is a byte, but after a failed write of `dupemit`,
behind which no word can be looked up; it needs nothing about the stacks.
`Stacks` says where esp and ebp are and what memory holds, so that the abstract
stacks are slices of memory (`Sliced`); lemmas say what a push, a pop, a store
and an exchange do to a slice (`SlicePushed`, `SliceReplaced`, `SliceTail`), and that none
reaches the other stack. With them there is one lemma for each family of words,
which ends in the action of `Forth` it stands for, one for NEXT (`FetchStep`), and
one each for the call of a dictionary word and for `EXIT`, as the bodies are
fetched like any program's. `and`, `or`, `nor` rest on the sum of the bits two cells
share, which stays a cell.

### The environment

`EnvStrProofs` proves `FallsOff`, `Spec => []FallsOffOnlyUnaligned`, and
`AllPrinted`, `Spec => []PrintsAll`, for blocks of strings of any number and
length, on either kernel. *Argument.* `Walk`: the words the loop has passed are
not zero, and where it is depends on how many it has shown; behind the last
string come five zero bytes or nine, and a word of four lies within nine
wherever the block ends, within five only for two of its four sizes.

### The filter of hello2.c

`AltCallProofs` proves, however many signals other processes send (`MaxSent`; TLC
tries two), on either processor, with and without a hypervisor, whatever memory
is mapped:

| theorem | states |
|---|---|
| `Filtered` | `Spec => Filters` |
| `ServedInOrder` | `Spec => []Served` |
| `OnlySegvKills` | `Spec => []KilledBySegv`, the safety half of `KilledInTheEnd` |

*Argument.* `Innermost`: of nested handlers all but the first were started by a
process, as the handler's own `hlt` finds SIGSEGV blocked or at its default and
starts none; a process can only send `SI_USER`, which no test of the handler
takes, so the handler that goes back to main is the only one. `Reports`: as long
as it runs, ip is where its instruction has left it, at a fault and behind a
trap. `Bytes` is the table of main's bytes that both rest on, and that keeps ip
within them. For the order of service `Way` adds the places main can be at, each
with the number of the expected traps that are served by then (`Place`, `Early`,
`Late`, by processor): the handler's two bytes skip the same ones every time,
and nothing leads past `kill(0, SIGILL)`. For the last theorem: once `main` has
installed its six handlers only that of SIGSEGV is ever put back to the default,
and no fault of another signal comes up while its own handler runs.

### The digits

`DigitsProofs` proves, for words of up to 32 bits:

| theorem | states |
|---|---|
| `NumberPrinted` | `Spec => []PrintsNumber` |
| `LeavesAsTold` | `Spec => []LoopLeaves`, for every number |
| `HexPrinted` | `Spec => []PrintsHex`, for every register |
| `HexPrintedC` | `Spec => []PrintsHexC`, for every register of 8 or 16 nibbles |

TLC prints the numbers around the powers of ten, up to ten digits, and 48 patterns
of nibbles. *Argument.* `Divided`: after j rounds of `printnum` eax is the
number without its last j digits, edx the digit after them and text the j - 1
digits before; the loop runs until a quotient *before* the division is 0, one
round behind the digits, which is why there is always a newline and never a
leading zero. `DigitsOf` says that this quotient is the first one to be 0 at
exactly the number's length. `DasDigit` works out `cmp`, `sbb` and `das` for
every nibble; `Rotated` says that as many digits are written as the register has
been rotated by, and that eight rotations are none. `FromBelow` and `FromAbove`
are the same for the printers of `hello4.c`, which take the digits from the last
nibble and from the first.

### The code without a C library

`CeroProofs` proves, for any set of texts, of any length and any bytes, whichever
of its three answers `write` gives, on both architectures where the source has
both, with and without a hypervisor:

| theorem | states |
|---|---|
| `TextsWhole` | `Spec => []OwnBytes` |
| `Unnoticed` | `Spec => []Transparent` |
| `IdsPrinted` | `Spec => []PrintsIds` |
| `ExitsRight` | `Spec => []ExitTells` |

TLC runs the same programs on five texts. *Assumptions.* `TextsAssumption`: each
text has a NUL. `mystrlen` loops without a bound, so that is what a caller owes it.
`EscapedAssumption`: percent sign, brace, quote and backslash are among the bytes
that assembly escapes, letters, the space and NUL are not.

*Argument.* None of the four is inductive: what `write` is given was put into
registers several instructions before, often by way of the stack. `Running` says
of each program what is in the registers and on the stack at each of its
instructions, as a table by `pc`; a table holds only what the rest of the program
still needs. `Stepping` is the core: an instruction leads to the next row of the
table, or the program ends and then `Transparent` and `ExitTells` hold, and a
write that is added satisfies `OwnBytes` and `PrintsIds`. It rests on one lemma
for each instruction (`DoLi` … `DoFallOut`), one for each way to write and to
exit on both architectures (`WriteStep`, `ExitStep`), and one for each program
(`OneWrite` … `Cpuid5Step`). What is needed of the texts: the first `mystrlen`
bytes are no NUL (`Prefix`), none of the bytes of a text made a line is
(`LineOf`), and the 13th byte of `hello` is its first (`HelloIs`). For `cpuid5`,
`Built` says that the words pushed so far are the end of `Banner`, which goes onto
the stack backwards; a round of the loop pushes four of them (`RoundStep`), the
leaf in esi says which round it is, and when `write` is called ecx is the address
of the whole banner.

*Only model-checked.* Liveness (`Terminates` and `Ends`, twice each, and the
first half of `KilledInTheEnd`), which is out of this prover's reach; of `Viert`
`Disciplined`, `Balanced`, `Delivers` and `EndsAsMeant`, whose claims are about
single programs that are listed, not about a constant of the model; and the three
invariants of `Startup` (`GreetingOut`, `MissingReported`, `StatusTells`), nine short programs
without a parameter that TLC runs to their ends.

## 6. Where code and text disagree

The run `tracker_negative` shows one disagreement: `set r, -1` then `set r, -2`
emits `inc` ("diff of 1, doing inc") and leaves 0, as `int32` subtracts a
negative operand from 0x100000000 with its sign (`V/asmlib/generic.mac:540`); the
other way round, -2 and then -1, it emits `dec` and leaves -3.

Others were met while the code was read; they are in the models, and the
properties are stated around them:

* `set r, 0xFFFFFFFF` is skipped when r is known to be 0, since the record is
  taken modulo 0xFFFFFFFF (`V/asmlib/generic.mac:543`). `Legal` excludes it.
* `set r, label` leaves the old record, as `rmov` only warns that the label is no
  register (`V/asmlib/generic.mac:370`); so does a `pop` operand of `syscall`
  (`V/asmlib/syscall.mac:102`), and a `stosb`, which moves edi. `reg_assert` (line
  482 of `generic.mac`) would then find the register to hold something else.
  `StaleWrites` adds these writes where something is recorded, and makes `Sound`
  fail in two steps; every run and theorem is without them.
* On amd64 the syscall instruction overwrites rcx, which the operand list of
  `syscall3` (`hello3.c:180`) does not name, so that the compiler may lose a value
  there. `Transparent` allows for it (`Lost`).
* `lahf; cpuid` clears eax to edx (`V/asmlib/generic.mac:242`) only if the processor
  answers the leaf eax happens to hold with zeros. `CpuidAnswer` is that answer, a
  constant; `Legal` demands zeros.
* `0lt` leaves its flag twice (`V/codewords.asm:122`); `div` leaves the remainder
  and `mod` the quotient (`V/forthwords.asm:72`). `MCViert` expects what the code
  does.
* `printnum` of 0 prints a newline and no digit (`V/asmlib/print.mac:43`), and a
  number from 0x80000000 on dies of `div` (line 36): `PrintsNumber` says so.
* `dupemit` leaves `write`'s result in eax, so that a failed write sends NEXT
  through the table with a wild index (`AbiHolds` says `faults = 0`,
  `EndsAsMeant` lists the outcome).
* A second copy of the DNS answer that is queued before the second `connect` of
  `ntppool2.asm` is read as the NTP answer (`ClockFromTimeServer` says
  `duplicates = 0`).
* On descriptor 0 `ntppool2.asm` has no timer, `alarm(0)` being none, so that it may
  wait for an answer for ever, and without a time it exits with 0 though the clock
  is as it was (lines 203, 311 and 355): `Terminates` and `ExitTells` except it.
* `dnl.c` takes an import of `exit` for its definition when the object is not
  loaded at 0, and anything that starts like `exit` for `exit`
  (`WildOnlyByImportOrPrefix`); the last match wins in `heb.c` (line 152).
* `hello3.c` writes 13 bytes of a text of 12, its NUL (line 513; `OwnBytes`).
* `puts_inline`, `dbg_inline` and `dbg2` to `dbg4` count a literal as C spells it
  (`dbg.h:48`, `hello3.c:345`): with `%%` or a backslash in it they write bytes of
  the code behind the text (`OwnBytes` says how many).
* The handler of `hello2.c` skips two bytes for an i386 `hlt` of one and for an
  `ud1` of three, so that what follows is misread (`Served` says what is left).
* `hello5.c` and `hep.c` leave by `_exit`: a greeting into a pipe is lost
  (`GreetingOut`). With `NOSTART` the status of `hello5.c` and `hello6.c` is
  arbitrary, as main is no main any more (`StatusTells`).
* A program of `mini.h` calls the `exit` it imports untested: where the loader has
  none, it dies on leaving (`MissingReported`).
* `envstr.c` walks off the end of the stack under a 32-bit kernel for two of the
  four sizes of the block (`FallsOffOnlyUnaligned`).
* `hexprint3` of `hello4.c` prints half of a 64-bit register and then zeros.

## 7. What is not modelled, and the plan

In the modules above: the flags (and so `reg_keepflags`), code sizes, `doloop`
(the body is assembled once with the record of the first round: a model needs
the emitted instructions kept and not only their effect), the sub-word registers
as operands, what the kernel does beyond the calls shown, pages outside viert's
segment, and what `hello2.c`'s handler prints. `hello3.c` and `clang-sucks.c`
also have builds for other compilers behind `#if`, which call the C library.

Files left out: `debug-trap.h` is a third-party header, `whiten.h` a list of
pragmas, `clang-crash.c` and `42orig.c` are a line each, `oldmini.h` is a
predecessor of `mini.h` that no longer compiles with `dl.h`. Of the assembler,
the older clients, vierts and asmlibs repeat what is modelled; `antiptrace2` and
the debugger detection rest on the kernel's rules for ptrace, which nothing in
the repository states; the single-purpose printers and detectors are straight
code without state.

What could follow, most important first: backward jumps (`doloop`) over `RegTrack`;
the error paths of the loader `binfmt6.asm` and the registers a loaded program
starts with, composed with what `rinit` tells the tracker;
FizzBuzz's itoa and `printstatic` against a reference definition.
