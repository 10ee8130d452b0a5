-------------------------------- MODULE Cero ---------------------------------
(***************************************************************************)
(* The code without a C library: the inline assembly of hello3.c,          *)
(* clang-sucks.c and dbg.h, run instruction by instruction, and the        *)
(* programs made of it.  The processor and the kernel's exit and write are *)
(* external.                                                               *)
(*                                                                         *)
(* A word is a number <<high half, low half>> or a value known only by     *)
(* where it comes from: <<"cpuid", leaf, register>>, <<"str", bytes, 0>>   *)
(* (the address of a string), <<"esp", k, 0>> (that of the k-th word       *)
(* pushed) or <<"junk", register, 0>> (what the code found there).         *)
(***************************************************************************)
EXTENDS Integers, Sequences, SequencesExt

CONSTANTS Texts,      \* the strings the snippets are tried on, each with its NUL
          Escaped     \* the bytes that a literal pasted into assembly spells with two

\* A string of C: a NUL ends it, the first one if there are more.
Byte == 0..255
Terminated(s) ==
  s \in Seq(Byte) /\ \E k \in DOMAIN s : s[k] = 0 /\ \A j \in 1..(k - 1) : s[j] # 0
ASSUME TextsAssumption == \A t \in Texts : Terminated(t)
\* A percent sign and a brace have a meaning in the template of an asm statement, a
\* quote and a backslash in .ascii; a newline may be spelt \\n.  Letters stand for themselves.
ASSUME EscapedAssumption ==
  {34, 37, 92, 123} \subseteq Escaped /\ Escaped \subseteq Byte \ ({0, 32} \cup 97..122)

VARIABLES
  prog, text, vm,     \* the program, its string, whether a hypervisor runs it
  arch, code, entry,  \* i386 or amd64, the instructions, the registers at entry
  pc, regs, stack, sf,
  out,                \* what each write was given, and what it returned
  how                 \* "" while running, then [end, status]
vars == <<prog, text, vm, arch, code, entry, pc, regs, stack, sf, out, how>>
given == <<prog, text, vm, arch, code, entry>>

Reg  == {"eax", "ebx", "ecx", "edx", "esi", "edi"}
W(n) == <<0, n>>
Str(s) == <<"str", s, 0>>
Junk(r) == <<"junk", r, 0>>
hello == <<104, 101, 108, 108, 111, 32, 119, 111, 114, 108, 100, 10, 0>>

\* for (; *s; s++);
mystrlen(s) == (CHOOSE k \in DOMAIN s : s[k] = 0 /\ \A j \in 1..(k - 1) : s[j] # 0) - 1

(***************************************************************************)
(* A text pasted into the code: .ascii "...\n", without a NUL.  The        *)
(* assembler takes a spelling of it, and it is the length of the spelling  *)
(* that the write is given, one more for each byte spelt with two.         *)
(***************************************************************************)
Line(s) == SubSeq(s, 1, mystrlen(s)) \o <<10>>
Escapes(s) == {k \in 1..mystrlen(s) : s[k] \in Escaped}
DBG_LENSizeof(s) == mystrlen(s) + Cardinality(Escapes(s)) + 2    \* mutant: sizeof(STRING) + 1
DBG_LEN(s) == mystrlen(s) + Cardinality(Escapes(s)) + 1
Pasted == {"puts_inline", "dbg_inline", "dbg2", "dbg3", "dbg4"}

(***************************************************************************)
(* The registers of a system call, and its number.                         *)
(***************************************************************************)
ARG(a, k) == IF a = "amd64" THEN <<"edi", "esi", "edx">>[k] ELSE <<"ebx", "ecx", "edx">>[k]
NR_exit(a)  == W(IF a = "amd64" THEN 60 ELSE 1)
NR_write(a) == W(IF a = "amd64" THEN 1 ELSE 4)

(***************************************************************************)
(* The snippets as instructions <<operation, operand, operand>>, AT&T      *)
(* order.  "li" is what the compiler does for an asm statement's input.    *)
(***************************************************************************)
SYSCALL == <<"syscall", 0, 0>>
syscall1(a, nr, a0) == <<<<"li", nr, "eax">>, <<"li", a0, ARG(a, 1)>>, SYSCALL>>
syscall3(a, nr, a0, a1, a2) ==
  <<<<"li", a1, ARG(a, 2)>>, <<"li", a2, ARG(a, 3)>>>> \o syscall1(a, nr, a0)
write(a, fd, buf, n) == syscall3(a, NR_write(a), W(fd), buf, W(n))
exit_syscall(a, status) == syscall1(a, NR_exit(a), W(status))

push(w) == <<"push", w, 0>>
pop(r)  == <<"pop", r, 0>>
Load(n, r) == <<push(W(n)), pop(r)>>
exit_dontcare_syscall(a) == <<push(NR_exit(a)), pop("eax"), SYSCALL>>
exit_nonzero_syscall(a)  == <<push(NR_exit(a)), pop("eax"), <<"mov", "eax", ARG(a, 1)>>, SYSCALL>>
exit_zero_syscall(a)     == <<push(NR_exit(a)), pop("eax"), <<"xor", ARG(a, 1), 0>>, SYSCALL>>
clang_exit_zero == <<<<"xor", "eax", 0>>, <<"xor", "ebx", 0>>, <<"inc", "eax", 0>>, SYSCALL>>

\* M2-Planet passes on the stack, in order, below the return address.
M2write(fd, buf, n) ==
  <<push(W(fd)), push(buf), push(W(n)), push(Junk("ret")), <<"ldsp", 3, "ebx">>,
    <<"ldsp", 2, "ecx">>, <<"ldsp", 1, "edx">>, <<"li", W(4), "eax">>, SYSCALL,
    pop("esi"), pop("esi"), pop("esi"), pop("esi")>>

stderr_write(a, s) == write(a, 2, Str(s), mystrlen(s))
inline(a, fd, s) == write(a, fd, Str(Line(s)), DBG_LEN(s))

\* Mutant: the sign is taken after ecx is back.
isvmLate == <<<<"xor", "eax", 0>>, <<"inc", "eax", 0>>, <<"pusha", 0, 0>>, <<"cpuid", 0, 0>>,
              <<"popa", 0, 0>>, <<"and", "ecx", 0>>, <<"js", 0, 2>>, <<"inc", "ebx", 0>>, SYSCALL>>
isvm == <<<<"xor", "eax", 0>>, <<"inc", "eax", 0>>, <<"pusha", 0, 0>>, <<"cpuid", 0, 0>>,
          <<"and", "ecx", 0>>, <<"popa", 0, 0>>, <<"js", 0, 2>>, <<"inc", "ebx", 0>>, SYSCALL>>

pushes(rs) == [k \in DOMAIN rs |-> <<"pushr", rs[k], 0>>]
cpuidPush(rs) == <<<<"cpuid", 0, 0>>>> \o pushes(rs) \o <<<<"sp", "ecx", 0>>>>
cpuid2 == cpuidPush(<<"ecx", "edx", "ebx">>) \o
            <<<<"li", W(1), "ebx">>, <<"li", W(12), "edx">>, <<"li", W(4), "eax">>, SYSCALL>>
cpuid3Maker == cpuidPush(<<"ecx", "edx", "ebx">>) \o       \* mutant: the order of leaf 0
            <<<<"li", W(1), "ebx">>, <<"li", W(12), "edx">>, <<"li", W(4), "eax">>, SYSCALL>>
cpuid3 == cpuidPush(<<"edx", "ecx", "ebx">>) \o
            <<<<"li", W(1), "ebx">>, <<"li", W(12), "edx">>, <<"li", W(4), "eax">>, SYSCALL>>
cpuid4 == cpuidPush(<<"edx", "ecx", "ebx", "eax">>) \o
            <<<<"li", W(1), "ebx">>, <<"li", W(16), "edx">>, <<"li", W(4), "eax">>, SYSCALL>>
cpuid == <<<<"xor", "eax", 0>>>> \o cpuidPush(<<"ecx", "edx", "ebx">>)
           \o Load(4, "eax") \o Load(2, "ebx") \o Load(12, "edx") \o <<SYSCALL>>
leave0 == <<SYSCALL, <<"xchg", "ebx", "eax">>, <<"xor", "ebx", 0>>, SYSCALL>>
cpuid6 == <<<<"cpuid", 0, 0>>, <<"pusha", 0, 0>>, <<"sp", "ecx", 0>>, <<"addsp", "ecx", 4>>>>
            \o Load(4, "eax") \o Load(1, "ebx") \o Load(12, "edx") \o leave0
cpuid5 ==
  <<push(W(10)), <<"li", <<32768, 4>>, "esi">>, <<"mov", "esi", "eax">>, <<"cpuid", 0, 0>>>>
    \o pushes(<<"edx", "ecx", "ebx", "eax">>)
    \o <<<<"dec", "esi", 0>>, <<"jg1", "esi", -7>>, <<"li", <<8250, 20490>>, "edi">>,
         <<"pushr", "edi", 0>>, <<"xor", "eax", 0>>, <<"cpuid", 0, 0>>>>
    \o pushes(<<"ecx", "edx", "ebx">>)
    \o <<<<"li16", 19722, "edi">>, <<"pushr", "edi", 0>>, <<"mov", "esi", "eax">>,
         <<"shr", "eax", 0>>, <<"cpuid", 0, 0>>>>
    \o pushes(<<"edx", "ecx", "ebx">>)
    \o <<<<"li16", 22088, "edi">>, <<"pushr", "edi", 0>>, <<"sp", "ecx", 0>>>>
    \o Load(4, "eax") \o Load(1, "ebx") \o Load(85, "edx") \o leave0

DBG_PUSHother == pushes(<<"ebx", "edx", "eax", "ecx">>)   \* mutant: not the order of DBG_POP
DBG_PUSH == pushes(<<"ebx", "edx", "ecx", "eax">>)
DBG_POP  == <<pop("eax"), pop("ecx"), pop("edx"), pop("ebx")>>
dbg2(s) == <<push(W(2)), push(W(DBG_LEN(s))), push(Str(Line(s))), push(W(4))>>
             \o DBG_POP \o <<SYSCALL>>
dbg3(s) == DBG_PUSH \o dbg2(s) \o DBG_POP
dbg4(s) == <<<<"li", W(4), "eax">>, <<"li", W(2), "ebx">>, <<"li", W(DBG_LEN(s)), "edx">>,
             push(Str(Line(s))), pop("ecx"), SYSCALL>>
sputs2(s) == write("i386", 2, Str(s), mystrlen(s))
sputs(s)  == sputs2(s) \o sputs2(<<10, 0>>)

hlt == <<"hlt", 0, 0>>

\* The functions a C program would call, in the build with extended asm.
exit_wrap(a, status) == exit_syscall(a, status)     \* MICROOPTIMIZE is 0
exit_nonzero(a)      == exit_nonzero_syscall(a)
exit_zero(a)         == exit_wrap(a, 0)
end_process          == <<hlt>>      \* .byte 6 on amd64: no instruction either
MAIN(a)       == write(a, 1, Str(hello), 13) \o exit_wrap(a, 0)
clang_main(a) == write(a, 2, Str(hello), mystrlen(hello)) \o exit_zero(a)
abort         == dbg2(SubSeq(hello, 1, 11) \o <<0>>) \o <<hlt>>      \* __builtin_trap

(***************************************************************************)
(* The programs: MAIN of hello3.c, main of clang-sucks.c, _start of        *)
(* abort.c, and each snippet where a C function would have it.             *)
(***************************************************************************)
Portable == {"MAIN", "clang_main", "exit_nonzero", "exit_zero", "exit_dontcare",
             "end_process", "stderr_write", "puts_inline", "dbg_inline"}
Snippets == {"clang_zero", "M2write", "isvm", "cpuid", "cpuid2", "cpuid3", "cpuid4", "cpuid5",
             "cpuid6", "dbg2", "dbg3", "dbg4", "sputs", "abort"}
Code(p, a, s) ==
  CASE p = "MAIN"          -> MAIN(a)
    [] p = "clang_main"    -> clang_main(a)
    [] p = "exit_nonzero"  -> exit_nonzero(a)
    [] p = "exit_zero"     -> exit_zero_syscall(a)
    [] p = "exit_dontcare" -> exit_dontcare_syscall(a)
    [] p = "end_process"   -> end_process
    [] p = "stderr_write"  -> stderr_write(a, s)
    [] p = "puts_inline"   -> inline(a, 1, s)
    [] p = "dbg_inline"    -> inline(a, 2, s)
    [] p = "clang_zero"    -> clang_exit_zero
    [] p = "M2write"       -> M2write(1, Str(s), mystrlen(s))
    [] p = "isvm"          -> isvm
    [] p = "cpuid"         -> cpuid
    [] p = "cpuid2"        -> <<<<"li", W(0), "eax">>>> \o cpuid2
    [] p = "cpuid3"        -> <<<<"li", <<16384, 0>>, "eax">>>> \o cpuid3
    [] p = "cpuid4"        -> <<<<"li", <<32768, 2>>, "eax">>>> \o cpuid4
    [] p = "cpuid5"        -> cpuid5
    [] p = "cpuid6"        -> cpuid6
    [] p = "dbg2"          -> dbg2(s)
    [] p = "dbg3"          -> dbg3(s)
    [] p = "dbg4"          -> dbg4(s)
    [] p = "sputs"         -> sputs(s)
    [] p = "abort"         -> abort
\* The kernel starts a program with ebx at 0; C code has a value of its own there.
EntryRegs(b) == [r \in Reg |-> IF r = "ebx" THEN W(b) ELSE Junk(r)]

Init ==
  /\ prog \in Portable \cup Snippets /\ text \in Texts /\ vm \in BOOLEAN
  /\ prog \in Pasted => Len(text) = mystrlen(text) + 1   \* a NUL would end the template
  /\ arch \in (IF prog \in Portable THEN {"i386", "amd64"} ELSE {"i386"})
  /\ code = Code(prog, arch, text)
  /\ pc = 1 /\ stack = <<Junk("stack")>> /\ sf = FALSE /\ out = <<>> /\ how = <<>>
  /\ regs \in {EntryRegs(0), EntryRegs(7)} /\ entry = regs

Op(o) == how = <<>> /\ pc <= Len(code) /\ code[pc][1] = o
x == code[pc][2]
y == code[pc][3]
Step == pc' = pc + 1 /\ UNCHANGED <<given, out, how>>
Set(r, w) == regs' = [regs EXCEPT ![r] = w]
Top == Last(stack)

(***************************************************************************)
(* The instructions.                                                       *)
(***************************************************************************)
move ==
  /\ \/ Op("li") /\ Set(y, x)
     \/ Op("mov") /\ Set(y, regs[x])
     \/ Op("li16") /\ Set(y, <<regs[y][1], x>>)
     \/ Op("sp") /\ Set(x, <<"esp", Len(stack), 0>>)
     \/ Op("addsp") /\ Set(x, <<"esp", regs[x][2] - y, 0>>)
     \/ Op("ldsp") /\ Set(y, stack[Len(stack) - x])
     \/ Op("xchg") /\ regs' = [regs EXCEPT ![x] = regs[y], ![y] = regs[x]]
  /\ Step /\ UNCHANGED <<stack, sf>>

arith ==
  /\ \/ Op("xor") /\ Set(x, W(0))
     \/ Op("inc") /\ Set(x, <<regs[x][1], regs[x][2] + 1>>)
     \/ Op("dec") /\ Set(x, <<regs[x][1], regs[x][2] - 1>>)
     \/ Op("shr") /\ Set(x, <<regs[x][1] \div 2, regs[x][2] \div 2 + (regs[x][1] % 2) * 32768>>)
  /\ Step /\ UNCHANGED <<stack, sf>>

\* The sign of ecx after leaf 1 is the hypervisor bit.
and == Op("and") /\ sf' = (regs[x] = <<"cpuid", W(1), "ecx">> /\ vm)
         /\ Step /\ UNCHANGED <<regs, stack>>

stackOps ==
  /\ \/ Op("push") /\ stack' = Append(stack, x) /\ UNCHANGED regs
     \/ Op("pushr") /\ stack' = Append(stack, regs[x]) /\ UNCHANGED regs
     \/ Op("pop") /\ Set(x, Top) /\ stack' = Front(stack)
     \/ /\ Op("pusha")
        /\ stack' = stack \o <<regs["eax"], regs["ecx"], regs["edx"], regs["ebx"],
                               Junk("esp"), Junk("ebp"), regs["esi"], regs["edi"]>>
        /\ UNCHANGED regs
     \/ LET n == Len(stack)
        IN  /\ Op("popa") /\ stack' = SubSeq(stack, 1, n - 8)
            /\ regs' = [eax |-> stack[n - 7], ecx |-> stack[n - 6], edx |-> stack[n - 5],
                        ebx |-> stack[n - 4], esi |-> stack[n - 1], edi |-> stack[n]]
  /\ Step /\ UNCHANGED sf

cpuidOp ==
  /\ Op("cpuid")
  /\ regs' = [r \in Reg |-> IF r \in {"eax", "ebx", "ecx", "edx"}
                            THEN <<"cpuid", regs["eax"], r>> ELSE regs[r]]
  /\ Step /\ UNCHANGED <<stack, sf>>

above(v, n) == v > n /\ v < 32768        \* signed, in half a register
jumpInPlace ==   \* mutant: the displacement is counted from the jump's own end
  /\ \/ Op("js") /\ pc' = pc + (IF sf THEN 0 ELSE 1)
     \/ Op("jg1") /\ pc' = pc + (IF above(regs[x][2], 1) THEN 0 ELSE 1)
  /\ UNCHANGED <<given, regs, stack, sf, out, how>>
jump ==       \* js; and cmp $1, %si with jg
  /\ \/ Op("js") /\ pc' = pc + (IF sf THEN y ELSE 1)
     \/ Op("jg1") /\ pc' = pc + (IF above(regs[x][2], 1) THEN y ELSE 1)
  /\ UNCHANGED <<given, regs, stack, sf, out, how>>

(***************************************************************************)
(* The kernel: exit keeps eight bits; a write takes all of it, one byte or *)
(* nothing.  The syscall instruction of amd64 loses ecx.                   *)
(***************************************************************************)
Arg(k) == regs[ARG(arch, k)]
Lost == IF arch = "amd64" THEN {"ecx"} ELSE {}
sysExit ==
  /\ Op("syscall") /\ regs["eax"] = NR_exit(arch)
  /\ how' = <<"exit", Arg(1)>>
  /\ UNCHANGED <<given, pc, regs, stack, sf, out>>
Behind == -1      \* a byte of the code that follows a string
Taken(s, n) == [k \in 1..n |-> IF k <= Len(s) THEN s[k] ELSE Behind]
Bytes == IF Arg(2)[1] = "str" THEN Taken(Arg(2)[2], Arg(3)[2])
         ELSE [k \in 1..((Arg(3)[2] + 3) \div 4) |-> stack[Arg(2)[2] + 1 - k]]
sysWrite ==
  /\ Op("syscall") /\ regs["eax"] = NR_write(arch)
  /\ \E res \in {Arg(3), W(1), <<65535, 65527>>} :       \* all, one byte, EBADF
        /\ out' = Append(out, [fd |-> Arg(1)[2], of |-> Arg(2)[1], what |-> Bytes, n |-> Arg(3)[2], res |-> res])
        /\ regs' = [r \in Reg |-> IF r = "eax" THEN res
                                  ELSE IF r \in Lost THEN Junk("lost") ELSE regs[r]]
  /\ pc' = pc + 1 /\ UNCHANGED <<given, stack, sf, how>>

trap == Op("hlt") /\ how' = <<"signal", W(0)>> /\ UNCHANGED <<given, pc, regs, stack, sf, out>>

FallOut ==    \* the end of the asm statement: back in the C function
  /\ how = <<>> /\ pc > Len(code) /\ how' = <<"returns", W(0)>>
  /\ UNCHANGED <<given, pc, regs, stack, sf, out>>

Next == move \/ arith \/ and \/ stackOps \/ cpuidOp \/ jump \/ sysExit \/ sysWrite \/ trap \/ FallOut
Spec == Init /\ [][Next]_vars /\ WF_vars(Next)

(***************************************************************************)
(* What the cpuid snippets print, word by word as memory holds it: cpuid5  *)
(* names the hypervisor, the manufacturer and the brand, each between its  *)
(* labels, in 0x55 bytes; the others one answer, its registers in the      *)
(* order in which that leaf spells a name.  cpuid6 takes whatever leaf eax *)
(* happens to ask for.                                                     *)
(***************************************************************************)
Spelt(leaf, rs) == [k \in DOMAIN rs |-> <<"cpuid", leaf, rs[k]>>]
Maker(leaf)     == Spelt(leaf, <<"ebx", "edx", "ecx">>)
Hypervisor      == Spelt(<<16384, 0>>, <<"ebx", "ecx", "edx">>)
Brand(k)        == Spelt(<<32768, k>>, <<"eax", "ebx", "ecx", "edx">>)
Banner == <<<<8250, 22088>>>> \o Hypervisor \o <<<<8250, 19722>>>> \o Maker(W(0))
            \o <<<<8250, 20490>>>> \o Brand(2) \o Brand(3) \o Brand(4) \o <<W(10)>>
PrintsIds ==
  \A k \in DOMAIN out : out[k].of = "esp" =>
    LET sent == [words |-> out[k].what, n |-> out[k].n]
    IN  CASE prog = "cpuid5" -> sent = [words |-> Banner, n |-> 85]
          [] prog = "cpuid6" -> sent = [words |-> Maker(entry["eax"]), n |-> 12]
          [] prog = "cpuid3" -> sent = [words |-> Hypervisor, n |-> 12]
          [] prog = "cpuid4" -> sent = [words |-> Brand(2), n |-> 16]
          [] OTHER           -> sent = [words |-> Maker(W(0)), n |-> 12]

(***************************************************************************)
(* A debug print dropped into C code leaves the stack as it was, dbg3      *)
(* leaves every register as it was, and the others change no register the  *)
(* compiler has not been told of.  On amd64 the system call also loses     *)
(* ecx, and no asm statement says so.                                      *)
(***************************************************************************)
Told == CASE prog = "dbg3" -> {}
          [] prog \in {"dbg2", "cpuid"} -> {"eax", "ebx", "ecx", "edx"}
          [] prog = "M2write" -> Reg
          [] OTHER -> {"eax"} \cup {ARG(arch, k) : k \in 1..3} \cup Lost
Transparent ==
  how # <<>> /\ how[1] = "returns" =>
    /\ \A r \in Reg \ Told : regs[r] = entry[r]
    /\ prog \notin {"cpuid", "cpuid2", "cpuid3", "cpuid4"} => stack = <<Junk("stack")>>

(***************************************************************************)
(* A write sends the program's own text, whole, and nothing behind it: no  *)
(* terminating NUL (but for hello3.c, which counts 13 bytes for 12) and no *)
(* word of the stack the snippet did not push.  Only a text pasted into    *)
(* the code brings bytes of the code with it, after its line, and exactly  *)
(* one for each byte that its literal has to escape.                       *)
(***************************************************************************)
OwnBytes ==
  \A k \in DOMAIN out :
    LET what == out[k].what
    IN  IF out[k].of = "str"
        THEN /\ Len(what) = out[k].n
             /\ \A j \in DOMAIN what : what[j] = 0 => prog = "MAIN" /\ j = 13
             /\ IF prog \in Pasted
                THEN /\ Len(what) = Len(Line(text)) + Cardinality(Escapes(text))
                     /\ \A j \in DOMAIN what :
                          IF j <= Len(Line(text)) THEN what[j] = Line(text)[j] ELSE what[j] = Behind
                ELSE Behind \notin Range(what)
        ELSE Junk("stack") \notin Range(what)

(***************************************************************************)
(* The exit status says what the function's name says; isvm's is that of a *)
(* hypervisor, 0, or of none, 1, when it starts the program (ebx 0), and   *)
(* no failed write is ever told.                                           *)
(***************************************************************************)
ExitTells ==
  how # <<>> /\ how[1] = "exit" =>
    CASE prog = "exit_nonzero"  -> how[2] # W(0)
      [] prog = "exit_dontcare" -> how[2] = entry[ARG(arch, 1)]
      [] prog = "isvm"          -> entry["ebx"] = W(0) => how[2] = W(IF vm THEN 0 ELSE 1)
      [] OTHER                  -> how[2] = W(0)

(***************************************************************************)
(* Every program comes to its end, cpuid5's loop over the brand included.  *)
(***************************************************************************)
Ends == <>(how # <<>>)
=============================================================================
