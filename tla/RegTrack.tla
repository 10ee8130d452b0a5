------------------------------ MODULE RegTrack ------------------------------
(***************************************************************************)
(* The register tracker of asmlib (generic.mac, and the system-call macros *)
(* of syscall.mac that are built on it).  While NASM assembles a           *)
(* straight-line program, every macro reads and rewrites an assemble-time  *)
(* record of what each register holds (reg_eax_val, ...), and uses it to   *)
(* choose the shortest instructions.  A step of this specification is one  *)
(* macro of the program: `val' is the assemble-time record, `reg' what the *)
(* processor holds after running the instructions the macro emitted.       *)
(*                                                                         *)
(* Widths are scaled: a byte has Q values (256 in the code), a word M =    *)
(* Q^4 (2^32 in the code); NASM's own arithmetic is modulo M*M (2^64).     *)
(* Build options are the ones every program of the repository uses:        *)
(* REG_OPT = 1, reg_keepflags = 0, reg_stack = 1, zero_seg = 1, and        *)
(* {COPY,LEA,IMUL}_FROM_OTHER = 0.                                         *)
(***************************************************************************)
EXTENDS Integers, Sequences

CONSTANTS
  Q,             \* the number of values of a byte
  Regs,          \* the registers the program's macros write
  Operands,      \* the numbers the program's macros are given
  Inputs,        \* words that instructions, system calls and the stack deliver
  Labels,        \* the addresses of the labels a program names
  ZeroLists,     \* the argument lists of `zero'
  Calls,         \* the argument lists of `syscall'
  Blocks,        \* the argument lists of `memset' and `memcpy'
  Stored,        \* the numbers `stos' is given
  Sizes,         \* the numbers of bytes `alloca2' is given
  CpuidAnswer,   \* what the processor answers to a cpuid leaf it does not have
  REG_SEARCH,    \* build option: look for the value in the other registers
  StaleWrites    \* whether `pop', a label or stosb may write a register
                 \* whose value is still tracked

Q2 == Q * Q                      \* 65536 in the code
Q3 == Q2 * Q                     \* 16777216
M  == Q2 * Q2                    \* 0x100000000
Half == Q2 * (Q * (Q \div 2))    \* 0x80000000

Words == 0 .. M - 1

SearchOrder == << "eax", "ebx", "ecx", "edx", "esi", "edi", "ebp", "esp" >>
ZeroOrder   == << "eax", "ebx", "ecx", "edx", "esp", "ebp", "esi", "edi" >>

AllRegs == {"eax", "ebx", "ecx", "edx", "esi", "edi", "ebp", "esp"}

\* reg_var: the registers with a low and a high byte (al, ah, ...).
ByteRegs == {"eax", "ebx", "ecx", "edx"}

\* The tracker's negative values: what is known of a register's contents.
Unknown  == -1
Byte     == -2      \* at most 8 bits
Short    == -3      \* at most 16 bits
NotMinus == -4      \* the sign bit is clear

ASSUME QAssumption == Q \in Nat /\ Q >= 4 /\ Q % 2 = 0
\* ilog2f(u) == ilog2c(u)
PowerOfTwo(u) == \A d \in 2 .. u : u % d = 0 => d % 2 = 0

\* The form int32 gives a negative operand is never a power of two.
ASSUME WidthAssumption == \A n \in 1 .. Half : ~PowerOfTwo(M + n)

ASSUME RegsAssumption == Regs \subseteq AllRegs \ {"esp"}
ASSUME OperandsAssumption == Operands \subseteq -Half .. M - 1
ASSUME SizesAssumption == Stored \cup Sizes \subseteq Operands
ASSUME InputsAssumption == Inputs \subseteq Words /\ Labels \subseteq Words
ASSUME ZeroListsAssumption == ZeroLists \subseteq Seq(Regs)
ASSUME CallsAssumption ==
  /\ \A call \in Calls \cup Blocks : \A i \in 1 .. Len(call) :
       CASE call[i].kind = "num" -> call[i].arg \in Operands
         [] call[i].kind = "reg" -> call[i].arg \in AllRegs
         [] call[i].kind = "pop" -> call[i].arg \in Words
         [] OTHER                -> call[i].kind = "x"
  /\ \A call \in Calls : Len(call) \in 1 .. 7
  /\ \A args \in Blocks :
       Len(args) = 3 /\ \A i \in 1 .. 3 : args[i].kind \in {"num", "reg"}
ASSUME CpuidAssumption == CpuidAnswer \in [ByteRegs -> Words]
ASSUME FlagsAssumption == REG_SEARCH \in BOOLEAN /\ StaleWrites \in BOOLEAN

VARIABLES
  val,      \* assemble time: the tracked value of each register
  reg,      \* run time: the contents of each register
  pushed    \* run time: the last word push0 or alloca2 left on the stack

vars == << val, reg, pushed >>

\* What the macros work on.
State == [val |-> val, reg |-> reg]

-----------------------------------------------------------------------------
(* Operands as NASM sees them.                                             *)

\* The word a processor gets for a number in the source.
Word(n) == n % M

\* int32: the "unsigned" form, which is what the tracker records.
Uint32(n) == IF n < 0 THEN M - n ELSE n % (M - 1)

\* int32: the "signed" form; NASM's % is unsigned, on 64 bits.
Sint32(n) == IF n > Half - 1 THEN - ((M * M - n) % (M - 1)) ELSE n

\* NASM's unsigned 64-bit division.
NasmDiv(n, d) == (IF n < 0 THEN M * M + n ELSE n) \div d

\* The operand fits the sign-extended byte of push, lea and add.
ByteImm(n) == Sint32(n) < Q \div 2 /\ Sint32(n) > - (Q \div 2) - 1

-----------------------------------------------------------------------------
(* What rget derives from a tracked value.                                 *)

Defined(t) == t > -1
Is8bit(t)  == t = Byte \/ (Defined(t) /\ t < Q)
Is16bit(t) == t = Short \/ Is8bit(t) \/ (Defined(t) /\ t < Q2)
\* Mutant: a word whose top bit is set still counts as not negative.
NotNegOffByOne(t) == t = NotMinus \/ Is16bit(t) \/ (Defined(t) /\ t <= Half)
NotNeg(t)  == t = NotMinus \/ Is16bit(t) \/ (Defined(t) /\ t < Half)

\* reg_search: the register known to hold t; the last one found wins.
SearchMatch(v, t) ==
  LET found == {i \in 1 .. 8 : v[SearchOrder[i]] = t}
  IN  IF REG_SEARCH /\ found # {}
        THEN SearchOrder[CHOOSE i \in found : \A j \in found : j <= i]
        ELSE "none"

\* findzero: the first register known to be zero.
FindZero(v) ==
  LET found == {i \in 1 .. 8 : v[ZeroOrder[i]] = 0}
  IN  IF found # {}
        THEN ZeroOrder[CHOOSE i \in found : \A j \in found : i <= j]
        ELSE "none"

-----------------------------------------------------------------------------
(* Instructions on parts of a word.                                        *)

MovLow(w, b)  == (w - (w % Q)) + (b % Q)
MovHigh(w, b) == (w - (w % Q2)) + ((b % Q) * Q) + (w % Q)
Mov16(w, h)   == (w - (w % Q2)) + (h % Q2)
Dec16(w)      == (w - (w % Q2)) + (((w % Q2) + Q2 - 1) % Q2)
Inc(w)        == (w + 1) % M
Dec(w)        == (w + M - 1) % M
Ror1(w)       == (w \div 2) + ((w % 2) * Half)
Bswap(w)      == ((w % Q) * Q3) + (((w \div Q) % Q) * Q2)
                   + (((w \div Q2) % Q) * Q) + (w \div Q3)
\* cdq: the sign of eax, in every bit of edx.
SignWord(w)   == IF w >= Half THEN M - 1 ELSE 0

-----------------------------------------------------------------------------
(* `set' of a number: which instructions it emits.  The tests are made in  *)
(* the order of the code, the first that holds decides.                    *)

\* setfz: the register is known to be zero.
FromZeroIdiom(r, n) ==
  LET u == Uint32(n)
      s == Sint32(n)
      parts == r \in ByteRegs
  IN  IF n = 1 THEN "inc"
      ELSE IF s = -1 THEN "dec"
      ELSE IF parts /\ u < Q THEN "mov_low"
      ELSE IF parts /\ u % Q = 0 /\ u >= Q /\ u < Q2 THEN "mov_high"
      ELSE IF u = Q2 - 1 THEN "dec16"
      ELSE IF ByteImm(n) THEN "lea_self"
      ELSE IF parts /\ s < 0 /\ s >= -Q THEN "dec_mov_low"
      ELSE IF u = Q2 THEN "dec16_inc"
      ELSE IF u = Q3 THEN "inc_bswap"
      ELSE IF u = Half THEN "inc_ror"
      ELSE IF u < Q2 THEN "mov16"
      ELSE IF parts /\ u % Q3 = 0 THEN "mov_low_bswap"
      ELSE IF parts /\ u % Q2 = 0 /\ u <= (Q - 1) * Q2 THEN "mov_high_bswap"
      ELSE IF PowerOfTwo(u) THEN "inc_shl"
      ELSE IF u = M - Q2 THEN "dec16_bswap"
      ELSE "mov"

\* __set_num.  Four numbers (-103, -503, -155, -65275) that das, aas, daa and
\* aaa make of an eax of -1 are not told apart from those that need a mov: the
\* idiom delivers the same word, whatever the flags.
SetIdiom(v, r, n) ==
  LET u == Uint32(n)
      s == Sint32(n)
      old == v[r]
      parts == r \in ByteRegs
  IN  IF old = u THEN "skip"
      ELSE IF old = 0 THEN FromZeroIdiom(r, n)
      ELSE IF Defined(old) /\ u - old = 1 THEN "inc"
      ELSE IF Defined(old) /\ u - old = -1 THEN "dec"
      ELSE IF SearchMatch(v, u) # "none" THEN "copy"
      ELSE IF n = 0 THEN "zero"
      ELSE IF parts /\ Is8bit(old) /\ u < Q THEN "mov_low"
      ELSE IF SearchMatch(v, 0) # "none" /\ ByteImm(n) THEN "lea_zero"
      ELSE IF n = 1 THEN "zero_inc"
      ELSE IF s = -1 THEN "or"
      ELSE IF ByteImm(n) THEN "push_pop"
      ELSE IF parts /\ u < Q THEN "zero_mov_low"
      ELSE IF parts /\ u % Q = 0 /\ u >= Q /\ u < Q2 THEN "zero_mov_high"
      ELSE IF u = Q2 - 1 THEN "zero_dec16"
      ELSE IF Is16bit(old) /\ u < Q2 THEN "mov16"
      ELSE "mov"

\* Mutant: cdq is used without asking what is known of eax.
ClearedByCdq(v, g, r) == IF r = "edx" THEN SignWord(g["eax"]) ELSE 0

\* The register a single `zero r' leaves: cdq when eax is known not to be
\* negative, otherwise mov r, fs (fs is 0 in a static Linux program).
Cleared(v, g, r) ==
  IF r = "edx" /\ NotNeg(v["eax"]) THEN SignWord(g["eax"]) ELSE 0

\* The word in r after the instructions of the idiom have run.
Effect(idiom, v, g, r, n) ==
  LET w == g[r]
      z == Cleared(v, g, r)
  IN  CASE idiom = "skip"          -> w
        [] idiom = "inc"           -> Inc(w)
        [] idiom = "dec"           -> Dec(w)
        [] idiom = "copy"          -> g[SearchMatch(v, Uint32(n))]
        [] idiom = "mov_low"       -> MovLow(w, n)
        [] idiom = "mov_high"      -> MovHigh(w, NasmDiv(n, Q))
        [] idiom = "mov16"         -> Mov16(w, n)
        [] idiom = "dec16"         -> Dec16(w)
        [] idiom = "lea_self"      -> Word(w + n)
        [] idiom = "dec_mov_low"   -> MovLow(Dec(w), n)
        [] idiom = "dec16_inc"     -> Inc(Dec16(w))
        [] idiom = "inc_bswap"     -> Bswap(Inc(w))
        [] idiom = "inc_ror"       -> Ror1(Inc(w))
        [] idiom = "mov_low_bswap" -> Bswap(MovLow(w, NasmDiv(n, Q3)))
        [] idiom = "mov_high_bswap"-> Bswap(MovHigh(w, NasmDiv(n, Q2)))
        [] idiom = "inc_shl"       -> (Inc(w) * Uint32(n)) % M
        [] idiom = "dec16_bswap"   -> Bswap(Dec16(w))
        [] idiom = "lea_zero"      -> Word(g[SearchMatch(v, 0)] + n)
        [] idiom = "zero"          -> z
        [] idiom = "zero_inc"      -> Inc(z)
        [] idiom = "zero_mov_low"  -> MovLow(z, n)
        [] idiom = "zero_mov_high" -> MovHigh(z, NasmDiv(n, Q))
        [] idiom = "zero_dec16"    -> Dec16(z)
        [] OTHER                   -> Word(n)    \* or -1, push/pop, mov

\* set r, n
SetNum(s, r, n) ==
  [ val |-> [s.val EXCEPT ![r] = Uint32(n)],
    reg |-> [s.reg EXCEPT ![r] = Effect(SetIdiom(s.val, r, n),
                                        s.val, s.reg, r, n)] ]

\* set r, q: a mov, and rmov propagates what is known of q.
SetFrom(s, r, q) ==
  IF r = q THEN s
  ELSE [ val |-> [s.val EXCEPT ![r] = s.val[q]],
         reg |-> [s.reg EXCEPT ![r] = s.reg[q]] ]

\* A write the tracker is told nothing of.
Overwrite(s, r, w) ==
  [ val |-> s.val, reg |-> [s.reg EXCEPT ![r] = w] ]

\* A write followed by rset: the tracker takes the program's word for it.
WriteAs(s, r, w, t) ==
  [ val |-> [s.val EXCEPT ![r] = t], reg |-> [s.reg EXCEPT ![r] = w] ]

-----------------------------------------------------------------------------
(* `zero' of a list of registers.                                          *)

Members(list) == {list[i] : i \in 1 .. Len(list)}

\* The registers of the list that are not known to be zero already.
NotYetZero(v, list) == {r \in Members(list) : v[r] # 0}

\* Mutant: mul is used though edx is not to be cleared.
ZeroedAtOnceByMul(v, list) ==
  IF ByteRegs \subseteq NotYetZero(v, list) THEN ByteRegs
  ELSE IF "eax" \in NotYetZero(v, list) /\ FindZero(v) # "none"
    THEN {"eax", "edx"}
  ELSE {}

\* The part before the loop: cpuid (after lahf has made eax a leaf the
\* processor does not have), mul by a zero, or nothing.
ZeroedAtOnce(v, list) ==
  IF ByteRegs \subseteq NotYetZero(v, list) THEN ByteRegs
  ELSE IF {"eax", "edx"} \subseteq NotYetZero(v, list) /\ FindZero(v) # "none"
    THEN {"eax", "edx"}
  ELSE {}

\* The record takes cpuid's answer for zeros; mul leaves the product of eax
\* and the register found in edx:eax.
AtOnce(s, list) ==
  LET done == ZeroedAtOnce(s.val, list)
      product == s.reg["eax"] * s.reg[FindZero(s.val)]
      word(r) == IF done = ByteRegs THEN CpuidAnswer[r]
                 ELSE IF r = "eax" THEN product % M ELSE product \div M
  IN  [ val |-> [r \in AllRegs |-> IF r \in done THEN 0 ELSE s.val[r]],
        reg |-> [r \in AllRegs |-> IF r \in done THEN word(r) ELSE s.reg[r]] ]

\* The loop comes to eax before it comes to edx.
EaxFirst(list) ==
  \E i, j \in 1 .. Len(list) : i < j /\ list[i] = "eax" /\ list[j] = "edx"

Zero(s, list) ==
  LET t == AtOnce(s, list)
      clear(u, r) == IF u.val[r] = 0 THEN u.reg[r]
                     ELSE Cleared(u.val, u.reg, r)
      noEax == WriteAs(t, "eax", clear(t, "eax"), 0)
      cleared(r) == IF r = "edx" /\ EaxFirst(list) THEN clear(noEax, "edx")
                    ELSE clear(t, r)
  IN  [ val |-> [r \in AllRegs |-> IF r \in Members(list) THEN 0
                                   ELSE t.val[r]],
        reg |-> [r \in AllRegs |-> IF r \in Members(list) THEN cleared(r)
                                   ELSE t.reg[r]] ]

-----------------------------------------------------------------------------
(* Macros built on `set'.  An operand is a number, a register or what the  *)
(* stack's top holds; `x' and an empty one leave the register alone.       *)

Num(n)  == [kind |-> "num", arg |-> n]
Reg(r)  == [kind |-> "reg", arg |-> r]
Pop(w)  == [kind |-> "pop", arg |-> w]
Keep    == [kind |-> "x", arg |-> 0]

\* sc_param r, o
Param(s, r, o) ==
  CASE o.kind = "num" -> SetNum(s, r, o.arg)
    [] o.kind = "reg" -> SetFrom(s, r, o.arg)
    [] o.kind = "pop" -> Overwrite(s, r, o.arg)
    [] OTHER          -> s

\* The registers `syscall' fills, in the order it fills them.
ArgOrder == << "eax", "ebx", "ecx", "edx", "esi", "edi", "ebp" >>

Fill(s, call, i) == IF i <= Len(call) THEN Param(s, ArgOrder[i], call[i])
                                      ELSE s

\* Mutant: edi is filled before esi.
AtTrapSwapped(s, call) ==
  LET s4 == Fill(Fill(Fill(Fill(s, call, 1), call, 2), call, 3), call, 4)
  IN  Fill(Fill(Fill(s4, call, 6), call, 5), call, 7)

\* The registers at the int 0x80 of `syscall'.
AtTrap(s, call) ==
  LET s1 == Fill(s,  call, 1)
      s2 == Fill(s1, call, 2)
      s3 == Fill(s2, call, 3)
      s4 == Fill(s3, call, 4)
      s5 == Fill(s4, call, 5)
      s6 == Fill(s5, call, 6)
  IN  Fill(s6, call, 7)

\* memset and memcpy, up to their rep instruction.
AtStosb(s, args) ==
  Param(Param(Param(s, "edi", args[1]), "eax", args[2]), "ecx", args[3])

AtMovsb(s, args) ==
  Param(Param(Param(s, "edi", args[1]), "esi", args[2]), "ecx", args[3])

\* Mutant: the pointer does not wrap at the end of the address space.
AdvanceUnbounded(s, r) == WriteAs(s, r, s.reg[r] + s.reg["ecx"], Unknown)

\* rep: a pointer moves by what ecx counted, and ecx is left 0.
Advance(s, r) == WriteAs(s, r, Word(s.reg[r] + s.reg["ecx"]), Unknown)
CountedOut(s) == WriteAs(s, "ecx", 0, 0)

-----------------------------------------------------------------------------
(* The steps: one macro of the program each.                               *)

Become(s) == val' = s.val /\ reg' = s.reg

Set(r, n) == Become(SetNum(State, r, n)) /\ UNCHANGED pushed

SetRegister(r, q) == Become(SetFrom(State, r, q)) /\ UNCHANGED pushed

\* A register may be written behind the tracker's back.
MayGoStale(r) == StaleWrites \/ val[r] = Unknown

\* set r, label: rmov finds no such register and leaves the record alone.
SetLabel(r, address) ==
  /\ MayGoStale(r)
  /\ Become(Overwrite(State, r, address))
  /\ UNCHANGED pushed

\* set r, $: a mov, and the register is tainted.
SetHere(r, address) ==
  Become(WriteAs(State, r, address, Unknown)) /\ UNCHANGED pushed

ZeroRegisters(list) == Become(Zero(State, list)) /\ UNCHANGED pushed

\* Mutant: xchg is emitted, the record is not exchanged.
ExchangeForgetful(r, q) ==
  Become(Overwrite(Overwrite(State, r, reg[q]), q, reg[r])) /\ UNCHANGED pushed

\* ychg r, q
Exchange(r, q) ==
  /\ Become(WriteAs(WriteAs(State, r, reg[q], val[q]), q, reg[r], val[r]))
  /\ UNCHANGED pushed

\* taint r
Taint(r) ==
  /\ val' = [val EXCEPT ![r] = Unknown]
  /\ UNCHANGED << reg, pushed >>

\* rtaint
TaintAll ==
  /\ val' = [r \in AllRegs |-> Unknown]
  /\ UNCHANGED << reg, pushed >>

\* What a program may say of a word with rset.
TrueClaims(w) ==
  {Unknown, w} \cup {t \in {Byte} : w < Q} \cup {t \in {Short} : w < Q2}
               \cup {t \in {NotMinus} : w < Half}

\* Instructions of the program's own, and the rset or taint after them.
Instruction(r, w) ==
  /\ \E t \in TrueClaims(w) : Become(WriteAs(State, r, w, t))
  /\ UNCHANGED pushed

\* stos: nothing is said of edi, which stosb moves on.
Stos(n) ==
  /\ {"eax", "edi"} \subseteq Regs
  /\ MayGoStale("edi")
  /\ LET s == SetNum(State, "eax", n)
     IN  Become(Overwrite(s, "edi", Word(s.reg["edi"] + 1)))
  /\ UNCHANGED pushed

Memset(args) ==
  /\ {"eax", "ecx", "edi"} \subseteq Regs
  /\ Become(CountedOut(Advance(AtStosb(State, args), "edi")))
  /\ UNCHANGED pushed

Memcpy(args) ==
  /\ {"ecx", "esi", "edi"} \subseteq Regs
  /\ LET s == AtMovsb(State, args)
     IN  Become(CountedOut(Advance(Advance(s, "edi"), "esi")))
  /\ UNCHANGED pushed

\* The word push0 pushes: a register known to be zero is shortest.
ZeroWord(s) == IF FindZero(s.val) = "none" THEN 0 ELSE s.reg[FindZero(s.val)]

Push0 == pushed' = ZeroWord(State) /\ UNCHANGED << val, reg >>

\* alloca2: push0 in a loop.  Nothing stops a program from asking for 0
\* bytes, for which the loop would run M times.
Alloca2(n) ==
  /\ "ecx" \in Regs
  /\ n > 0
  /\ LET s == SetNum(State, "ecx", (n + 3) \div 4)
     IN  pushed' = ZeroWord(s) /\ Become(CountedOut(s))

\* What a program may write after `syscall'.
Allowed(call) ==
  \A i \in 1 .. Len(call) :
    /\ call[i].kind # "x" => ArgOrder[i] \in Regs
    /\ call[i].kind = "pop" => MayGoStale(ArgOrder[i])

\* syscall: the kernel answers in eax, which sc_exec taints.
Syscall(call, answer) ==
  /\ Allowed(call)
  /\ Become(WriteAs(AtTrap(State, call), "eax", answer, Unknown))
  /\ UNCHANGED pushed

\* A program starts with nothing known (the rtaint at the end of the file's
\* definitions), or says rinit where Linux has cleared the registers.
Init ==
  /\ pushed = 0
  /\ \E stack \in Inputs :
       \/ /\ val = [r \in AllRegs |-> Unknown]
          /\ \E w \in Inputs :
               reg = [r \in AllRegs |-> IF r = "esp" THEN stack ELSE w]
       \/ /\ val = [r \in AllRegs |-> IF r = "esp" THEN Unknown ELSE 0]
          /\ reg = [r \in AllRegs |-> IF r = "esp" THEN stack ELSE 0]

Next ==
  \/ \E r \in Regs :
       \/ Taint(r)
       \/ \E n \in Operands : Set(r, n)
       \/ \E q \in Regs \cup {"esp"} : SetRegister(r, q)
       \/ \E q \in Regs : Exchange(r, q)
       \/ \E w \in Labels : SetLabel(r, w)
       \/ \E w \in Labels : SetHere(r, w)
       \/ \E w \in Inputs : Instruction(r, w)
  \/ \E list \in ZeroLists : ZeroRegisters(list)
  \/ TaintAll
  \/ Push0
  \/ \E n \in Stored : Stos(n)
  \/ \E n \in Sizes : Alloca2(n)
  \/ \E args \in Blocks : Memset(args)
  \/ \E args \in Blocks : Memcpy(args)
  \/ \E call \in Calls, answer \in Inputs : Syscall(call, answer)

Spec == Init /\ [][Next]_vars

-----------------------------------------------------------------------------
(* Correctness.                                                            *)

\* What a tracked value claims of a word.  A negative operand is recorded as
\* M plus its magnitude instead of its 32-bit form (int32 subtracts it from
\* 0x100000000 with the sign still on), so values above M are tags that only
\* stand for the operand they came from.
Agrees(t, w) ==
  /\ t = Byte => w < Q
  /\ t = Short => w < Q2
  /\ t = NotMinus => w < Half
  /\ (0 <= t /\ t < M) => w = t
  /\ t >= M => \E n \in Operands : n < 0 /\ t = Uint32(n) /\ w = Word(n)

TypeOK ==
  /\ val \in [AllRegs -> NotMinus .. M + Half]
  /\ reg \in [AllRegs -> Words]
  /\ pushed \in Words

\* The tracker never believes of a register what the processor would deny.
\* Every choice of instructions in generic.mac rests on it.
Sound == \A r \in AllRegs : Agrees(val[r], reg[r])

\* Whatever macros ran before, `set r, n' emitted now leaves n in r: none of
\* the shorter encodings of __set_num and setfz is chosen when the register
\* (or the one copied from) holds something else than it needs.
SetDelivers ==
  \A r \in Regs, n \in Operands : SetNum(State, r, n).reg[r] = Word(n)

\* `zero' leaves 0 in every register of its list and keeps every other one,
\* though it may use cpuid, mul or cdq, which write registers of their own.
ZeroClears ==
  \A list \in ZeroLists : \A r \in AllRegs :
    Zero(State, list).reg[r] = IF r \in Members(list) THEN 0 ELSE reg[r]

\* No operand of the call is a register that an earlier operand overwrote.
Independent(call) ==
  \A i \in 1 .. Len(call) : call[i].kind = "reg" =>
    \A j \in 1 .. i - 1 : call[j].kind # "x" => ArgOrder[j] # call[i].arg

\* What the program asked the system call's i-th register to hold.
Asked(g, call, i) ==
  CASE call[i].kind = "num" -> Word(call[i].arg)
    [] call[i].kind = "reg" -> g[call[i].arg]
    [] call[i].kind = "pop" -> call[i].arg
    [] OTHER                -> g[ArgOrder[i]]

\* The kernel receives in every register what the program wrote in the
\* `syscall' line, though the registers are filled one after the other and
\* each `set' may copy from, or count on, a register filled before it.
SyscallReceives ==
  \A call \in Calls : Independent(call) /\ Allowed(call) =>
    \A i \in 1 .. Len(call) :
      AtTrap(State, call).reg[ArgOrder[i]] = Asked(reg, call, i)

\* push0 and alloca2 push 0, though push0 takes it from a register.
PushesZero == pushed = 0

-----------------------------------------------------------------------------
(* The programs for which the tracker is sound.                            *)

\* 0xFFFFFFFF is recorded as 0, and a negative operand after the one next to
\* it is reached by an inc or a dec in the wrong direction.
GoodOperands ==
  /\ M - 1 \notin Operands
  /\ \A m, n \in Operands : m < 0 /\ n < 0 => m - n # 1

\* The macro's own assumption on the processor: no leaf, no bits.
CpuidZeros == \A r \in ByteRegs : CpuidAnswer[r] = 0

Legal == GoodOperands /\ CpuidZeros /\ ~StaleWrites
=============================================================================
