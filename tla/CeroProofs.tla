------------------------------ MODULE CeroProofs ------------------------------
(***************************************************************************)
(* Theorems about Cero: the programs without a C library, for every text.  *)
(***************************************************************************)
EXTENDS Cero, SequenceTheorems, FiniteSetTheorems, TLAPS

-----------------------------------------------------------------------------
(* Sequences of anything: code, stack and out have elements of all kinds.  *)

Anys(s) == \E S : s \in Seq(S)

LEMMA Wider ==
  ASSUME NEW s, NEW t, Anys(s), Anys(t)
  PROVE  \E S : s \in Seq(S) /\ t \in Seq(S)
<1>1. PICK S : s \in Seq(S)
  BY DEF Anys
<1>2. PICK T : t \in Seq(T)
  BY DEF Anys
<1>3. s \in Seq(S \cup T) /\ t \in Seq(S \cup T)
  BY <1>1, <1>2, SeqMonotonic
<1> QED  BY <1>3

LEMMA Lengths ==
  ASSUME NEW s, Anys(s)
  PROVE  Len(s) \in Nat /\ DOMAIN s = 1 .. Len(s)
BY LenProperties DEF Anys

LEMMA Joining ==
  ASSUME NEW s, NEW t, Anys(s), Anys(t)
  PROVE  /\ Anys(s \o t) /\ Len(s \o t) = Len(s) + Len(t)
         /\ \A k \in 1 .. Len(s) : (s \o t)[k] = s[k]
         /\ \A k \in 1 .. Len(t) : (s \o t)[Len(s) + k] = t[k]
<1>1. PICK S : s \in Seq(S) /\ t \in Seq(S)
  BY Wider
<1>2. /\ s \o t \in Seq(S) /\ Len(s \o t) = Len(s) + Len(t)
      /\ \A i \in 1 .. Len(s) + Len(t) :
           (s \o t)[i] = IF i <= Len(s) THEN s[i] ELSE t[i - Len(s)]
  BY <1>1, ConcatProperties
<1>3. Len(s) \in Nat /\ Len(t) \in Nat
  BY Lengths
<1>4. ASSUME NEW k \in 1 .. Len(t)  PROVE (s \o t)[Len(s) + k] = t[k]
  <2>1. /\ Len(s) + k \in 1 .. Len(s) + Len(t) /\ ~(Len(s) + k <= Len(s))
        /\ (Len(s) + k) - Len(s) = k
    BY <1>3
  <2> QED  BY <1>2, <2>1
<1>5. ASSUME NEW k \in 1 .. Len(s)  PROVE (s \o t)[k] = s[k]
  <2>1. k \in 1 .. Len(s) + Len(t) /\ k <= Len(s)
    BY <1>3
  <2> QED  BY <1>2, <2>1
<1> QED  BY <1>2, <1>4, <1>5 DEF Anys

LEMMA Joined ==
  ASSUME NEW u, NEW s, NEW t, u = s \o t, Anys(s), Anys(t)
  PROVE  /\ Anys(u) /\ Len(u) = Len(s) + Len(t)
         /\ \A k \in 1 .. Len(s) : u[k] = s[k]
         /\ \A k \in 1 .. Len(t) : u[Len(s) + k] = t[k]
BY Joining

LEMMA Appending ==
  ASSUME NEW s, NEW e, Anys(s)
  PROVE  /\ Anys(Append(s, e)) /\ Len(Append(s, e)) = Len(s) + 1
         /\ \A k \in 1 .. Len(s) : Append(s, e)[k] = s[k]
         /\ Append(s, e)[Len(s) + 1] = e
<1>1. PICK S : s \in Seq(S)
  BY DEF Anys
<1>2. s \in Seq(S \cup {e}) /\ e \in S \cup {e}
  BY <1>1, SeqMonotonic
<1> QED  BY <1>2, AppendProperties DEF Anys

LEMMA Taking ==
  ASSUME NEW s, Anys(s), NEW n \in 0 .. Len(s)
  PROVE  /\ Anys(SubSeq(s, 1, n)) /\ Len(SubSeq(s, 1, n)) = n
         /\ \A k \in 1 .. n : SubSeq(s, 1, n)[k] = s[k]
<1>1. PICK S : s \in Seq(S)
  BY DEF Anys
<1>2. n \in Int /\ \A k \in 1 .. n : s[k] \in S
  BY <1>1, ElementOfSeq
<1>3. /\ SubSeq(s, 1, n) \in Seq(S)
      /\ Len(SubSeq(s, 1, n)) = IF 1 <= n THEN n - 1 + 1 ELSE 0
      /\ \A k \in 1 .. n - 1 + 1 : SubSeq(s, 1, n)[k] = s[1 + k - 1]
  BY <1>2, SubSeqProperties
<1> QED  BY <1>2, <1>3 DEF Anys

LEMMA SameSeq ==
  ASSUME NEW s, NEW t, Anys(s), Anys(t), Len(s) = Len(t),
         \A k \in 1 .. Len(s) : s[k] = t[k]
  PROVE  s = t
<1>1. PICK S : s \in Seq(S) /\ t \in Seq(S)
  BY Wider
<1> QED  BY <1>1, SeqEqual

LEMMA Literals ==
  /\ Anys(<< >>)
  /\ \A a : Anys(<<a>>)
  /\ \A a, b : Anys(<<a, b>>)
  /\ \A a, b, c : Anys(<<a, b, c>>)
  /\ \A a, b, c, d : Anys(<<a, b, c, d>>)
<1>1. << >> \in Seq({})
  OBVIOUS
<1>2. \A a : <<a>> \in Seq({a})
  OBVIOUS
<1>3. \A a, b : <<a, b>> \in Seq({a, b})
  OBVIOUS
<1>4. \A a, b, c : <<a, b, c>> \in Seq({a, b, c})
  OBVIOUS
<1>5. \A a, b, c, d : <<a, b, c, d>> \in Seq({a, b, c, d})
  OBVIOUS
<1> QED  BY <1>1, <1>2, <1>3, <1>4, <1>5 DEF Anys

-----------------------------------------------------------------------------
(* The instructions, one by one.                                           *)

\* The next instruction.
Ins(i) == how = << >> /\ Len(code) \in Nat /\ pc \in 1 .. Len(code) /\ code[pc] = i
Stepped == pc' = pc + 1 /\ UNCHANGED <<prog, text, vm, arch, code, entry, out, how>>

\* Which action an instruction is.
LEMMA Acting ==
  ASSUME NEW o, NEW a, NEW b, Ins(<<o, a, b>>), Next
  PROVE  /\ x = a /\ y = b /\ \A q : Op(q) <=> q = o
         /\ o \in {"li", "mov", "li16", "sp", "addsp", "ldsp", "xchg"} => move
         /\ o \in {"xor", "inc", "dec", "shr"} => arith
         /\ o = "and" => and
         /\ o \in {"push", "pushr", "pop", "pusha", "popa"} => stackOps
         /\ o = "cpuid" => cpuidOp
         /\ o \in {"js", "jg1"} => jump
         /\ o = "syscall" => sysExit \/ sysWrite
         /\ o = "hlt" => trap
<1>1. x = a /\ y = b /\ \A q : Op(q) <=> q = o
  BY DEF Ins, Op, x, y
<1>2. move => o \in {"li", "mov", "li16", "sp", "addsp", "ldsp", "xchg"}
  BY <1>1 DEF move
<1>3. arith => o \in {"xor", "inc", "dec", "shr"}
  BY <1>1 DEF arith
<1>4. and => o = "and"
  BY <1>1 DEF and
<1>5. stackOps => o \in {"push", "pushr", "pop", "pusha", "popa"}
  BY <1>1 DEF stackOps
<1>6. cpuidOp => o = "cpuid"
  BY <1>1 DEF cpuidOp
<1>7. jump => o \in {"js", "jg1"}
  <2>1. jump => Op("js") \/ Op("jg1")
    BY DEF jump
  <2> QED  BY <1>1, <2>1
<1>8. sysExit \/ sysWrite => o = "syscall"
  BY <1>1 DEF sysExit, sysWrite
<1>9. trap => o = "hlt"
  BY <1>1 DEF trap
<1>10. ~FallOut
  BY DEF Ins, FallOut
<1> HIDE DEF x, y
<1> QED
  BY <1>1, <1>2, <1>3, <1>4, <1>5, <1>6, <1>7, <1>8, <1>9, <1>10 DEF Next

LEMMA DoLi ==
  ASSUME NEW v, NEW r, Ins(<<"li", v, r>>), Next
  PROVE  Stepped /\ UNCHANGED <<stack, sf>> /\ regs' = [regs EXCEPT ![r] = v]
<1>1. move /\ x = v /\ y = r /\ \A q : Op(q) <=> q = "li"
  BY Acting
<1> QED  BY <1>1 DEF move, Set, Step, given, Stepped

LEMMA DoMov ==
  ASSUME NEW r, NEW d, Ins(<<"mov", r, d>>), Next
  PROVE  Stepped /\ UNCHANGED <<stack, sf>> /\ regs' = [regs EXCEPT ![d] = regs[r]]
<1>1. move /\ x = r /\ y = d /\ \A q : Op(q) <=> q = "mov"
  BY Acting
<1> QED  BY <1>1 DEF move, Set, Step, given, Stepped

LEMMA DoLi16 ==
  ASSUME NEW n, NEW r, Ins(<<"li16", n, r>>), Next
  PROVE  Stepped /\ UNCHANGED <<stack, sf>> /\ regs' = [regs EXCEPT ![r] = <<regs[r][1], n>>]
<1>1. move /\ x = n /\ y = r /\ \A q : Op(q) <=> q = "li16"
  BY Acting
<1> QED  BY <1>1 DEF move, Set, Step, given, Stepped

LEMMA DoSp ==
  ASSUME NEW r, Ins(<<"sp", r, 0>>), Next
  PROVE  Stepped /\ UNCHANGED <<stack, sf>> /\ regs' = [regs EXCEPT ![r] = <<"esp", Len(stack), 0>>]
<1>1. move /\ x = r /\ y = 0 /\ \A q : Op(q) <=> q = "sp"
  BY Acting
<1> QED  BY <1>1 DEF move, Set, Step, given, Stepped

LEMMA DoAddSp ==
  ASSUME NEW r, NEW n, Ins(<<"addsp", r, n>>), Next
  PROVE  Stepped /\ UNCHANGED <<stack, sf>> /\ regs' = [regs EXCEPT ![r] = <<"esp", regs[r][2] - n, 0>>]
<1>1. move /\ x = r /\ y = n /\ \A q : Op(q) <=> q = "addsp"
  BY Acting
<1> QED  BY <1>1 DEF move, Set, Step, given, Stepped

LEMMA DoLdSp ==
  ASSUME NEW n, NEW r, Ins(<<"ldsp", n, r>>), Next
  PROVE  Stepped /\ UNCHANGED <<stack, sf>> /\ regs' = [regs EXCEPT ![r] = stack[Len(stack) - n]]
<1>1. move /\ x = n /\ y = r /\ \A q : Op(q) <=> q = "ldsp"
  BY Acting
<1> QED  BY <1>1 DEF move, Set, Step, given, Stepped

LEMMA DoXchg ==
  ASSUME NEW r, NEW d, Ins(<<"xchg", r, d>>), Next
  PROVE  Stepped /\ UNCHANGED <<stack, sf>> /\ regs' = [regs EXCEPT ![r] = regs[d], ![d] = regs[r]]
<1>1. move /\ x = r /\ y = d /\ \A q : Op(q) <=> q = "xchg"
  BY Acting
<1> QED  BY <1>1 DEF move, Set, Step, given, Stepped

LEMMA DoXor ==
  ASSUME NEW r, Ins(<<"xor", r, 0>>), Next
  PROVE  Stepped /\ UNCHANGED <<stack, sf>> /\ regs' = [regs EXCEPT ![r] = W(0)]
<1>1. arith /\ x = r /\ y = 0 /\ \A q : Op(q) <=> q = "xor"
  BY Acting
<1> QED  BY <1>1 DEF arith, Set, Step, given, Stepped

LEMMA DoInc ==
  ASSUME NEW r, Ins(<<"inc", r, 0>>), Next
  PROVE  Stepped /\ UNCHANGED <<stack, sf>> /\ regs' = [regs EXCEPT ![r] = <<regs[r][1], regs[r][2] + 1>>]
<1>1. arith /\ x = r /\ y = 0 /\ \A q : Op(q) <=> q = "inc"
  BY Acting
<1> QED  BY <1>1 DEF arith, Set, Step, given, Stepped

LEMMA DoDec ==
  ASSUME NEW r, Ins(<<"dec", r, 0>>), Next
  PROVE  Stepped /\ UNCHANGED <<stack, sf>> /\ regs' = [regs EXCEPT ![r] = <<regs[r][1], regs[r][2] - 1>>]
<1>1. arith /\ x = r /\ y = 0 /\ \A q : Op(q) <=> q = "dec"
  BY Acting
<1> QED  BY <1>1 DEF arith, Set, Step, given, Stepped

LEMMA DoShr ==
  ASSUME NEW r, Ins(<<"shr", r, 0>>), Next
  PROVE  Stepped /\ UNCHANGED <<stack, sf>> /\ regs' = [regs EXCEPT ![r] =
               <<regs[r][1] \div 2, regs[r][2] \div 2 + (regs[r][1] % 2) * 32768>>]
<1>1. arith /\ x = r /\ y = 0 /\ \A q : Op(q) <=> q = "shr"
  BY Acting
<1> QED  BY <1>1 DEF arith, Set, Step, given, Stepped

LEMMA DoPush ==
  ASSUME NEW v, Ins(<<"push", v, 0>>), Next, Anys(stack)
  PROVE  /\ Stepped /\ UNCHANGED <<regs, sf>> /\ Anys(stack') /\ Len(stack') = Len(stack) + 1
         /\ \A k \in 1 .. Len(stack) : stack'[k] = stack[k]
         /\ stack'[Len(stack) + 1] = v
<1>1. stackOps /\ x = v /\ \A q : Op(q) <=> q = "push"
  BY Acting
<1>2. Stepped /\ stack' = Append(stack, v) /\ UNCHANGED <<regs, sf>>
  BY <1>1 DEF stackOps, Step, given, Stepped
<1> QED  BY <1>2, Appending

LEMMA DoPushR ==
  ASSUME NEW r, Ins(<<"pushr", r, 0>>), Next, Anys(stack)
  PROVE  /\ Stepped /\ UNCHANGED <<regs, sf>> /\ Anys(stack') /\ Len(stack') = Len(stack) + 1
         /\ \A k \in 1 .. Len(stack) : stack'[k] = stack[k]
         /\ stack'[Len(stack) + 1] = regs[r]
<1>1. stackOps /\ x = r /\ \A q : Op(q) <=> q = "pushr"
  BY Acting
<1>2. Stepped /\ stack' = Append(stack, regs[r]) /\ UNCHANGED <<regs, sf>>
  BY <1>1 DEF stackOps, Step, given, Stepped
<1> QED  BY <1>2, Appending

LEMMA DoPop ==
  ASSUME NEW r, Ins(<<"pop", r, 0>>), Next, Anys(stack), Len(stack) > 0
  PROVE  /\ Stepped /\ UNCHANGED sf /\ Anys(stack') /\ Len(stack') = Len(stack) - 1
         /\ \A k \in 1 .. Len(stack) - 1 : stack'[k] = stack[k]
         /\ regs' = [regs EXCEPT ![r] = stack[Len(stack)]]
<1>1. stackOps /\ x = r /\ \A q : Op(q) <=> q = "pop"
  BY Acting
<1>2. /\ Stepped /\ stack' = SubSeq(stack, 1, Len(stack) - 1) /\ UNCHANGED sf
      /\ regs' = [regs EXCEPT ![r] = stack[Len(stack)]]
  BY <1>1 DEF stackOps, Step, Set, Top, Last, Front, given, Stepped
<1>3. Len(stack) - 1 \in 0 .. Len(stack)
  BY Lengths
<1> QED  BY <1>2, <1>3, Taking

LEMMA DoPusha ==
  ASSUME Ins(<<"pusha", 0, 0>>), Next, Anys(stack)
  PROVE  /\ Stepped /\ UNCHANGED <<regs, sf>> /\ Anys(stack') /\ Len(stack') = Len(stack) + 8
         /\ \A k \in 1 .. Len(stack) : stack'[k] = stack[k]
         /\ stack'[Len(stack) + 1] = regs["eax"] /\ stack'[Len(stack) + 2] = regs["ecx"]
         /\ stack'[Len(stack) + 3] = regs["edx"] /\ stack'[Len(stack) + 4] = regs["ebx"]
         /\ stack'[Len(stack) + 7] = regs["esi"] /\ stack'[Len(stack) + 8] = regs["edi"]
         /\ stack'[Len(stack) + 5] = Junk("esp") /\ stack'[Len(stack) + 6] = Junk("ebp")
<1>1. stackOps /\ \A q : Op(q) <=> q = "pusha"
  BY Acting
<1> DEFINE eight == <<regs["eax"], regs["ecx"], regs["edx"], regs["ebx"],
                      Junk("esp"), Junk("ebp"), regs["esi"], regs["edi"]>>
<1>2. /\ ~Op("push") /\ ~Op("pushr") /\ ~Op("pop") /\ ~Op("popa")
      /\ stackOps
  BY <1>1
<1>3. Step /\ stack' = stack \o eight /\ UNCHANGED <<regs, sf>>
  BY <1>2, Zenon DEF stackOps
<1>4. /\ Len(eight) = 8 /\ eight[1] = regs["eax"] /\ eight[2] = regs["ecx"]
      /\ eight[3] = regs["edx"] /\ eight[4] = regs["ebx"] /\ eight[5] = Junk("esp")
      /\ eight[6] = Junk("ebp") /\ eight[7] = regs["esi"] /\ eight[8] = regs["edi"]
  OBVIOUS
<1>5. Anys(eight)
  <2>1. eight \in Seq({regs[r] : r \in Reg} \cup {Junk("esp"), Junk("ebp")})
    BY DEF Reg
  <2> HIDE DEF eight
  <2> QED  BY <2>1 DEF Anys
<1> HIDE DEF eight
<1>6. /\ Anys(stack') /\ Len(stack') = Len(stack) + Len(eight)
      /\ \A k \in 1 .. Len(stack) : stack'[k] = stack[k]
      /\ \A k \in 1 .. Len(eight) : stack'[Len(stack) + k] = eight[k]
  BY <1>3, <1>5, Joining
<1>7. Len(stack) \in Nat
  BY Lengths
<1>8. Stepped
  BY <1>3 DEF Step, given, Stepped
<1>9. /\ 1 \in 1 .. 8 /\ 2 \in 1 .. 8 /\ 3 \in 1 .. 8 /\ 4 \in 1 .. 8
      /\ 5 \in 1 .. 8 /\ 6 \in 1 .. 8 /\ 7 \in 1 .. 8 /\ 8 \in 1 .. 8
  OBVIOUS
<1> QED  BY <1>3, <1>4, <1>6, <1>7, <1>8, <1>9

LEMMA DoPopa ==
  ASSUME Ins(<<"popa", 0, 0>>), Next, Anys(stack), Len(stack) >= 8
  PROVE  /\ Stepped /\ UNCHANGED sf /\ Anys(stack') /\ Len(stack') = Len(stack) - 8
         /\ \A k \in 1 .. Len(stack) - 8 : stack'[k] = stack[k]
         /\ DOMAIN regs' = Reg
         /\ regs'["eax"] = stack[Len(stack) - 7] /\ regs'["ecx"] = stack[Len(stack) - 6]
         /\ regs'["edx"] = stack[Len(stack) - 5] /\ regs'["ebx"] = stack[Len(stack) - 4]
         /\ regs'["esi"] = stack[Len(stack) - 1] /\ regs'["edi"] = stack[Len(stack)]
<1>1. stackOps /\ \A q : Op(q) <=> q = "popa"
  BY Acting
<1> DEFINE n == Len(stack)
<1>2. /\ Stepped /\ stack' = SubSeq(stack, 1, n - 8) /\ UNCHANGED sf
      /\ regs' = [eax |-> stack[n - 7], ecx |-> stack[n - 6], edx |-> stack[n - 5],
                  ebx |-> stack[n - 4], esi |-> stack[n - 1], edi |-> stack[n]]
  BY <1>1 DEF stackOps, Step, given, Stepped
<1>3. n - 8 \in 0 .. n
  BY Lengths
<1>4. /\ regs'["eax"] = stack[n - 7] /\ regs'["ecx"] = stack[n - 6]
      /\ regs'["edx"] = stack[n - 5] /\ regs'["ebx"] = stack[n - 4]
      /\ regs'["esi"] = stack[n - 1] /\ regs'["edi"] = stack[n]
      /\ DOMAIN regs' = Reg
  BY <1>2 DEF Reg
<1> QED  BY <1>2, <1>3, <1>4, Taking

LEMMA DoCpuid ==
  ASSUME Ins(<<"cpuid", 0, 0>>), Next
  PROVE  /\ Stepped /\ UNCHANGED <<stack, sf>> /\ DOMAIN regs' = Reg
         /\ \A r \in {"eax", "ebx", "ecx", "edx"} : regs'[r] = <<"cpuid", regs["eax"], r>>
         /\ regs'["esi"] = regs["esi"] /\ regs'["edi"] = regs["edi"]
<1>1. cpuidOp
  BY Acting
<1> QED  BY <1>1 DEF cpuidOp, Step, given, Stepped, Reg

LEMMA DoAnd ==
  ASSUME NEW r, Ins(<<"and", r, 0>>), Next
  PROVE  /\ Stepped /\ UNCHANGED <<stack, regs>>
         /\ sf' = (regs[r] = <<"cpuid", W(1), "ecx">> /\ vm)
<1>1. and /\ x = r
  BY Acting
<1> QED  BY <1>1 DEF and, Step, given, Stepped

LEMMA DoJs ==
  ASSUME NEW d, Ins(<<"js", 0, d>>), Next
  PROVE  /\ UNCHANGED <<prog, text, vm, arch, code, entry, out, how, regs, stack, sf>>
         /\ sf => pc' = pc + d
         /\ ~sf => pc' = pc + 1
<1>1. jump /\ y = d /\ \A q : Op(q) <=> q = "js"
  BY Acting
<1> QED  BY <1>1 DEF jump, given

LEMMA DoJg1 ==
  ASSUME NEW r, NEW d, Ins(<<"jg1", r, d>>), Next
  PROVE  /\ UNCHANGED <<prog, text, vm, arch, code, entry, out, how, regs, stack, sf>>
         /\ pc' = pc + (IF above(regs[r][2], 1) THEN d ELSE 1)
<1>1. jump /\ x = r /\ y = d /\ \A q : Op(q) <=> q = "jg1"
  BY Acting
<1> QED  BY <1>1 DEF jump, given

LEMMA DoExit ==
  ASSUME Ins(SYSCALL), regs["eax"] = NR_exit(arch), Next
  PROVE  /\ how' = <<"exit", regs[ARG(arch, 1)]>>
         /\ UNCHANGED <<prog, text, vm, arch, code, entry, pc, regs, stack, sf, out>>
<1>1. sysExit \/ sysWrite
  BY Acting DEF SYSCALL
<1>2. NR_exit(arch) # NR_write(arch)
  BY DEF NR_exit, NR_write, W
<1>3. sysExit
  BY <1>1, <1>2 DEF sysWrite
<1> QED  BY <1>3 DEF sysExit, Arg, given

\* What a write is given, and the results it may have.
Sent(res) == [fd |-> regs[ARG(arch, 1)][2], of |-> regs[ARG(arch, 2)][1], what |-> Bytes,
              n |-> regs[ARG(arch, 3)][2], res |-> res]
LEMMA DoWrite ==
  ASSUME Ins(SYSCALL), regs["eax"] = NR_write(arch), Next, Anys(out)
  PROVE  \E res \in {regs[ARG(arch, 3)], W(1), <<65535, 65527>>} :
           /\ pc' = pc + 1 /\ UNCHANGED <<prog, text, vm, arch, code, entry, stack, sf, how>>
           /\ Anys(out') /\ Len(out') = Len(out) + 1
           /\ \A k \in 1 .. Len(out) : out'[k] = out[k]
           /\ out'[Len(out) + 1] = Sent(res)
           /\ DOMAIN regs' = Reg /\ regs'["eax"] = res
           /\ \A r \in Reg \ ({"eax"} \cup Lost) : regs'[r] = regs[r]
<1>1. sysExit \/ sysWrite
  BY Acting DEF SYSCALL
<1>2. NR_exit(arch) # NR_write(arch)
  BY DEF NR_exit, NR_write, W
<1>3. sysWrite
  BY <1>1, <1>2 DEF sysExit
<1>4. PICK res \in {regs[ARG(arch, 3)], W(1), <<65535, 65527>>} :
        /\ out' = Append(out, Sent(res))
        /\ regs' = [r \in Reg |-> IF r = "eax" THEN res
                                  ELSE IF r \in Lost THEN Junk("lost") ELSE regs[r]]
        /\ pc' = pc + 1 /\ UNCHANGED <<given, stack, sf, how>>
  BY <1>3, SMTT(30) DEF sysWrite, Sent, Arg
<1>5. /\ DOMAIN regs' = Reg /\ regs'["eax"] = res
      /\ \A r \in Reg \ ({"eax"} \cup Lost) : regs'[r] = regs[r]
  BY <1>4 DEF Reg
<1> QED  BY <1>4, <1>5, Appending DEF given

LEMMA DoTrap ==
  ASSUME Ins(hlt), Next
  PROVE  /\ how' = <<"signal", W(0)>>
         /\ UNCHANGED <<prog, text, vm, arch, code, entry, pc, regs, stack, sf, out>>
<1>1. trap
  BY Acting DEF hlt
<1> QED  BY <1>1 DEF trap, given

LEMMA DoFallOut ==
  ASSUME how = << >>, Len(code) \in Nat, pc = Len(code) + 1, Next
  PROVE  /\ how' = <<"returns", W(0)>>
         /\ UNCHANGED <<prog, text, vm, arch, code, entry, pc, regs, stack, sf, out>>
<1>1. \A q : ~Op(q)
  BY DEF Op
<1>2. FallOut
  BY <1>1 DEF Next, move, arith, and, stackOps, cpuidOp, jump, sysExit, sysWrite, trap
<1> QED  BY <1>2 DEF FallOut, given
-----------------------------------------------------------------------------
(* Strings.                                                                *)

LEMMA Strlen ==
  ASSUME NEW s, Terminated(s)
  PROVE  /\ Anys(s) /\ mystrlen(s) \in Nat /\ mystrlen(s) + 1 \in 1 .. Len(s)
         /\ mystrlen(s) \in 0 .. Len(s)
         /\ s[mystrlen(s) + 1] = 0
         /\ \A j \in 1 .. mystrlen(s) : s[j] # 0
<1>1. Anys(s)
  BY DEF Terminated, Anys
<1>2. DOMAIN s = 1 .. Len(s) /\ Len(s) \in Nat
  BY <1>1, Lengths
<1> DEFINE First(k) == s[k] = 0 /\ \A j \in 1 .. (k - 1) : s[j] # 0
<1> DEFINE k0 == CHOOSE k \in DOMAIN s : First(k)
<1>3. \E k \in DOMAIN s : First(k)
  BY DEF Terminated
<1>4. k0 \in DOMAIN s /\ First(k0)
  BY <1>3
<1>5. mystrlen(s) = k0 - 1
  BY DEF mystrlen
<1> HIDE DEF k0
<1>6. mystrlen(s) + 1 = k0
  BY <1>2, <1>4, <1>5
<1> QED  BY <1>1, <1>2, <1>4, <1>5, <1>6

LEMMA LineOf ==
  ASSUME NEW s, Terminated(s)
  PROVE  /\ Anys(Line(s)) /\ Len(Line(s)) = mystrlen(s) + 1
         /\ \A j \in 1 .. Len(Line(s)) : Line(s)[j] # 0
<1> DEFINE n == mystrlen(s)
<1> DEFINE t == SubSeq(s, 1, n)
<1>1. n \in 0 .. Len(s) /\ n \in Nat /\ Anys(s) /\ \A j \in 1 .. n : s[j] # 0
  BY Strlen
<1>2. Anys(t) /\ Len(t) = n /\ \A j \in 1 .. n : t[j] = s[j]
  BY <1>1, Taking
<1>3. Line(s) = t \o <<10>>
  BY DEF Line
<1> HIDE DEF n, t
<1>4. Anys(<<10>>) /\ Len(<<10>>) = 1 /\ <<10>>[1] = 10
  BY Literals
<1>5. /\ Anys(Line(s)) /\ Len(Line(s)) = n + 1
      /\ \A j \in 1 .. n : Line(s)[j] = t[j]
      /\ \A j \in 1 .. 1 : Line(s)[n + j] = <<10>>[j]
  BY <1>2, <1>3, <1>4, Joining
<1>6. Line(s)[n + 1] = 10
  BY <1>4, <1>5
<1>7. ASSUME NEW j \in 1 .. n + 1  PROVE Line(s)[j] # 0
  <2>1. CASE j = n + 1
    BY <1>6, <2>1
  <2>2. CASE j # n + 1
    <3>1. j \in 1 .. n
      BY <1>1, <2>2
    <3> QED  BY <1>1, <1>2, <1>5, <3>1
  <2> QED  BY <2>1, <2>2
<1> QED  BY <1>5, <1>7 DEF n

\* A byte of a string is not one of the code.
LEMMA Before ==
  ASSUME NEW b \in Byte
  PROVE  b # Behind
BY SMT DEF Byte, Behind

LEMMA LineBytes ==
  ASSUME NEW s, Terminated(s)
  PROVE  \A j \in 1 .. Len(Line(s)) : Line(s)[j] # Behind
<1> DEFINE n == mystrlen(s)
<1> DEFINE t == SubSeq(s, 1, n)
<1>1. n \in 0 .. Len(s) /\ n \in Nat /\ Anys(s)
  BY Strlen
<1>2. Anys(t) /\ Len(t) = n /\ \A j \in 1 .. n : t[j] = s[j]
  BY <1>1, Taking
<1>3. Line(s) = t \o <<10>>
  BY DEF Line
<1> HIDE DEF n, t
<1>4. Anys(<<10>>) /\ Len(<<10>>) = 1 /\ <<10>>[1] = 10
  BY Literals
<1>5. /\ Len(Line(s)) = n + 1
      /\ \A j \in 1 .. n : Line(s)[j] = t[j]
      /\ \A j \in 1 .. 1 : Line(s)[n + j] = <<10>>[j]
  BY <1>2, <1>3, <1>4, Joining
<1>6. \A j \in 1 .. n : s[j] \in Byte
  <2>1. s \in Seq(Byte) /\ Len(s) \in Nat /\ \A j \in 1 .. n : j \in 1 .. Len(s)
    BY <1>1, Lengths DEF Terminated
  <2> QED  BY <2>1, ElementOfSeq
<1>7. ASSUME NEW j \in 1 .. n + 1  PROVE Line(s)[j] # Behind
  <2>1. CASE j = n + 1
    BY <1>1, <1>4, <1>5, <2>1 DEF Behind
  <2>2. CASE j # n + 1
    <3>1. j \in 1 .. n
      BY <1>1, <2>2
    <3>2. Line(s)[j] = s[j] /\ s[j] \in Byte
      BY <1>2, <1>5, <1>6, <3>1
    <3> QED  BY <3>2, Before
  <2> QED  BY <2>1, <2>2
<1> QED  BY <1>5, <1>7

\* What is taken from the address of a string: its own bytes, then the code's.
LEMMA TakenIs ==
  ASSUME NEW s, Anys(s), NEW n \in Nat
  PROVE  /\ Len(Taken(s, n)) = n /\ DOMAIN Taken(s, n) = 1 .. n
         /\ \A j \in 1 .. n : Taken(s, n)[j] = IF j <= Len(s) THEN s[j] ELSE Behind
<1> DEFINE P(k) == IF k <= Len(s) THEN s[k] ELSE Behind
<1> DEFINE S == {P(k) : k \in 1 .. n}
<1>1. \A k \in 1 .. n : P(k) \in S
  OBVIOUS
<1>2. Taken(s, n) = [k \in 1 .. n |-> P(k)]
  BY DEF Taken
<1>3. \A k \in 1 .. n : P(k) = IF k <= Len(s) THEN s[k] ELSE Behind
  OBVIOUS
<1> HIDE DEF P, S
<1>4. Len([k \in 1 .. n |-> P(k)]) = n
  BY <1>1, IsASeq
<1> QED  BY <1>2, <1>3, <1>4

\* A prefix that stops before the first NUL has none, and nothing from behind the string.
LEMMA Prefix ==
  ASSUME NEW s, Terminated(s), NEW n \in 0 .. mystrlen(s)
  PROVE  /\ Len(Taken(s, n)) = n /\ DOMAIN Taken(s, n) = 1 .. n
         /\ \A j \in 1 .. n : Taken(s, n)[j] # 0 /\ Taken(s, n)[j] # Behind
<1>1. /\ mystrlen(s) \in 0 .. Len(s) /\ Anys(s) /\ mystrlen(s) \in Nat
      /\ \A j \in 1 .. mystrlen(s) : s[j] # 0
  BY Strlen
<1>2. Len(s) \in Nat /\ n \in Nat
  BY <1>1, Lengths
<1>3. /\ Len(Taken(s, n)) = n /\ DOMAIN Taken(s, n) = 1 .. n
      /\ \A j \in 1 .. n : Taken(s, n)[j] = IF j <= Len(s) THEN s[j] ELSE Behind
  BY <1>1, <1>2, TakenIs
<1>4. ASSUME NEW j \in 1 .. n
      PROVE  Taken(s, n)[j] # 0 /\ Taken(s, n)[j] # Behind
  <2>1. j \in 1 .. mystrlen(s) /\ j \in 1 .. Len(s)
    BY <1>1, <1>2
  <2>2. Taken(s, n)[j] = s[j]
    BY <1>2, <1>3, <2>1
  <2>3. s[j] \in Byte
    BY <2>1, ElementOfSeq DEF Terminated
  <2>4. s[j] # Behind
    BY <2>3, Before
  <2> QED  BY <1>1, <2>1, <2>2, <2>4
<1> QED  BY <1>3, <1>4

\* The length given for a pasted text is at least that of its line.
LEMMA Escaping ==
  ASSUME NEW s, Terminated(s)
  PROVE  /\ Cardinality(Escapes(s)) \in Nat /\ DBG_LEN(s) \in Nat
         /\ DBG_LEN(s) = Len(Line(s)) + Cardinality(Escapes(s))
<1>1. mystrlen(s) \in Nat /\ Len(Line(s)) = mystrlen(s) + 1
  BY Strlen, LineOf
<1>2. IsFiniteSet(1 .. mystrlen(s))
  BY <1>1, FS_Interval
<1>3. Escapes(s) \subseteq 1 .. mystrlen(s)
  BY DEF Escapes
<1>4. Cardinality(Escapes(s)) \in Nat
  BY <1>2, <1>3, FS_Subset, FS_CardinalityType
<1> QED  BY <1>1, <1>4 DEF DBG_LEN

LEMMA LenFrom ==
  ASSUME NEW s, Terminated(s), NEW m \in Nat, m + 1 \in 1 .. Len(s), s[m + 1] = 0,
         \A j \in 1 .. m : s[j] # 0
  PROVE  mystrlen(s) = m
<1>1. /\ mystrlen(s) \in Nat /\ mystrlen(s) + 1 \in 1 .. Len(s)
      /\ s[mystrlen(s) + 1] = 0 /\ \A j \in 1 .. mystrlen(s) : s[j] # 0
  BY Strlen
<1>2. ~(mystrlen(s) < m)
  <2>1. mystrlen(s) < m => mystrlen(s) + 1 \in 1 .. m
    BY <1>1
  <2> QED  BY <1>1, <2>1
<1>3. ~(m < mystrlen(s))
  <2>1. m < mystrlen(s) => m + 1 \in 1 .. mystrlen(s)
    BY <1>1
  <2> QED  BY <1>1, <2>1
<1> QED  BY <1>1, <1>2, <1>3

LEMMA HelloIs ==
  /\ Terminated(hello) /\ Anys(hello) /\ Len(hello) = 13 /\ mystrlen(hello) = 12
  /\ hello[13] = 0 /\ \A j \in 1 .. 12 : hello[j] # 0
  /\ \A j \in 1 .. 11 : hello[j] \in {32} \cup 97..122
<1>1. hello \in Seq(Byte) /\ Len(hello) = 13 /\ hello[13] = 0
  BY DEF hello, Byte
<1>2. /\ hello[1] = 104 /\ hello[2] = 101 /\ hello[3] = 108 /\ hello[4] = 108
      /\ hello[5] = 111 /\ hello[6] = 32 /\ hello[7] = 119 /\ hello[8] = 111
      /\ hello[9] = 114 /\ hello[10] = 108 /\ hello[11] = 100 /\ hello[12] = 10
  BY DEF hello
<1>3. ASSUME NEW j \in 1 .. 12  PROVE hello[j] # 0
  BY <1>2
<1>4. Anys(hello) /\ DOMAIN hello = 1 .. 13
  BY <1>1, Lengths DEF Anys
<1>5. Terminated(hello)
  <2>1. 13 \in DOMAIN hello /\ 13 - 1 = 12
    BY <1>4
  <2> QED  BY <1>1, <1>3, <2>1 DEF Terminated
<1>6. 12 \in Nat /\ 12 + 1 = 13 /\ 13 \in 1 .. 13
  OBVIOUS
<1>7. mystrlen(hello) = 12
  BY <1>1, <1>3, <1>5, <1>6, LenFrom
<1>8. ASSUME NEW j \in 1 .. 11  PROVE hello[j] \in {32} \cup 97..122
  BY <1>2
<1> QED  BY <1>1, <1>3, <1>4, <1>5, <1>7, <1>8

LEMMA NewlineIs ==
  Terminated(<<10, 0>>) /\ mystrlen(<<10, 0>>) = 1
<1> DEFINE s == <<10, 0>>
<1>1. s \in Seq(Byte) /\ Len(s) = 2 /\ s[1] = 10 /\ s[2] = 0
  BY DEF Byte
<1> HIDE DEF s
<1>2. DOMAIN s = 1 .. 2
  BY <1>1, Lengths DEF Anys
<1>3. \A j \in 1 .. 1 : s[j] # 0
  BY <1>1
<1>4. Terminated(s)
  <2>1. 2 \in DOMAIN s /\ 2 - 1 = 1
    BY <1>2
  <2> QED  BY <1>1, <1>3, <2>1 DEF Terminated
<1>5. 1 \in Nat /\ 1 + 1 = 2 /\ 2 \in 1 .. 2
  OBVIOUS
<1>6. mystrlen(s) = 1
  BY <1>1, <1>3, <1>4, <1>5, LenFrom
<1> QED  BY <1>4, <1>6 DEF s

\* What abort prints.
aborted == SubSeq(hello, 1, 11) \o <<0>>
LEMMA AbortedIs == Terminated(aborted) /\ Escapes(aborted) = {}
<1>1. Anys(hello) /\ 11 \in 0 .. Len(hello)
  BY HelloIs
<1> DEFINE t == SubSeq(hello, 1, 11)
<1>2. Anys(t) /\ Len(t) = 11 /\ \A j \in 1 .. 11 : t[j] = hello[j]
  BY <1>1, Taking
<1> DEFINE nul == <<0>>
<1>3. t \in Seq(Byte)
  <2>1. hello \in Seq(Byte)
    BY HelloIs DEF Terminated
  <2>2. \A j \in 1 .. Len(hello) : hello[j] \in Byte
    BY <2>1, ElementOfSeq
  <2>3. \A j \in 1 .. 11 : hello[j] \in Byte
    BY <2>2, HelloIs
  <2> QED  BY <2>3, SubSeqProperties
<1> HIDE DEF t
<1>4. nul \in Seq(Byte) /\ Anys(nul) /\ Len(nul) = 1 /\ nul[1] = 0
  BY Literals DEF Byte
<1>5. aborted = t \o nul
  BY DEF aborted, t
<1> HIDE DEF nul
<1>6. aborted \in Seq(Byte)
  BY <1>3, <1>4, <1>5, ConcatProperties
<1>7. /\ Len(aborted) = Len(t) + Len(nul) /\ Anys(aborted)
      /\ \A j \in 1 .. Len(t) : aborted[j] = t[j]
      /\ \A j \in 1 .. Len(nul) : aborted[Len(t) + j] = nul[j]
  <2>1. Anys(t) /\ Anys(nul)
    BY <1>2, <1>4
  <2> QED  BY <1>5, <2>1, Joining
<1>8. aborted[12] = 0 /\ Len(aborted) = 12
  BY <1>2, <1>4, <1>7
<1>9. \A j \in 1 .. 11 : aborted[j] # 0
  BY <1>2, <1>7, HelloIs, SMTT(30)
<1>10. 12 \in DOMAIN aborted /\ 12 - 1 = 11
  <2>1. DOMAIN aborted = 1 .. Len(aborted)
    BY <1>7, Lengths
  <2> QED  BY <1>8, <2>1
<1>11. Terminated(aborted)
  BY <1>6, <1>8, <1>9, <1>10 DEF Terminated
<1>12. mystrlen(aborted) = 11
  <2>1. 11 \in Nat /\ 11 + 1 \in 1 .. Len(aborted) /\ aborted[11 + 1] = 0
    BY <1>8
  <2> QED  BY <1>9, <1>11, <2>1, LenFrom
<1>13. \A j \in 1 .. 11 : aborted[j] \notin Escaped
  <2>1. \A j \in 1 .. 11 : aborted[j] \in {32} \cup 97..122
    BY <1>2, <1>7, HelloIs
  <2> QED  BY <2>1, EscapedAssumption
<1> QED  BY <1>11, <1>12, <1>13 DEF Escapes

-----------------------------------------------------------------------------
(* What every step keeps, and what it must have made true when it ends.    *)

Given == /\ arch \in {"i386", "amd64"} /\ text \in Texts
         /\ prog \in Portable \/ arch = "i386"
         /\ entry \in {EntryRegs(0), EntryRegs(7)}
         /\ code = Code(prog, arch, text)
Frame == Given /\ DOMAIN regs = Reg /\ Anys(stack) /\ Anys(out)
Same  == UNCHANGED <<prog, text, vm, arch, code, entry>>

\* What OwnBytes and PrintsIds say of one write.
Own(r) ==
  IF r.of = "str"
  THEN /\ Len(r.what) = r.n
       /\ \A j \in DOMAIN r.what : r.what[j] = 0 => prog = "MAIN" /\ j = 13
       /\ IF prog \in Pasted
          THEN /\ Len(r.what) = Len(Line(text)) + Cardinality(Escapes(text))
               /\ \A j \in DOMAIN r.what :
                    IF j <= Len(Line(text)) THEN r.what[j] = Line(text)[j] ELSE r.what[j] = Behind
          ELSE Behind \notin Range(r.what)
  ELSE Junk("stack") \notin Range(r.what)
Ids(r) ==
  r.of = "esp" =>
    LET sent == [words |-> r.what, n |-> r.n]
    IN  CASE prog = "cpuid5" -> sent = [words |-> Banner, n |-> 85]
          [] prog = "cpuid6" -> sent = [words |-> Maker(entry["eax"]), n |-> 12]
          [] prog = "cpuid3" -> sent = [words |-> Hypervisor, n |-> 12]
          [] prog = "cpuid4" -> sent = [words |-> Brand(2), n |-> 16]
          [] OTHER           -> sent = [words |-> Maker(W(0)), n |-> 12]
\* A step sends nothing, or one more write.
Quiet    == UNCHANGED out
Grown    == /\ Anys(out') /\ Len(out') = Len(out) + 1
            /\ \A k \in 1 .. Len(out) : out'[k] = out[k]
Sends(r) == Grown /\ out'[Len(out) + 1] = r
Proper   == \/ Quiet
            \/ Grown /\ Own(out'[Len(out) + 1]) /\ Ids(out'[Len(out) + 1])
Fine     == Same /\ DOMAIN regs' = Reg /\ Anys(stack') /\ Proper
Ending   == how' # << >> /\ Transparent' /\ ExitTells'
Leads(P) == Fine /\ (Ending \/ (how' = << >> /\ P))

\* The stack as the program found it.
Bare == Len(stack) = 1 /\ stack[1] = Junk("stack")

LEMMA BareIs ==
  ASSUME Anys(stack), Bare
  PROVE  stack = <<Junk("stack")>>
<1> DEFINE t == <<Junk("stack")>>
<1>1. Anys(t) /\ Len(t) = 1 /\ t[1] = Junk("stack")
  BY Literals
<1> HIDE DEF t
<1>2. stack = t
  BY <1>1, SameSeq DEF Bare
<1> QED  BY <1>2 DEF t

LEMMA Returning ==
  ASSUME Frame, how = << >>, Len(code) \in Nat, pc = Len(code) + 1, Next,
         \A r \in Reg \ Told : regs[r] = entry[r],
         Bare \/ prog \in {"cpuid", "cpuid2", "cpuid3", "cpuid4"}
  PROVE  Fine /\ Ending
<1>1. /\ how' = <<"returns", W(0)>>
      /\ UNCHANGED <<prog, text, vm, arch, code, entry, pc, regs, stack, sf, out>>
  BY DoFallOut
<1>2. how' # << >> /\ how'[1] = "returns"
  BY <1>1
<1>3. Told' = Told
  BY <1>1 DEF Told, Lost
<1>4. ~(prog \in {"cpuid", "cpuid2", "cpuid3", "cpuid4"}) => stack = <<Junk("stack")>>
  BY BareIs DEF Frame
<1>5. Transparent'
  BY <1>1, <1>3, <1>4 DEF Transparent
<1>6. ExitTells'
  BY <1>2 DEF ExitTells
<1> QED  BY <1>1, <1>2, <1>5, <1>6 DEF Fine, Same, Frame, Proper, Quiet, Ending

LEMMA Leaving ==
  ASSUME Frame, Same, Quiet, UNCHANGED stack, DOMAIN regs' = Reg, NEW w, how' = <<"exit", w>>,
         CASE prog = "exit_nonzero"  -> w # W(0)
           [] prog = "exit_dontcare" -> w = entry[ARG(arch, 1)]
           [] prog = "isvm"          -> entry["ebx"] = W(0) => w = W(IF vm THEN 0 ELSE 1)
           [] OTHER                  -> w = W(0)
  PROVE  Fine /\ Ending
<1>1. how' # << >> /\ how'[1] = "exit" /\ how'[2] = w
  OBVIOUS
<1>2. Transparent'
  BY <1>1 DEF Transparent
<1>3. ExitTells'
  BY <1>1 DEF ExitTells, Same
<1> QED  BY <1>1, <1>2, <1>3 DEF Fine, Frame, Proper, Quiet, Same, Ending

LEMMA Trapping ==
  ASSUME Frame, how = << >>, Ins(hlt), Next
  PROVE  Fine /\ Ending
<1>1. /\ how' = <<"signal", W(0)>>
      /\ UNCHANGED <<prog, text, vm, arch, code, entry, pc, regs, stack, sf, out>>
  BY DoTrap
<1>2. how' # << >> /\ how'[1] = "signal"
  BY <1>1
<1>3. Transparent' /\ ExitTells'
  BY <1>2 DEF Transparent, ExitTells
<1> QED  BY <1>1, <1>2, <1>3 DEF Fine, Frame, Proper, Quiet, Same, Ending

-----------------------------------------------------------------------------
(* A write, and an exit, where the two architectures have it.              *)

LEMMA ArgsAre ==
  ASSUME arch \in {"i386", "amd64"}
  PROVE  /\ ARG(arch, 1) \in Reg /\ ARG(arch, 2) \in Reg /\ ARG(arch, 3) \in Reg
         /\ ARG(arch, 1) # "eax" /\ ARG(arch, 2) # "eax" /\ ARG(arch, 3) # "eax"
         /\ ARG(arch, 1) # ARG(arch, 2) /\ ARG(arch, 1) # ARG(arch, 3)
         /\ ARG(arch, 2) # ARG(arch, 3)
         /\ ARG(arch, 1) \notin Lost /\ ARG(arch, 2) \notin Lost /\ ARG(arch, 3) \notin Lost
         /\ Lost \subseteq Reg /\ "eax" \notin Lost
<1>1. CASE arch = "i386"
  BY <1>1 DEF ARG, Reg, Lost
<1>2. CASE arch = "amd64"
  BY <1>2 DEF ARG, Reg, Lost
<1> QED  BY <1>1, <1>2

\* The registers that a write tells of, and the others, still as found.
Telling == {"eax", ARG(arch, 1), ARG(arch, 2), ARG(arch, 3)} \cup Lost
Spared  == \A r \in Reg \ Telling : regs[r] = entry[r]

IsWrite(k, fd, buf, n) ==
  /\ code[k] = <<"li", buf, ARG(arch, 2)>> /\ code[k + 1] = <<"li", W(n), ARG(arch, 3)>>
  /\ code[k + 2] = <<"li", NR_write(arch), "eax">> /\ code[k + 3] = <<"li", W(fd), ARG(arch, 1)>>
  /\ code[k + 4] = SYSCALL
Writing(k, fd, buf, n) ==
  /\ pc \in {k + 1, k + 2, k + 3, k + 4} => regs[ARG(arch, 2)] = buf
  /\ pc \in {k + 2, k + 3, k + 4} => regs[ARG(arch, 3)] = W(n)
  /\ pc \in {k + 3, k + 4} => regs["eax"] = NR_write(arch)
  /\ pc = k + 4 => regs[ARG(arch, 1)] = W(fd)

\* What such a write is.
Message(fd, s, n, res) ==
  [fd |-> fd, of |-> "str", what |-> Taken(s, n), n |-> n, res |-> res]

LEMMA WriteStep ==
  ASSUME arch \in {"i386", "amd64"}, DOMAIN regs = Reg, Anys(out), how = << >>,
         NEW k \in Nat, k >= 1, NEW fd, NEW s, NEW n, Len(code) \in Nat, k + 4 <= Len(code),
         IsWrite(k, fd, Str(s), n), Writing(k, fd, Str(s), n),
         pc \in {k, k + 1, k + 2, k + 3, k + 4}, Spared, Next
  PROVE  /\ Same /\ UNCHANGED <<stack, how>> /\ DOMAIN regs' = Reg /\ pc' = pc + 1
         /\ Spared' /\ Writing(k, fd, Str(s), n)'
         /\ pc = k + 4 => \E res : Sends(Message(fd, s, n, res))
         /\ pc # k + 4 => Quiet
<1> DEFINE buf == Str(s)
<1> USE ArgsAre
<1> HIDE DEF buf
<1>1. CASE pc = k
  <2>1. Ins(<<"li", buf, ARG(arch, 2)>>)
    BY <1>1 DEF Ins, IsWrite, buf
  <2>2. Stepped /\ UNCHANGED <<stack, sf>> /\ regs' = [regs EXCEPT ![ARG(arch, 2)] = buf]
    BY <2>1, DoLi
  <2> QED  BY <1>1, <2>2 DEF Stepped, Same, Spared, Telling, Writing, Quiet, Lost, buf
<1>2. CASE pc = k + 1
  <2>1. Ins(<<"li", W(n), ARG(arch, 3)>>)
    BY <1>2 DEF Ins, IsWrite
  <2>2. Stepped /\ UNCHANGED <<stack, sf>> /\ regs' = [regs EXCEPT ![ARG(arch, 3)] = W(n)]
    BY <2>1, DoLi
  <2> QED  BY <1>2, <2>2 DEF Stepped, Same, Spared, Telling, Writing, Quiet, Lost
<1>3. CASE pc = k + 2
  <2>1. Ins(<<"li", NR_write(arch), "eax">>)
    BY <1>3 DEF Ins, IsWrite
  <2>2. Stepped /\ UNCHANGED <<stack, sf>> /\ regs' = [regs EXCEPT !["eax"] = NR_write(arch)]
    BY <2>1, DoLi
  <2> QED  BY <1>3, <2>2 DEF Stepped, Same, Spared, Telling, Writing, Quiet, Lost, Reg
<1>4. CASE pc = k + 3
  <2>1. Ins(<<"li", W(fd), ARG(arch, 1)>>)
    BY <1>4 DEF Ins, IsWrite
  <2>2. Stepped /\ UNCHANGED <<stack, sf>> /\ regs' = [regs EXCEPT ![ARG(arch, 1)] = W(fd)]
    BY <2>1, DoLi
  <2> QED  BY <1>4, <2>2 DEF Stepped, Same, Spared, Telling, Writing, Quiet, Lost
<1>5. CASE pc = k + 4
  <2>1. Ins(SYSCALL)
    BY <1>5 DEF Ins, IsWrite
  <2>2. /\ regs[ARG(arch, 2)] = Str(s) /\ regs[ARG(arch, 3)] = W(n)
        /\ regs["eax"] = NR_write(arch) /\ regs[ARG(arch, 1)] = W(fd)
    BY <1>5 DEF Writing
  <2>3. PICK res \in {regs[ARG(arch, 3)], W(1), <<65535, 65527>>} :
           /\ pc' = pc + 1 /\ UNCHANGED <<prog, text, vm, arch, code, entry, stack, sf, how>>
           /\ Anys(out') /\ Len(out') = Len(out) + 1
           /\ \A j \in 1 .. Len(out) : out'[j] = out[j]
           /\ out'[Len(out) + 1] = Sent(res)
           /\ DOMAIN regs' = Reg /\ regs'["eax"] = res
           /\ \A r \in Reg \ ({"eax"} \cup Lost) : regs'[r] = regs[r]
    BY <2>1, <2>2, DoWrite
  <2>4. Sent(res) = Message(fd, s, n, res)
    BY <2>2 DEF Sent, Bytes, Arg, Str, W, Message
  <2>5. Sends(Message(fd, s, n, res))
    BY <2>3, <2>4 DEF Sends, Grown
  <2>6. Spared'
    BY <2>3 DEF Spared, Telling, Lost
  <2>7. Writing(k, fd, Str(s), n)'
    BY <1>5, <2>3 DEF Writing
  <2>8. Same /\ UNCHANGED <<stack, how>> /\ DOMAIN regs' = Reg /\ pc' = pc + 1
    BY <2>3 DEF Same
  <2>9. \E r : Sends(Message(fd, s, n, r))
    BY <2>5 DEF Sends
  <2> HIDE DEF Same, Sends, Spared, Writing
  <2> QED  BY <1>5, <2>6, <2>7, <2>8, <2>9
<1> QED  BY <1>1, <1>2, <1>3, <1>4, <1>5

IsExit(k, status) ==
  /\ code[k] = <<"li", NR_exit(arch), "eax">> /\ code[k + 1] = <<"li", W(status), ARG(arch, 1)>>
  /\ code[k + 2] = SYSCALL
Exiting(k, status) ==
  /\ pc \in {k + 1, k + 2} => regs["eax"] = NR_exit(arch)
  /\ pc = k + 2 => regs[ARG(arch, 1)] = W(status)

LEMMA ExitStep ==
  ASSUME arch \in {"i386", "amd64"}, DOMAIN regs = Reg, how = << >>,
         NEW k \in Nat, k >= 1, NEW status, Len(code) \in Nat, k + 2 <= Len(code),
         IsExit(k, status), Exiting(k, status), pc \in {k, k + 1, k + 2}, Next
  PROVE  /\ Same /\ Quiet /\ UNCHANGED stack /\ DOMAIN regs' = Reg
         /\ IF pc = k + 2 THEN how' = <<"exit", W(status)>>
            ELSE how' = how /\ pc' = pc + 1 /\ Exiting(k, status)'
<1> USE ArgsAre
<1>1. CASE pc = k
  <2>1. Ins(<<"li", NR_exit(arch), "eax">>)
    BY <1>1 DEF Ins, IsExit
  <2>2. Stepped /\ UNCHANGED <<stack, sf>> /\ regs' = [regs EXCEPT !["eax"] = NR_exit(arch)]
    BY <2>1, DoLi
  <2> QED  BY <1>1, <2>2 DEF Stepped, Same, Exiting, Quiet, Reg
<1>2. CASE pc = k + 1
  <2>1. Ins(<<"li", W(status), ARG(arch, 1)>>)
    BY <1>2 DEF Ins, IsExit
  <2>2. Stepped /\ UNCHANGED <<stack, sf>> /\ regs' = [regs EXCEPT ![ARG(arch, 1)] = W(status)]
    BY <2>1, DoLi
  <2> QED  BY <1>2, <2>2 DEF Stepped, Same, Exiting, Quiet
<1>3. CASE pc = k + 2
  <2>1. Ins(SYSCALL)
    BY <1>3 DEF Ins, IsExit
  <2>2. regs["eax"] = NR_exit(arch) /\ regs[ARG(arch, 1)] = W(status)
    BY <1>3 DEF Exiting
  <2>3. /\ how' = <<"exit", regs[ARG(arch, 1)]>>
        /\ UNCHANGED <<prog, text, vm, arch, code, entry, pc, regs, stack, sf, out>>
    BY <2>1, <2>2, DoExit
  <2> QED  BY <1>3, <2>2, <2>3 DEF Same, Quiet
<1> QED  BY <1>1, <1>2, <1>3

-----------------------------------------------------------------------------
(* The programs that write by system call, and exit: MAIN, clang_main, and *)
(* the snippets stderr_write, puts_inline, dbg_inline and sputs.           *)

LEMMA WriteCode ==
  ASSUME NEW fd, NEW buf, NEW n
  PROVE  LET c == write(arch, fd, buf, n)
         IN  /\ Anys(c) /\ Len(c) = 5
             /\ c[1] = <<"li", buf, ARG(arch, 2)>> /\ c[2] = <<"li", W(n), ARG(arch, 3)>>
             /\ c[3] = <<"li", NR_write(arch), "eax">> /\ c[4] = <<"li", W(fd), ARG(arch, 1)>>
             /\ c[5] = SYSCALL
<1> DEFINE s == <<<<"li", buf, ARG(arch, 2)>>, <<"li", W(n), ARG(arch, 3)>>>>
<1> DEFINE t == <<<<"li", NR_write(arch), "eax">>, <<"li", W(fd), ARG(arch, 1)>>, SYSCALL>>
<1>1. write(arch, fd, buf, n) = s \o t
  BY DEF write, syscall3, syscall1
<1>2. /\ Len(s) = 2 /\ s[1] = <<"li", buf, ARG(arch, 2)>> /\ s[2] = <<"li", W(n), ARG(arch, 3)>>
      /\ Len(t) = 3 /\ t[1] = <<"li", NR_write(arch), "eax">>
      /\ t[2] = <<"li", W(fd), ARG(arch, 1)>> /\ t[3] = SYSCALL
  OBVIOUS
<1>3. Anys(s) /\ Anys(t)
  BY Literals
<1> HIDE DEF s, t
<1>4. /\ Anys(s \o t) /\ Len(s \o t) = Len(s) + Len(t)
      /\ \A k \in 1 .. Len(s) : (s \o t)[k] = s[k]
      /\ \A k \in 1 .. Len(t) : (s \o t)[Len(s) + k] = t[k]
  BY <1>3, Joining
<1>5. 1 \in 1 .. 2 /\ 2 \in 1 .. 2 /\ 1 \in 1 .. 3 /\ 2 \in 1 .. 3 /\ 3 \in 1 .. 3
  OBVIOUS
<1> QED  BY <1>1, <1>2, <1>4, <1>5

LEMMA ExitCode ==
  ASSUME NEW status
  PROVE  LET c == exit_syscall(arch, status)
         IN  /\ Anys(c) /\ Len(c) = 3
             /\ c[1] = <<"li", NR_exit(arch), "eax">> /\ c[2] = <<"li", W(status), ARG(arch, 1)>>
             /\ c[3] = SYSCALL
<1>1. exit_syscall(arch, status) =
        <<<<"li", NR_exit(arch), "eax">>, <<"li", W(status), ARG(arch, 1)>>, SYSCALL>>
  BY DEF exit_syscall, syscall1
<1> QED  BY <1>1, Literals

\* The text of a message is its own: as long as counted, without a NUL, and from behind it
\* only what the escapes of a pasted literal bring.
Sound(s, n) ==
  /\ Len(Taken(s, n)) = n
  /\ \A j \in DOMAIN Taken(s, n) : Taken(s, n)[j] = 0 => prog = "MAIN" /\ j = 13
  /\ IF prog \in Pasted
     THEN /\ Len(Taken(s, n)) = Len(Line(text)) + Cardinality(Escapes(text))
          /\ \A j \in DOMAIN Taken(s, n) :
               IF j <= Len(Line(text)) THEN Taken(s, n)[j] = Line(text)[j]
               ELSE Taken(s, n)[j] = Behind
     ELSE Behind \notin Range(Taken(s, n))

LEMMA SendsSound ==
  ASSUME NEW fd, NEW s, NEW n, NEW res, Sound(s, n), Sends(Message(fd, s, n, res))
  PROVE  Proper
<1> DEFINE r == Message(fd, s, n, res)
<1>1. r.of = "str" /\ r.what = Taken(s, n) /\ r.n = n
  BY DEF Message
<1>2. Grown /\ out'[Len(out) + 1] = r
  BY DEF Sends
<1> HIDE DEF r
<1>3. Own(r)
  BY <1>1 DEF Own, Sound
<1>4. Ids(r)
  BY <1>1 DEF Ids
<1>5. Own(out'[Len(out) + 1]) /\ Ids(out'[Len(out) + 1])
  BY <1>2, <1>3, <1>4
<1> QED  BY <1>2, <1>5 DEF Proper

LEMMA SoundPrefix ==
  ASSUME NEW s, Terminated(s), NEW n \in 0 .. mystrlen(s), prog \notin Pasted
  PROVE  Sound(s, n)
<1>1. /\ Len(Taken(s, n)) = n /\ DOMAIN Taken(s, n) = 1 .. n
      /\ \A j \in 1 .. n : Taken(s, n)[j] # 0 /\ Taken(s, n)[j] # Behind
  BY Prefix
<1>2. Behind \notin Range(Taken(s, n))
  BY <1>1 DEF Range
<1> QED  BY <1>1, <1>2 DEF Sound

\* The line of a text is sent whole, and first.
LEMMA TakenLine ==
  ASSUME NEW s, Terminated(s)
  PROVE  LET w == Taken(Line(s), DBG_LEN(s))
         IN  /\ Len(w) = DBG_LEN(s) /\ DOMAIN w = 1 .. DBG_LEN(s)
             /\ Len(w) = Len(Line(s)) + Cardinality(Escapes(s))
             /\ \A j \in DOMAIN w : w[j] # 0
             /\ \A j \in DOMAIN w :
                  IF j <= Len(Line(s)) THEN w[j] = Line(s)[j] ELSE w[j] = Behind
<1> DEFINE l == Line(s)
<1> DEFINE n == DBG_LEN(s)
<1>1. Anys(l) /\ Len(l) \in Nat /\ \A j \in 1 .. Len(l) : l[j] # 0
  BY LineOf, Lengths
<1>2. n \in Nat /\ n = Len(l) + Cardinality(Escapes(s))
  BY Escaping
<1> HIDE DEF l, n
<1> DEFINE w == Taken(l, n)
<1>3. /\ Len(w) = n /\ DOMAIN w = 1 .. n
      /\ \A j \in 1 .. n : w[j] = IF j <= Len(l) THEN l[j] ELSE Behind
  BY <1>1, <1>2, TakenIs
<1> HIDE DEF w
<1>4. ASSUME NEW j \in DOMAIN w  PROVE w[j] # 0
  <2>1. CASE j <= Len(l)
    <3>1. j \in 1 .. Len(l) /\ w[j] = l[j]
      BY <1>1, <1>2, <1>3, <2>1
    <3> QED  BY <1>1, <3>1
  <2>2. CASE ~(j <= Len(l))
    BY <1>3, <2>2 DEF Behind
  <2> QED  BY <2>1, <2>2
<1>5. \A j \in DOMAIN w : IF j <= Len(l) THEN w[j] = l[j] ELSE w[j] = Behind
  BY <1>3
<1> QED  BY <1>2, <1>3, <1>4, <1>5 DEF l, n, w

LEMMA SoundLine ==
  ASSUME Terminated(text), prog \in Pasted
  PROVE  Sound(Line(text), DBG_LEN(text))
BY TakenLine DEF Sound

\* The same for the text of abort, which escapes nothing and so brings nothing with it.
LEMMA SoundLineOf ==
  ASSUME NEW s, Terminated(s), prog \in {"dbg2", "dbg3"} => s = text,
         prog = "abort" => s = aborted, prog \in {"abort", "dbg2", "dbg3"}
  PROVE  Sound(Line(s), DBG_LEN(s))
<1>1. CASE prog = "abort"
  <2> DEFINE w == Taken(Line(s), DBG_LEN(s))
  <2>1. Cardinality(Escapes(s)) = 0
    BY <1>1, AbortedIs, FS_EmptySet
  <2>2. Anys(Line(s)) /\ Len(Line(s)) \in Nat
    BY LineOf, Lengths
  <2>3. /\ Len(w) = DBG_LEN(s) /\ DOMAIN w = 1 .. Len(Line(s))
        /\ \A j \in DOMAIN w : w[j] # 0
        /\ \A j \in DOMAIN w : w[j] = Line(s)[j]
    BY <2>1, <2>2, TakenLine
  <2>4. \A j \in 1 .. Len(Line(s)) : Line(s)[j] # Behind
    BY LineBytes
  <2>5. Behind \notin Range(w)
    BY <2>3, <2>4 DEF Range
  <2>6. prog \notin Pasted
    BY <1>1 DEF Pasted
  <2> QED  BY <2>3, <2>5, <2>6 DEF Sound
<1>2. CASE prog \in {"dbg2", "dbg3"}
  BY <1>2, SoundLine DEF Pasted
<1> QED  BY <1>1, <1>2

LEMMA SoundHello ==
  ASSUME prog = "MAIN"
  PROVE  Sound(hello, 13)
<1> DEFINE s == Taken(hello, 13)
<1>1. Anys(hello) /\ 13 \in Nat /\ Len(hello) = 13 /\ hello \in Seq(Byte)
  BY HelloIs DEF Terminated
<1>2. Len(s) = 13 /\ DOMAIN s = 1 .. 13 /\ \A j \in 1 .. 13 : s[j] = hello[j]
  <2>1. /\ Len(Taken(hello, 13)) = 13 /\ DOMAIN Taken(hello, 13) = 1 .. 13
        /\ \A j \in 1 .. 13 :
             Taken(hello, 13)[j] = IF j <= Len(hello) THEN hello[j] ELSE Behind
    BY <1>1, TakenIs
  <2> QED  BY <1>1, <2>1
<1> HIDE DEF s
<1>3. ASSUME NEW j \in DOMAIN s, s[j] = 0  PROVE j = 13
  <2>1. j \in 1 .. 13 /\ hello[j] = 0
    BY <1>2, <1>3
  <2>2. j \notin 1 .. 12
    BY <2>1, HelloIs
  <2> QED  BY <2>1, <2>2
<1>4. \A j \in 1 .. 13 : hello[j] # Behind
  <2>1. \A j \in 1 .. 13 : hello[j] \in Byte
    BY <1>1, ElementOfSeq
  <2> QED  BY <2>1, Before
<1>5. Behind \notin Range(s)
  BY <1>2, <1>4 DEF Range
<1>6. prog \notin Pasted
  BY DEF Pasted
<1> QED  BY <1>2, <1>3, <1>5, <1>6 DEF Sound, s

LEMMA ToldIs ==
  ASSUME arch \in {"i386", "amd64"}, prog \notin {"dbg3", "dbg2", "cpuid", "M2write"}
  PROVE  Told = Telling
<1>1. {ARG(arch, k) : k \in 1..3} = {ARG(arch, 1), ARG(arch, 2), ARG(arch, 3)}
  OBVIOUS
<1>2. Told = {"eax"} \cup {ARG(arch, k) : k \in 1..3} \cup Lost
  BY DEF Told
<1> QED  BY <1>1, <1>2 DEF Telling

OneTable(fd, s, n) ==
  pc \in {1, 2, 3, 4, 5, 6} /\ Bare /\ Spared /\ Writing(1, fd, Str(s), n)
LEMMA OneWrite ==
  ASSUME Frame, how = << >>, Next, NEW fd, NEW s, NEW n, code = write(arch, fd, Str(s), n),
         Sound(s, n), prog \in {"stderr_write", "puts_inline", "dbg_inline"}, OneTable(fd, s, n)
  PROVE  Leads(OneTable(fd, s, n)')
<1> DEFINE buf == Str(s)
<1>1. /\ Len(code) = 5
      /\ code[1] = <<"li", buf, ARG(arch, 2)>> /\ code[2] = <<"li", W(n), ARG(arch, 3)>>
      /\ code[3] = <<"li", NR_write(arch), "eax">> /\ code[4] = <<"li", W(fd), ARG(arch, 1)>>
      /\ code[5] = SYSCALL
  BY WriteCode
<1> HIDE DEF buf
<1>2. IsWrite(1, fd, buf, n)
  BY <1>1 DEF IsWrite
<1>3. CASE pc = 6
  <2>1. Told = Telling
    BY ToldIs DEF Frame, Given
  <2>2. Fine /\ Ending
    BY <1>1, <1>3, <2>1, Returning DEF OneTable, Spared
  <2> QED  BY <2>2 DEF Leads
<1>4. CASE pc # 6
  <2>1. /\ pc \in {1, 1 + 1, 1 + 2, 1 + 3, 1 + 4} /\ 1 + 4 <= Len(code) /\ Len(code) \in Nat
        /\ 1 \in Nat /\ 1 >= 1
    BY <1>1, <1>4 DEF OneTable
  <2>2. /\ arch \in {"i386", "amd64"} /\ DOMAIN regs = Reg /\ Anys(out) /\ Spared
        /\ IsWrite(1, fd, Str(s), n) /\ Writing(1, fd, Str(s), n)
    BY <1>2 DEF Frame, Given, OneTable, buf
  <2>3. /\ Same /\ UNCHANGED <<stack, how>> /\ DOMAIN regs' = Reg /\ pc' = pc + 1
        /\ Spared' /\ Writing(1, fd, Str(s), n)'
        /\ pc = 1 + 4 => \E res : Sends(Message(fd, s, n, res))
        /\ pc # 1 + 4 => Quiet
    BY <2>1, <2>2, WriteStep
  <2>4. Proper
    <3>1. CASE pc = 5
      <4>1. PICK res : Sends(Message(fd, s, n, res))
        BY <2>3, <3>1
      <4> QED  BY <4>1, SendsSound
    <3>2. CASE pc # 5
      BY <2>3, <3>2 DEF Proper
    <3> QED  BY <3>1, <3>2
  <2>5. OneTable(fd, s, n)'
    BY <2>1, <2>3 DEF OneTable, Bare
  <2> QED  BY <2>3, <2>4, <2>5 DEF Fine, Frame, Leads
<1> QED  BY <1>3, <1>4

LEMMA WriteExitCode ==
  ASSUME NEW fd, NEW s, NEW n, code = write(arch, fd, Str(s), n) \o exit_syscall(arch, 0)
  PROVE  Len(code) = 8 /\ IsWrite(1, fd, Str(s), n) /\ IsExit(6, 0)
<1> DEFINE buf == Str(s)
<1> DEFINE c == write(arch, fd, buf, n)
<1> DEFINE e == exit_syscall(arch, 0)
<1>1. /\ Anys(c) /\ Len(c) = 5
      /\ c[1] = <<"li", buf, ARG(arch, 2)>> /\ c[2] = <<"li", W(n), ARG(arch, 3)>>
      /\ c[3] = <<"li", NR_write(arch), "eax">> /\ c[4] = <<"li", W(fd), ARG(arch, 1)>>
      /\ c[5] = SYSCALL
  BY WriteCode
<1>2. /\ Anys(e) /\ Len(e) = 3
      /\ e[1] = <<"li", NR_exit(arch), "eax">> /\ e[2] = <<"li", W(0), ARG(arch, 1)>>
      /\ e[3] = SYSCALL
  BY ExitCode
<1>3. code = c \o e
  OBVIOUS
<1> HIDE DEF buf, c, e
<1>4. /\ Len(code) = Len(c) + Len(e)
      /\ \A k \in 1 .. Len(c) : code[k] = c[k]
      /\ \A k \in 1 .. Len(e) : code[Len(c) + k] = e[k]
  <2>1. Anys(c) /\ Anys(e)
    BY <1>1, <1>2
  <2>2. /\ Len(c \o e) = Len(c) + Len(e)
        /\ \A k \in 1 .. Len(c) : (c \o e)[k] = c[k]
        /\ \A k \in 1 .. Len(e) : (c \o e)[Len(c) + k] = e[k]
    BY <2>1, Joining
  <2> QED  BY <1>3, <2>2
<1>5. /\ code[1] = c[1] /\ code[2] = c[2] /\ code[3] = c[3] /\ code[4] = c[4] /\ code[5] = c[5]
      /\ code[6] = e[1] /\ code[7] = e[2] /\ code[8] = e[3] /\ Len(code) = 8
  <2>1. Len(c) = 5 /\ Len(e) = 3
    BY <1>1, <1>2
  <2>2. /\ \A k \in {1, 2, 3, 4, 5} : k \in 1 .. Len(c)
        /\ \A k \in {1, 2, 3} : k \in 1 .. Len(e)
    BY <2>1
  <2>3. code[6] = e[1] /\ code[7] = e[2] /\ code[8] = e[3] /\ Len(code) = 8
    BY <1>4, <2>1, <2>2
  <2>4. /\ code[1] = c[1] /\ code[2] = c[2] /\ code[3] = c[3]
        /\ code[4] = c[4] /\ code[5] = c[5]
    BY <1>4, <2>2
  <2> QED  BY <2>3, <2>4
<1>6. IsWrite(1, fd, buf, n)
  BY <1>1, <1>5, SMTT(30) DEF IsWrite
<1>7. IsExit(6, 0)
  BY <1>2, <1>5, SMTT(30) DEF IsExit
<1> QED  BY <1>5, <1>6, <1>7 DEF buf

TwoTable(fd, s, n) ==
  /\ pc \in {1, 2, 3, 4, 5, 6, 7, 8} /\ Bare /\ (pc <= 6 => Spared)
  /\ Writing(1, fd, Str(s), n) /\ Exiting(6, 0)
LEMMA WriteExit ==
  ASSUME Frame, how = << >>, Next, NEW fd, NEW s, NEW n,
         code = write(arch, fd, Str(s), n) \o exit_syscall(arch, 0),
         Sound(s, n), prog \in {"MAIN", "clang_main"}, TwoTable(fd, s, n)
  PROVE  Leads(TwoTable(fd, s, n)')
<1>1. Len(code) = 8 /\ IsWrite(1, fd, Str(s), n) /\ IsExit(6, 0)
  BY WriteExitCode
<1>2. CASE pc \in {1, 2, 3, 4, 5}
  <2>1. /\ pc \in {1, 1 + 1, 1 + 2, 1 + 3, 1 + 4} /\ 1 + 4 <= Len(code) /\ Len(code) \in Nat
        /\ 1 \in Nat /\ 1 >= 1
    BY <1>1, <1>2
  <2>2. /\ arch \in {"i386", "amd64"} /\ DOMAIN regs = Reg /\ Anys(out) /\ Spared
        /\ IsWrite(1, fd, Str(s), n) /\ Writing(1, fd, Str(s), n)
    BY <1>1, <1>2 DEF Frame, Given, TwoTable
  <2>3. /\ Same /\ UNCHANGED <<stack, how>> /\ DOMAIN regs' = Reg /\ pc' = pc + 1
        /\ Spared' /\ Writing(1, fd, Str(s), n)'
        /\ pc = 1 + 4 => \E res : Sends(Message(fd, s, n, res))
        /\ pc # 1 + 4 => Quiet
    BY <2>1, <2>2, WriteStep
  <2>4. Proper
    <3>1. CASE pc = 5
      <4>1. PICK res : Sends(Message(fd, s, n, res))
        BY <2>3, <3>1
      <4> QED  BY <4>1, SendsSound
    <3>2. CASE pc # 5
      BY <2>3, <3>2 DEF Proper
    <3> QED  BY <3>1, <3>2
  <2>5. Exiting(6, 0)'
    BY <1>2, <2>3 DEF Exiting
  <2>6. TwoTable(fd, s, n)'
    BY <1>2, <2>3, <2>5 DEF TwoTable, Bare
  <2> QED  BY <2>3, <2>4, <2>6 DEF Fine, Frame, Leads
<1>3. CASE pc \in {6, 7, 8}
  <2>1. /\ pc \in {6, 6 + 1, 6 + 2} /\ 6 + 2 <= Len(code) /\ Len(code) \in Nat
        /\ 6 \in Nat /\ 6 >= 1
    BY <1>1, <1>3
  <2>2. /\ arch \in {"i386", "amd64"} /\ DOMAIN regs = Reg /\ IsExit(6, 0) /\ Exiting(6, 0)
    BY <1>1 DEF Frame, Given, TwoTable
  <2>3. /\ Same /\ Quiet /\ UNCHANGED stack /\ DOMAIN regs' = Reg
        /\ IF pc = 6 + 2 THEN how' = <<"exit", W(0)>>
           ELSE how' = how /\ pc' = pc + 1 /\ Exiting(6, 0)'
    BY <2>1, <2>2, ExitStep
  <2>4. CASE pc = 8
    <3>1. how' = <<"exit", W(0)>> /\ Same /\ Quiet /\ UNCHANGED stack /\ DOMAIN regs' = Reg
      BY <2>3, <2>4
    <3>2. Fine /\ Ending
      BY <3>1, Leaving
    <3> QED  BY <3>2 DEF Leads
  <2>5. CASE pc # 8
    <3>1. how' = how /\ pc' = pc + 1 /\ Exiting(6, 0)' /\ pc' \in {7, 8}
      BY <1>3, <2>3, <2>5
    <3>2. Writing(1, fd, Str(s), n)'
      BY <3>1 DEF Writing
    <3>3. TwoTable(fd, s, n)'
      BY <2>3, <3>1, <3>2 DEF TwoTable, Bare
    <3> QED  BY <2>3, <3>1, <3>3 DEF Fine, Frame, Leads, Proper
  <2> QED  BY <2>4, <2>5
<1> QED  BY <1>2, <1>3 DEF TwoTable

SputsTable(s) ==
  /\ pc \in {1, 2, 3, 4, 5, 6, 7, 8, 9, 10, 11} /\ Bare /\ Spared
  /\ Writing(1, 2, Str(s), mystrlen(s)) /\ Writing(6, 2, Str(<<10, 0>>), 1)
LEMMA TwoWrites ==
  ASSUME Frame, how = << >>, Next, NEW s, Terminated(s), arch = "i386",
         prog = "sputs", code = sputs(s), SputsTable(s)
  PROVE  Leads(SputsTable(s)')
<1> DEFINE n == mystrlen(s)
<1> DEFINE nl == <<10, 0>>
<1> DEFINE c == write(arch, 2, Str(s), n)
<1> DEFINE e == write(arch, 2, Str(nl), 1)
<1>1. /\ Anys(c) /\ Len(c) = 5
      /\ c[1] = <<"li", Str(s), ARG(arch, 2)>> /\ c[2] = <<"li", W(n), ARG(arch, 3)>>
      /\ c[3] = <<"li", NR_write(arch), "eax">> /\ c[4] = <<"li", W(2), ARG(arch, 1)>>
      /\ c[5] = SYSCALL
  BY WriteCode
<1>2. /\ Anys(e) /\ Len(e) = 5
      /\ e[1] = <<"li", Str(nl), ARG(arch, 2)>> /\ e[2] = <<"li", W(1), ARG(arch, 3)>>
      /\ e[3] = <<"li", NR_write(arch), "eax">> /\ e[4] = <<"li", W(2), ARG(arch, 1)>>
      /\ e[5] = SYSCALL
  BY WriteCode
<1>3. code = c \o e
  BY NewlineIs DEF sputs, sputs2
<1> HIDE DEF c, e, n, nl
<1>4. /\ Len(code) = Len(c) + Len(e)
      /\ \A k \in 1 .. Len(c) : code[k] = c[k]
      /\ \A k \in 1 .. Len(e) : code[Len(c) + k] = e[k]
  <2>1. Anys(c) /\ Anys(e)
    BY <1>1, <1>2
  <2> QED  BY <1>3, <2>1, Joined
<1>5. /\ code[1] = c[1] /\ code[2] = c[2] /\ code[3] = c[3] /\ code[4] = c[4] /\ code[5] = c[5]
      /\ code[6] = e[1] /\ code[7] = e[2] /\ code[8] = e[3] /\ code[9] = e[4]
      /\ code[10] = e[5] /\ Len(code) = 10
  <2>1. Len(c) = 5 /\ Len(e) = 5
    BY <1>1, <1>2
  <2> QED  BY <1>4, <2>1
<1>6. IsWrite(1, 2, Str(s), n)
  BY <1>1, <1>5 DEF IsWrite
<1>7. IsWrite(6, 2, Str(nl), 1)
  BY <1>2, <1>5 DEF IsWrite
<1>8. Sound(s, n)
  <2>1. n \in 0 .. mystrlen(s)
    BY Strlen DEF n
  <2> QED  BY <2>1, SoundPrefix DEF Pasted
<1>9. Sound(nl, 1)
  <2>1. 1 \in 0 .. mystrlen(nl) /\ Terminated(nl)
    BY NewlineIs DEF nl
  <2> QED  BY <2>1, SoundPrefix DEF Pasted
<1>10. /\ arch \in {"i386", "amd64"} /\ DOMAIN regs = Reg /\ Anys(out) /\ Spared
       /\ Writing(1, 2, Str(s), n) /\ Writing(6, 2, Str(nl), 1)
       /\ Len(code) \in Nat /\ 1 + 4 <= Len(code) /\ 6 + 4 <= Len(code)
       /\ 1 \in Nat /\ 1 >= 1 /\ 6 \in Nat /\ 6 >= 1
  BY <1>5, SMTT(30) DEF Frame, Given, SputsTable, n, nl
<1>11. CASE pc \in {1, 2, 3, 4, 5}
  <2>1. pc \in {1, 1 + 1, 1 + 2, 1 + 3, 1 + 4}
    BY <1>11
  <2>2. /\ Same /\ UNCHANGED <<stack, how>> /\ DOMAIN regs' = Reg /\ pc' = pc + 1
        /\ Spared' /\ Writing(1, 2, Str(s), n)'
        /\ pc = 1 + 4 => \E res : Sends(Message(2, s, n, res))
        /\ pc # 1 + 4 => Quiet
    BY <1>6, <1>10, <2>1, WriteStep
  <2>3. Proper
    <3>1. CASE pc = 5
      <4>1. PICK res : Sends(Message(2, s, n, res))
        BY <2>2, <3>1
      <4> QED  BY <1>8, <4>1, SendsSound
    <3>2. CASE pc # 5
      BY <2>2, <3>2 DEF Proper
    <3> QED  BY <3>1, <3>2
  <2>4. Writing(6, 2, Str(nl), 1)'
    BY <1>11, <2>2 DEF Writing
  <2>5. SputsTable(s)'
    BY <1>11, <2>2, <2>4 DEF SputsTable, Bare, n, nl
  <2> QED  BY <2>2, <2>3, <2>5 DEF Fine, Frame, Leads
<1>12. CASE pc \in {6, 7, 8, 9, 10}
  <2>1. pc \in {6, 6 + 1, 6 + 2, 6 + 3, 6 + 4}
    BY <1>12
  <2>2. /\ Same /\ UNCHANGED <<stack, how>> /\ DOMAIN regs' = Reg /\ pc' = pc + 1
        /\ Spared' /\ Writing(6, 2, Str(nl), 1)'
        /\ pc = 6 + 4 => \E res : Sends(Message(2, nl, 1, res))
        /\ pc # 6 + 4 => Quiet
    BY <1>7, <1>10, <2>1, WriteStep
  <2>3. Proper
    <3>1. CASE pc = 10
      <4>1. PICK res : Sends(Message(2, nl, 1, res))
        BY <2>2, <3>1
      <4> QED  BY <1>9, <4>1, SendsSound
    <3>2. CASE pc # 10
      BY <2>2, <3>2 DEF Proper
    <3> QED  BY <3>1, <3>2
  <2>4. Writing(1, 2, Str(s), n)'
    BY <1>12, <2>2 DEF Writing
  <2>5. SputsTable(s)'
    BY <1>12, <2>2, <2>4 DEF SputsTable, Bare, n, nl
  <2> QED  BY <2>2, <2>3, <2>5 DEF Fine, Frame, Leads
<1>13. CASE pc = 11
  <2>1. Told = Telling
    BY ToldIs DEF Frame, Given
  <2>2. pc = Len(code) + 1 /\ Len(code) \in Nat
    BY <1>5, <1>13
  <2>3. Fine /\ Ending
    BY <2>1, <2>2, Returning DEF SputsTable, Spared
  <2> QED  BY <2>3 DEF Leads
<1> QED  BY <1>11, <1>12, <1>13 DEF SputsTable

-----------------------------------------------------------------------------
(* One instruction that goes on to the next one.                           *)

LEMMA Onward ==
  ASSUME Frame, how = << >>, Stepped, DOMAIN regs' = Reg, Anys(stack')
  PROVE  Fine /\ how' = << >>
BY DEF Frame, Stepped, Fine, Same, Proper, Quiet

LEMMA PushAt ==
  ASSUME Frame, how = << >>, Next, NEW v, Ins(<<"push", v, 0>>)
  PROVE  /\ Fine /\ how' = << >> /\ pc' = pc + 1 /\ entry' = entry /\ arch' = arch /\ regs' = regs
         /\ Len(stack') = Len(stack) + 1 /\ stack'[Len(stack) + 1] = v
         /\ \A j \in 1 .. Len(stack) : stack'[j] = stack[j]
<1>1. /\ Stepped /\ UNCHANGED <<regs, sf>> /\ Anys(stack') /\ Len(stack') = Len(stack) + 1
      /\ \A k \in 1 .. Len(stack) : stack'[k] = stack[k]
      /\ stack'[Len(stack) + 1] = v
  BY DoPush DEF Frame
<1>2. Fine /\ how' = << >>
  BY <1>1, Onward DEF Frame
<1> QED  BY <1>1, <1>2 DEF Stepped

LEMMA PushRAt ==
  ASSUME Frame, how = << >>, Next, NEW r, Ins(<<"pushr", r, 0>>)
  PROVE  /\ Fine /\ how' = << >> /\ pc' = pc + 1 /\ entry' = entry /\ arch' = arch /\ regs' = regs
         /\ Len(stack') = Len(stack) + 1 /\ stack'[Len(stack) + 1] = regs[r]
         /\ \A j \in 1 .. Len(stack) : stack'[j] = stack[j]
<1>1. /\ Stepped /\ UNCHANGED <<regs, sf>> /\ Anys(stack') /\ Len(stack') = Len(stack) + 1
      /\ \A k \in 1 .. Len(stack) : stack'[k] = stack[k]
      /\ stack'[Len(stack) + 1] = regs[r]
  BY DoPushR DEF Frame
<1>2. Fine /\ how' = << >>
  BY <1>1, Onward DEF Frame
<1> QED  BY <1>1, <1>2 DEF Stepped

LEMMA PopAt ==
  ASSUME Frame, how = << >>, Next, NEW r, Ins(<<"pop", r, 0>>), Len(stack) > 0
  PROVE  /\ Fine /\ how' = << >> /\ pc' = pc + 1 /\ entry' = entry /\ arch' = arch
         /\ Len(stack') = Len(stack) - 1 /\ regs' = [regs EXCEPT ![r] = stack[Len(stack)]]
         /\ \A j \in 1 .. Len(stack) - 1 : stack'[j] = stack[j]
<1>1. /\ Stepped /\ UNCHANGED sf /\ Anys(stack') /\ Len(stack') = Len(stack) - 1
      /\ \A k \in 1 .. Len(stack) - 1 : stack'[k] = stack[k]
      /\ regs' = [regs EXCEPT ![r] = stack[Len(stack)]]
  BY DoPop DEF Frame
<1>2. Fine /\ how' = << >>
  BY <1>1, Onward DEF Frame
<1> QED  BY <1>1, <1>2 DEF Stepped

-----------------------------------------------------------------------------
(* The programs that only exit.                                            *)

NonzeroTable ==
  /\ pc \in {1, 2, 3, 4}
  /\ pc = 1 => Len(stack) = 1
  /\ pc = 2 => Len(stack) = 2 /\ stack[2] = NR_exit(arch)
  /\ pc \in {3, 4} => regs["eax"] = NR_exit(arch)
  /\ pc = 4 => regs[ARG(arch, 1)] = NR_exit(arch)
LEMMA NonzeroStep ==
  ASSUME Frame, how = << >>, Next, prog = "exit_nonzero",
         arch \in {"i386", "amd64"}, code = exit_nonzero(arch), NonzeroTable
  PROVE  Leads(NonzeroTable')
<1>n. Len(code) = 4
  BY DEF exit_nonzero, exit_nonzero_syscall, push, pop
<1>c. /\ code[1] = <<"push", NR_exit(arch), 0>> /\ code[2] = <<"pop", "eax", 0>>
      /\ code[3] = <<"mov", "eax", ARG(arch, 1)>> /\ code[4] = SYSCALL
  BY DEF exit_nonzero, exit_nonzero_syscall, push, pop
<1>a. /\ how = << >> /\ DOMAIN regs = Reg /\ Anys(stack) /\ Anys(out)
      /\ Len(code) \in Nat /\ NonzeroTable
  BY <1>n DEF Frame
<1>1. CASE pc = 1
  <2>1. Ins(<<"push", NR_exit(arch), 0>>)
    BY <1>a, <1>n, <1>c, <1>1 DEF Ins
  <2>2. Len(stack) = 1
    BY <1>a, <1>1 DEF NonzeroTable, Bare
  <2>3. /\ Fine /\ how' = << >> /\ pc' = pc + 1 /\ entry' = entry /\ arch' = arch /\ Len(stack') = 2
        /\ regs' = regs /\ stack'[2] = NR_exit(arch) /\ stack'[1] = stack[1]
    BY <2>1, <2>2, PushAt
  <2>4. NonzeroTable'
    BY <1>a, <1>1, <2>3 DEF Reg, NonzeroTable
  <2> QED  BY <2>3, <2>4 DEF Leads
<1>2. CASE pc = 2
  <2>1. Ins(<<"pop", "eax", 0>>)
    BY <1>a, <1>n, <1>c, <1>2 DEF Ins
  <2>2. Len(stack) = 2
    BY <1>a, <1>2 DEF NonzeroTable, Bare
  <2>3. /\ Fine /\ how' = << >> /\ pc' = pc + 1 /\ entry' = entry /\ arch' = arch /\ Len(stack') = 1
        /\ regs' = [regs EXCEPT !["eax"] = stack[2]] /\ stack'[1] = stack[1]
    BY <2>1, <2>2, PopAt
  <2>4. NonzeroTable'
    BY <1>a, <1>2, <2>3, ArgsAre DEF Reg, NonzeroTable
  <2> QED  BY <2>3, <2>4 DEF Leads
<1>3. CASE pc = 3
  <2>1. Ins(<<"mov", "eax", ARG(arch, 1)>>)
    BY <1>a, <1>n, <1>c, <1>3 DEF Ins
  <2>2. Stepped /\ UNCHANGED <<stack, sf>> /\ regs' = [regs EXCEPT ![ARG(arch, 1)] = regs["eax"]]
    BY <2>1, DoMov
  <2>3. NonzeroTable'
    BY <1>a, <1>3, <2>2, ArgsAre DEF Stepped, Reg, NonzeroTable
  <2> QED  BY <1>a, <2>2, <2>3, Onward DEF Leads
<1>4. CASE pc = 4
  <2>1. Ins(SYSCALL)
    BY <1>a, <1>n, <1>c, <1>4 DEF Ins
  <2>2. regs["eax"] = NR_exit(arch) /\ regs[ARG(arch, 1)] = NR_exit(arch)
    BY <1>a, <1>4 DEF NonzeroTable, NR_exit
  <2>3. /\ how' = <<"exit", regs[ARG(arch, 1)]>>
        /\ UNCHANGED <<prog, text, vm, arch, code, entry, pc, regs, stack, sf, out>>
    BY <2>1, <2>2, DoExit
  <2>4. how' = <<"exit", NR_exit(arch)>> /\ Same /\ Quiet /\ UNCHANGED stack /\ DOMAIN regs' = Reg
    BY <1>a, <2>2, <2>3 DEF Same, Quiet
  <2>5. Fine /\ Ending
    BY <2>4, Leaving DEF NR_exit, W
  <2> QED  BY <2>5 DEF Leads
<1> QED  BY <1>a, <1>1, <1>2, <1>3, <1>4 DEF NonzeroTable

ZeroTable ==
  /\ pc \in {1, 2, 3, 4}
  /\ pc = 1 => Len(stack) = 1
  /\ pc = 2 => Len(stack) = 2 /\ stack[2] = NR_exit(arch)
  /\ pc \in {3, 4} => regs["eax"] = NR_exit(arch)
  /\ pc = 4 => regs[ARG(arch, 1)] = W(0)
LEMMA ZeroStep ==
  ASSUME Frame, how = << >>, Next, prog = "exit_zero",
         arch \in {"i386", "amd64"}, code = exit_zero_syscall(arch), ZeroTable
  PROVE  Leads(ZeroTable')
<1>n. Len(code) = 4
  BY DEF exit_zero_syscall, push, pop
<1>c. /\ code[1] = <<"push", NR_exit(arch), 0>> /\ code[2] = <<"pop", "eax", 0>>
      /\ code[3] = <<"xor", ARG(arch, 1), 0>> /\ code[4] = SYSCALL
  BY DEF exit_zero_syscall, push, pop
<1>a. /\ how = << >> /\ DOMAIN regs = Reg /\ Anys(stack) /\ Anys(out)
      /\ Len(code) \in Nat /\ ZeroTable
  BY <1>n DEF Frame
<1>1. CASE pc = 1
  <2>1. Ins(<<"push", NR_exit(arch), 0>>)
    BY <1>a, <1>n, <1>c, <1>1 DEF Ins
  <2>2. Len(stack) = 1
    BY <1>a, <1>1 DEF ZeroTable, Bare
  <2>3. /\ Fine /\ how' = << >> /\ pc' = pc + 1 /\ entry' = entry /\ arch' = arch /\ Len(stack') = 2
        /\ regs' = regs /\ stack'[2] = NR_exit(arch) /\ stack'[1] = stack[1]
    BY <2>1, <2>2, PushAt
  <2>4. ZeroTable'
    BY <1>a, <1>1, <2>3 DEF Reg, ZeroTable
  <2> QED  BY <2>3, <2>4 DEF Leads
<1>2. CASE pc = 2
  <2>1. Ins(<<"pop", "eax", 0>>)
    BY <1>a, <1>n, <1>c, <1>2 DEF Ins
  <2>2. Len(stack) = 2
    BY <1>a, <1>2 DEF ZeroTable, Bare
  <2>3. /\ Fine /\ how' = << >> /\ pc' = pc + 1 /\ entry' = entry /\ arch' = arch /\ Len(stack') = 1
        /\ regs' = [regs EXCEPT !["eax"] = stack[2]] /\ stack'[1] = stack[1]
    BY <2>1, <2>2, PopAt
  <2>4. ZeroTable'
    BY <1>a, <1>2, <2>3, ArgsAre DEF Reg, ZeroTable
  <2> QED  BY <2>3, <2>4 DEF Leads
<1>3. CASE pc = 3
  <2>1. Ins(<<"xor", ARG(arch, 1), 0>>)
    BY <1>a, <1>n, <1>c, <1>3 DEF Ins
  <2>2. Stepped /\ UNCHANGED <<stack, sf>> /\ regs' = [regs EXCEPT ![ARG(arch, 1)] = W(0)]
    BY <2>1, DoXor
  <2>3. ZeroTable'
    BY <1>a, <1>3, <2>2, ArgsAre DEF Stepped, Reg, ZeroTable
  <2> QED  BY <1>a, <2>2, <2>3, Onward DEF Leads
<1>4. CASE pc = 4
  <2>1. Ins(SYSCALL)
    BY <1>a, <1>n, <1>c, <1>4 DEF Ins
  <2>2. regs["eax"] = NR_exit(arch) /\ regs[ARG(arch, 1)] = W(0)
    BY <1>a, <1>4 DEF ZeroTable, NR_exit
  <2>3. /\ how' = <<"exit", regs[ARG(arch, 1)]>>
        /\ UNCHANGED <<prog, text, vm, arch, code, entry, pc, regs, stack, sf, out>>
    BY <2>1, <2>2, DoExit
  <2>4. how' = <<"exit", W(0)>> /\ Same /\ Quiet /\ UNCHANGED stack /\ DOMAIN regs' = Reg
    BY <1>a, <2>2, <2>3 DEF Same, Quiet
  <2>5. Fine /\ Ending
    BY <2>4, Leaving
  <2> QED  BY <2>5 DEF Leads
<1> QED  BY <1>a, <1>1, <1>2, <1>3, <1>4 DEF ZeroTable

DontcareTable ==
  /\ pc \in {1, 2, 3} /\ regs[ARG(arch, 1)] = entry[ARG(arch, 1)]
  /\ pc = 1 => Len(stack) = 1
  /\ pc = 2 => Len(stack) = 2 /\ stack[2] = NR_exit(arch)
  /\ pc = 3 => regs["eax"] = NR_exit(arch)
LEMMA DontcareStep ==
  ASSUME Frame, how = << >>, Next, prog = "exit_dontcare",
         arch \in {"i386", "amd64"}, code = exit_dontcare_syscall(arch), DontcareTable
  PROVE  Leads(DontcareTable')
<1>n. Len(code) = 3
  BY DEF exit_dontcare_syscall, push, pop
<1>c. /\ code[1] = <<"push", NR_exit(arch), 0>> /\ code[2] = <<"pop", "eax", 0>>
      /\ code[3] = SYSCALL
  BY DEF exit_dontcare_syscall, push, pop
<1>a. /\ how = << >> /\ DOMAIN regs = Reg /\ Anys(stack) /\ Anys(out)
      /\ Len(code) \in Nat /\ DontcareTable
  BY <1>n DEF Frame
<1>1. CASE pc = 1
  <2>1. Ins(<<"push", NR_exit(arch), 0>>)
    BY <1>a, <1>n, <1>c, <1>1 DEF Ins
  <2>2. Len(stack) = 1
    BY <1>a, <1>1 DEF DontcareTable, Bare
  <2>3. /\ Fine /\ how' = << >> /\ pc' = pc + 1 /\ entry' = entry /\ arch' = arch /\ Len(stack') = 2
        /\ regs' = regs /\ stack'[2] = NR_exit(arch) /\ stack'[1] = stack[1]
    BY <2>1, <2>2, PushAt
  <2>4. DontcareTable'
    BY <1>a, <1>1, <2>3 DEF Reg, DontcareTable
  <2> QED  BY <2>3, <2>4 DEF Leads
<1>2. CASE pc = 2
  <2>1. Ins(<<"pop", "eax", 0>>)
    BY <1>a, <1>n, <1>c, <1>2 DEF Ins
  <2>2. Len(stack) = 2
    BY <1>a, <1>2 DEF DontcareTable, Bare
  <2>3. /\ Fine /\ how' = << >> /\ pc' = pc + 1 /\ entry' = entry /\ arch' = arch /\ Len(stack') = 1
        /\ regs' = [regs EXCEPT !["eax"] = stack[2]] /\ stack'[1] = stack[1]
    BY <2>1, <2>2, PopAt
  <2>4. DontcareTable'
    BY <1>a, <1>2, <2>3, ArgsAre DEF Reg, DontcareTable
  <2> QED  BY <2>3, <2>4 DEF Leads
<1>3. CASE pc = 3
  <2>1. Ins(SYSCALL)
    BY <1>a, <1>n, <1>c, <1>3 DEF Ins
  <2>2. regs["eax"] = NR_exit(arch) /\ regs[ARG(arch, 1)] = entry[ARG(arch, 1)]
    BY <1>a, <1>3 DEF DontcareTable, NR_exit
  <2>3. /\ how' = <<"exit", regs[ARG(arch, 1)]>>
        /\ UNCHANGED <<prog, text, vm, arch, code, entry, pc, regs, stack, sf, out>>
    BY <2>1, <2>2, DoExit
  <2>4. /\ how' = <<"exit", entry[ARG(arch, 1)]>> /\ Same /\ Quiet /\ UNCHANGED stack
        /\ DOMAIN regs' = Reg
    BY <1>a, <2>2, <2>3 DEF Same, Quiet
  <2>5. Fine /\ Ending
    BY <2>4, Leaving
  <2> QED  BY <2>5 DEF Leads
<1> QED  BY <1>a, <1>1, <1>2, <1>3 DEF DontcareTable

ClangZeroTable ==
  /\ pc \in {1, 2, 3, 4}
  /\ pc \in {2, 3} => regs["eax"] = W(0)
  /\ pc \in {3, 4} => regs["ebx"] = W(0)
  /\ pc = 4 => regs["eax"] = W(1)
LEMMA ClangZeroStep ==
  ASSUME Frame, how = << >>, Next, prog = "clang_zero", arch = "i386",
         code = clang_exit_zero, ClangZeroTable
  PROVE  Leads(ClangZeroTable')
<1>n. Len(code) = 4
  BY DEF clang_exit_zero
<1>c. /\ code[1] = <<"xor", "eax", 0>> /\ code[2] = <<"xor", "ebx", 0>>
      /\ code[3] = <<"inc", "eax", 0>> /\ code[4] = SYSCALL
  BY DEF clang_exit_zero
<1>a. /\ how = << >> /\ DOMAIN regs = Reg /\ Anys(stack) /\ Anys(out)
      /\ Len(code) \in Nat /\ ClangZeroTable
  BY <1>n DEF Frame
<1>1. CASE pc = 1
  <2>1. Ins(<<"xor", "eax", 0>>)
    BY <1>a, <1>n, <1>c, <1>1 DEF Ins
  <2>2. Stepped /\ UNCHANGED <<stack, sf>> /\ regs' = [regs EXCEPT !["eax"] = W(0)]
    BY <2>1, DoXor
  <2>3. ClangZeroTable'
    BY <1>a, <1>1, <2>2, ArgsAre DEF Stepped, Reg, ClangZeroTable, W
  <2> QED  BY <1>a, <2>2, <2>3, Onward DEF Leads
<1>2. CASE pc = 2
  <2>1. Ins(<<"xor", "ebx", 0>>)
    BY <1>a, <1>n, <1>c, <1>2 DEF Ins
  <2>2. Stepped /\ UNCHANGED <<stack, sf>> /\ regs' = [regs EXCEPT !["ebx"] = W(0)]
    BY <2>1, DoXor
  <2>3. ClangZeroTable'
    BY <1>a, <1>2, <2>2, ArgsAre DEF Stepped, Reg, ClangZeroTable, W
  <2> QED  BY <1>a, <2>2, <2>3, Onward DEF Leads
<1>3. CASE pc = 3
  <2>1. Ins(<<"inc", "eax", 0>>)
    BY <1>a, <1>n, <1>c, <1>3 DEF Ins
  <2>2. /\ Stepped /\ UNCHANGED <<stack, sf>>
        /\ regs' = [regs EXCEPT !["eax"] = <<regs["eax"][1], regs["eax"][2] + 1>>]
    BY <2>1, DoInc
  <2>3. ClangZeroTable'
    BY <1>a, <1>3, <2>2, ArgsAre DEF Stepped, Reg, ClangZeroTable, W
  <2> QED  BY <1>a, <2>2, <2>3, Onward DEF Leads
<1>4. CASE pc = 4
  <2>1. Ins(SYSCALL)
    BY <1>a, <1>n, <1>c, <1>4 DEF Ins
  <2>2. regs["eax"] = NR_exit(arch) /\ regs[ARG(arch, 1)] = W(0)
    BY <1>a, <1>4 DEF ClangZeroTable, NR_exit, ARG
  <2>3. /\ how' = <<"exit", regs[ARG(arch, 1)]>>
        /\ UNCHANGED <<prog, text, vm, arch, code, entry, pc, regs, stack, sf, out>>
    BY <2>1, <2>2, DoExit
  <2>4. how' = <<"exit", W(0)>> /\ Same /\ Quiet /\ UNCHANGED stack /\ DOMAIN regs' = Reg
    BY <1>a, <2>2, <2>3 DEF Same, Quiet
  <2>5. Fine /\ Ending
    BY <2>4, Leaving
  <2> QED  BY <2>5 DEF Leads
<1> QED  BY <1>a, <1>1, <1>2, <1>3, <1>4 DEF ClangZeroTable

-----------------------------------------------------------------------------
(* The writes of the other snippets: a string, or words of the stack.      *)

LEMMA SaysString ==
  ASSUME Frame, how = << >>, Next, Ins(SYSCALL), regs["eax"] = NR_write(arch),
         NEW fd, NEW s, NEW n, regs[ARG(arch, 1)] = W(fd), regs[ARG(arch, 2)] = Str(s),
         regs[ARG(arch, 3)] = W(n), Sound(s, n)
  PROVE  /\ Fine /\ how' = << >> /\ pc' = pc + 1 /\ UNCHANGED <<stack, sf>>
         /\ \A r \in Reg \ ({"eax"} \cup Lost) : regs'[r] = regs[r]
<1>1. Anys(out) /\ Anys(stack)
  BY DEF Frame
<1>2. PICK res \in {regs[ARG(arch, 3)], W(1), <<65535, 65527>>} :
         /\ pc' = pc + 1 /\ UNCHANGED <<prog, text, vm, arch, code, entry, stack, sf, how>>
         /\ Anys(out') /\ Len(out') = Len(out) + 1
         /\ \A j \in 1 .. Len(out) : out'[j] = out[j]
         /\ out'[Len(out) + 1] = Sent(res)
         /\ DOMAIN regs' = Reg /\ regs'["eax"] = res
         /\ \A r \in Reg \ ({"eax"} \cup Lost) : regs'[r] = regs[r]
  BY <1>1, DoWrite
<1>3. Sent(res) = Message(fd, s, n, res)
  BY DEF Sent, Bytes, Arg, Str, W, Message
<1>4. Sends(Message(fd, s, n, res))
  BY <1>2, <1>3 DEF Sends, Grown
<1>5. Proper
  BY <1>4, SendsSound
<1> QED  BY <1>1, <1>2, <1>5 DEF Fine, Same

Words(e, m) == [k \in 1 .. m |-> stack[e + 1 - k]]
LEMMA SaysWords ==
  ASSUME Frame, how = << >>, Next, Ins(SYSCALL), regs["eax"] = NR_write(arch),
         NEW fd, NEW e, NEW n, NEW m, regs[ARG(arch, 1)] = W(fd), regs[ARG(arch, 2)] = <<"esp", e, 0>>,
         regs[ARG(arch, 3)] = W(n), m = (n + 3) \div 4,
         \A k \in 1 .. m : Words(e, m)[k] # Junk("stack"),
         \A r : r.what = Words(e, m) /\ r.n = n => Ids(r)
  PROVE  /\ Fine /\ how' = << >> /\ pc' = pc + 1 /\ UNCHANGED <<stack, sf>>
         /\ \A r \in Reg \ ({"eax"} \cup Lost) : regs'[r] = regs[r]
<1>1. Anys(out) /\ Anys(stack)
  BY DEF Frame
<1>2. PICK res \in {regs[ARG(arch, 3)], W(1), <<65535, 65527>>} :
         /\ pc' = pc + 1 /\ UNCHANGED <<prog, text, vm, arch, code, entry, stack, sf, how>>
         /\ Anys(out') /\ Len(out') = Len(out) + 1
         /\ \A j \in 1 .. Len(out) : out'[j] = out[j]
         /\ out'[Len(out) + 1] = Sent(res)
         /\ DOMAIN regs' = Reg /\ regs'["eax"] = res
         /\ \A r \in Reg \ ({"eax"} \cup Lost) : regs'[r] = regs[r]
  BY <1>1, DoWrite
<1> DEFINE s == Sent(res)
<1>3. regs[ARG(arch, 2)][1] = "esp" /\ regs[ARG(arch, 2)][2] = e /\ regs[ARG(arch, 3)][2] = n
  BY DEF W
<1>4. Bytes = Words(e, m)
  BY <1>3 DEF Bytes, Arg, Words
<1>5. s.of = "esp" /\ s.what = Words(e, m) /\ s.n = n
  BY <1>3, <1>4 DEF Sent
<1>6. out'[Len(out) + 1] = s
  BY <1>2
<1> HIDE DEF s
<1>7. Ids(s)
  BY <1>5
<1>8. Own(s)
  <2>1. DOMAIN Words(e, m) = 1 .. m
    BY DEF Words
  <2>2. Junk("stack") \notin Range(Words(e, m))
    BY <2>1 DEF Range
  <2> QED  BY <1>5, <2>2 DEF Own
<1>9. Own(out'[Len(out) + 1]) /\ Ids(out'[Len(out) + 1])
  BY <1>6, <1>7, <1>8
<1>10. Proper
  BY <1>2, <1>9 DEF Proper, Grown
<1> QED  BY <1>1, <1>2, <1>10 DEF Fine, Same

M2Table(s) ==
  /\ pc \in {1, 2, 3, 4, 5, 6, 7, 8, 9, 10, 11, 12, 13, 14} /\ stack[1] = Junk("stack")
  /\ pc \in {1, 2, 3, 4, 5} => Len(stack) = pc
  /\ pc \in {6, 7, 8, 9, 10} => Len(stack) = 5
  /\ pc \in {11, 12, 13, 14} => Len(stack) = 15 - pc
  /\ pc \in {2, 3, 4, 5, 6, 7, 8, 9} => stack[2] = W(1)
  /\ pc \in {3, 4, 5, 6, 7, 8, 9} => stack[3] = Str(s)
  /\ pc \in {4, 5, 6, 7, 8, 9} => stack[4] = W(mystrlen(s))
  /\ pc \in {6, 7, 8, 9} => regs["ebx"] = W(1)
  /\ pc \in {7, 8, 9} => regs["ecx"] = Str(s)
  /\ pc \in {8, 9} => regs["edx"] = W(mystrlen(s))
  /\ pc = 9 => regs["eax"] = W(4)
M2Code(s) ==
  /\ Len(code) = 13
  /\ code[1] = <<"push", W(1), 0>> /\ code[2] = <<"push", Str(s), 0>>
  /\ code[3] = <<"push", W(mystrlen(s)), 0>> /\ code[4] = <<"push", Junk("ret"), 0>>
  /\ code[5] = <<"ldsp", 3, "ebx">> /\ code[6] = <<"ldsp", 2, "ecx">>
  /\ code[7] = <<"ldsp", 1, "edx">> /\ code[8] = <<"li", W(4), "eax">> /\ code[9] = SYSCALL
  /\ code[10] = <<"pop", "esi", 0>> /\ code[11] = <<"pop", "esi", 0>>
  /\ code[12] = <<"pop", "esi", 0>> /\ code[13] = <<"pop", "esi", 0>>
LEMMA M2CodeIs ==
  ASSUME NEW s, code = M2write(1, Str(s), mystrlen(s))
  PROVE  M2Code(s)
BY DEF M2Code, M2write, push, pop

LEMMA M2Step ==
  ASSUME Frame, how = << >>, Next, prog = "M2write", arch = "i386", NEW s, Terminated(s),
         M2Code(s), M2Table(s)
  PROVE  Leads(M2Table(s)')
<1>n. Len(code) = 13
  BY DEF M2Code
<1>a. /\ how = << >> /\ DOMAIN regs = Reg /\ Anys(stack) /\ Anys(out)
      /\ Len(code) \in Nat /\ M2Table(s)
  BY <1>n DEF Frame
<1>1. CASE pc = 1
  <2>1. Ins(<<"push", W(1), 0>>)
    BY <1>a, <1>n, <1>1 DEF Ins, M2Code
  <2>2. Len(stack) = 1
    BY <1>a, <1>1 DEF M2Table, Bare
  <2>3. /\ Fine /\ how' = << >> /\ pc' = pc + 1 /\ entry' = entry /\ arch' = arch /\ Len(stack') = 2
        /\ regs' = regs /\ stack'[2] = W(1) /\ stack'[1] = stack[1]
    BY <2>1, <2>2, PushAt
  <2>4. M2Table(s)'
    BY <1>a, <1>1, <2>3 DEF Reg, M2Table
  <2> QED  BY <2>3, <2>4 DEF Leads
<1>2. CASE pc = 2
  <2>1. Ins(<<"push", Str(s), 0>>)
    BY <1>a, <1>n, <1>2 DEF Ins, M2Code
  <2>2. Len(stack) = 2
    BY <1>a, <1>2 DEF M2Table, Bare
  <2>3. /\ Fine /\ how' = << >> /\ pc' = pc + 1 /\ entry' = entry /\ arch' = arch /\ Len(stack') = 3
        /\ regs' = regs /\ stack'[3] = Str(s) /\ stack'[1] = stack[1] /\ stack'[2] = stack[2]
    BY <2>1, <2>2, PushAt
  <2>4. M2Table(s)'
    BY <1>a, <1>2, <2>3 DEF Reg, M2Table
  <2> QED  BY <2>3, <2>4 DEF Leads
<1>3. CASE pc = 3
  <2>1. Ins(<<"push", W(mystrlen(s)), 0>>)
    BY <1>a, <1>n, <1>3 DEF Ins, M2Code
  <2>2. Len(stack) = 3
    BY <1>a, <1>3 DEF M2Table, Bare
  <2>3. /\ Fine /\ how' = << >> /\ pc' = pc + 1 /\ entry' = entry /\ arch' = arch /\ Len(stack') = 4
        /\ regs' = regs /\ stack'[4] = W(mystrlen(s)) /\ stack'[1] = stack[1]
        /\ stack'[2] = stack[2]
        /\ stack'[3] = stack[3]
    BY <2>1, <2>2, PushAt
  <2>4. M2Table(s)'
    BY <1>a, <1>3, <2>3 DEF Reg, M2Table
  <2> QED  BY <2>3, <2>4 DEF Leads
<1>4. CASE pc = 4
  <2>1. Ins(<<"push", Junk("ret"), 0>>)
    BY <1>a, <1>n, <1>4 DEF Ins, M2Code
  <2>2. Len(stack) = 4
    BY <1>a, <1>4 DEF M2Table, Bare
  <2>3. /\ Fine /\ how' = << >> /\ pc' = pc + 1 /\ entry' = entry /\ arch' = arch /\ Len(stack') = 5
        /\ regs' = regs /\ stack'[5] = Junk("ret") /\ stack'[1] = stack[1] /\ stack'[2] = stack[2]
        /\ stack'[3] = stack[3] /\ stack'[4] = stack[4]
    BY <2>1, <2>2, PushAt
  <2>4. M2Table(s)'
    BY <1>a, <1>4, <2>3 DEF Reg, M2Table
  <2> QED  BY <2>3, <2>4 DEF Leads
<1>5. CASE pc = 5
  <2>1. Ins(<<"ldsp", 3, "ebx">>)
    BY <1>a, <1>n, <1>5 DEF Ins, M2Code
  <2>2. Stepped /\ UNCHANGED <<stack, sf>> /\ regs' = [regs EXCEPT !["ebx"] = stack[Len(stack) - 3]]
    BY <2>1, DoLdSp
  <2>3. Len(stack) - 3 = 2
    BY <1>a, <1>5 DEF M2Table
  <2>4. regs' = [regs EXCEPT !["ebx"] = stack[2]]
    BY <2>2, <2>3
  <2>5. M2Table(s)'
    BY <1>a, <1>5, <2>2, <2>4 DEF Stepped, Reg, M2Table
  <2> QED  BY <1>a, <2>2, <2>5, Onward DEF Leads
<1>6. CASE pc = 6
  <2>1. Ins(<<"ldsp", 2, "ecx">>)
    BY <1>a, <1>n, <1>6 DEF Ins, M2Code
  <2>2. Stepped /\ UNCHANGED <<stack, sf>> /\ regs' = [regs EXCEPT !["ecx"] = stack[Len(stack) - 2]]
    BY <2>1, DoLdSp
  <2>3. Len(stack) - 2 = 3
    BY <1>a, <1>6 DEF M2Table
  <2>4. regs' = [regs EXCEPT !["ecx"] = stack[3]]
    BY <2>2, <2>3
  <2>5. M2Table(s)'
    BY <1>a, <1>6, <2>2, <2>4 DEF Stepped, Reg, M2Table
  <2> QED  BY <1>a, <2>2, <2>5, Onward DEF Leads
<1>7. CASE pc = 7
  <2>1. Ins(<<"ldsp", 1, "edx">>)
    BY <1>a, <1>n, <1>7 DEF Ins, M2Code
  <2>2. Stepped /\ UNCHANGED <<stack, sf>> /\ regs' = [regs EXCEPT !["edx"] = stack[Len(stack) - 1]]
    BY <2>1, DoLdSp
  <2>3. Len(stack) - 1 = 4
    BY <1>a, <1>7 DEF M2Table
  <2>4. regs' = [regs EXCEPT !["edx"] = stack[4]]
    BY <2>2, <2>3
  <2>5. M2Table(s)'
    BY <1>a, <1>7, <2>2, <2>4 DEF Stepped, Reg, M2Table
  <2> QED  BY <1>a, <2>2, <2>5, Onward DEF Leads
<1>8. CASE pc = 8
  <2>1. Ins(<<"li", W(4), "eax">>)
    BY <1>a, <1>n, <1>8 DEF Ins, M2Code
  <2>2. Stepped /\ UNCHANGED <<stack, sf>> /\ regs' = [regs EXCEPT !["eax"] = W(4)]
    BY <2>1, DoLi
  <2>3. M2Table(s)'
    BY <1>a, <1>8, <2>2 DEF Stepped, Reg, M2Table
  <2> QED  BY <1>a, <2>2, <2>3, Onward DEF Leads
<1>9. CASE pc = 9
  <2>1. Ins(SYSCALL)
    BY <1>a, <1>n, <1>9 DEF Ins, M2Code
  <2>2. /\ regs[ARG(arch, 1)] = W(1) /\ regs[ARG(arch, 2)] = Str(s)
        /\ regs[ARG(arch, 3)] = W(mystrlen(s)) /\ regs["eax"] = NR_write(arch)
    BY <1>a, <1>9 DEF M2Table, ARG, NR_write
  <2>3. Sound(s, mystrlen(s))
    BY Strlen, SoundPrefix DEF Pasted
  <2>4. /\ Fine /\ how' = << >> /\ pc' = pc + 1 /\ UNCHANGED <<stack, sf>>
        /\ \A r \in Reg \ ({"eax"} \cup Lost) : regs'[r] = regs[r]
    BY <2>1, <2>2, <2>3, SaysString
  <2>5. M2Table(s)'
    BY <1>a, <1>9, <2>4 DEF Fine, Same, M2Table, Lost, Reg
  <2> QED  BY <2>4, <2>5 DEF Leads
<1>10. CASE pc = 10
  <2>1. Ins(<<"pop", "esi", 0>>)
    BY <1>a, <1>n, <1>10 DEF Ins, M2Code
  <2>2. Len(stack) = 5
    BY <1>a, <1>10 DEF M2Table, Bare
  <2>3. /\ Fine /\ how' = << >> /\ pc' = pc + 1 /\ entry' = entry /\ arch' = arch /\ Len(stack') = 4
        /\ regs' = [regs EXCEPT !["esi"] = stack[5]] /\ stack'[1] = stack[1] /\ stack'[2] = stack[2]
        /\ stack'[3] = stack[3] /\ stack'[4] = stack[4]
    BY <2>1, <2>2, PopAt
  <2>4. M2Table(s)'
    BY <1>a, <1>10, <2>3 DEF Reg, M2Table
  <2> QED  BY <2>3, <2>4 DEF Leads
<1>11. CASE pc = 11
  <2>1. Ins(<<"pop", "esi", 0>>)
    BY <1>a, <1>n, <1>11 DEF Ins, M2Code
  <2>2. Len(stack) = 4
    BY <1>a, <1>11 DEF M2Table, Bare
  <2>3. /\ Fine /\ how' = << >> /\ pc' = pc + 1 /\ entry' = entry /\ arch' = arch /\ Len(stack') = 3
        /\ regs' = [regs EXCEPT !["esi"] = stack[4]] /\ stack'[1] = stack[1] /\ stack'[2] = stack[2]
        /\ stack'[3] = stack[3]
    BY <2>1, <2>2, PopAt
  <2>4. M2Table(s)'
    BY <1>a, <1>11, <2>3 DEF Reg, M2Table
  <2> QED  BY <2>3, <2>4 DEF Leads
<1>12. CASE pc = 12
  <2>1. Ins(<<"pop", "esi", 0>>)
    BY <1>a, <1>n, <1>12 DEF Ins, M2Code
  <2>2. Len(stack) = 3
    BY <1>a, <1>12 DEF M2Table, Bare
  <2>3. /\ Fine /\ how' = << >> /\ pc' = pc + 1 /\ entry' = entry /\ arch' = arch /\ Len(stack') = 2
        /\ regs' = [regs EXCEPT !["esi"] = stack[3]] /\ stack'[1] = stack[1] /\ stack'[2] = stack[2]
    BY <2>1, <2>2, PopAt
  <2>4. M2Table(s)'
    BY <1>a, <1>12, <2>3 DEF Reg, M2Table
  <2> QED  BY <2>3, <2>4 DEF Leads
<1>13. CASE pc = 13
  <2>1. Ins(<<"pop", "esi", 0>>)
    BY <1>a, <1>n, <1>13 DEF Ins, M2Code
  <2>2. Len(stack) = 2
    BY <1>a, <1>13 DEF M2Table, Bare
  <2>3. /\ Fine /\ how' = << >> /\ pc' = pc + 1 /\ entry' = entry /\ arch' = arch /\ Len(stack') = 1
        /\ regs' = [regs EXCEPT !["esi"] = stack[2]] /\ stack'[1] = stack[1]
    BY <2>1, <2>2, PopAt
  <2>4. M2Table(s)'
    BY <1>a, <1>13, <2>3 DEF Reg, M2Table
  <2> QED  BY <2>3, <2>4 DEF Leads
<1>14. CASE pc = 14
  <2>1. pc = Len(code) + 1 /\ Len(code) \in Nat
    <3>1. 13 + 1 = 14
      OBVIOUS
    <3> QED  BY <1>n, <1>14, <3>1
  <2>2. Bare /\ \A r \in Reg \ Told : regs[r] = entry[r]
    BY <1>a, <1>14 DEF M2Table, Bare, Told
  <2>3. Fine /\ Ending
    BY <1>a, <2>1, <2>2, Returning
  <2> QED  BY <2>3 DEF Leads
<1> QED  BY <1>a, <1>1, <1>2, <1>3, <1>4, <1>5, <1>6, <1>7, <1>8, <1>9, <1>10, <1>11, <1>12,
       <1>13, <1>14 DEF M2Table

Dbg4Table(s) ==
  /\ pc \in {1, 2, 3, 4, 5, 6, 7} /\ stack[1] = Junk("stack")
  /\ regs["esi"] = entry["esi"] /\ regs["edi"] = entry["edi"]
  /\ pc # 5 => Len(stack) = 1
  /\ pc = 5 => Len(stack) = 2 /\ stack[2] = Str(Line(s))
  /\ pc \in {2, 3, 4, 5, 6} => regs["eax"] = W(4)
  /\ pc \in {3, 4, 5, 6} => regs["ebx"] = W(2)
  /\ pc \in {4, 5, 6} => regs["edx"] = W(DBG_LEN(s))
  /\ pc = 6 => regs["ecx"] = Str(Line(s))
LEMMA Dbg4Step ==
  ASSUME Frame, how = << >>, Next, prog = "dbg4", arch = "i386", 
         NEW s, s = text, Terminated(s), code = dbg4(s), Dbg4Table(s)
  PROVE  Leads(Dbg4Table(s)')
<1>n. Len(code) = 6
  BY DEF dbg4, push, pop
<1>c. /\ code[1] = <<"li", W(4), "eax">> /\ code[2] = <<"li", W(2), "ebx">>
      /\ code[3] = <<"li", W(DBG_LEN(s)), "edx">> /\ code[4] = <<"push", Str(Line(s)), 0>>
      /\ code[5] = <<"pop", "ecx", 0>> /\ code[6] = SYSCALL
  BY DEF dbg4, push, pop
<1>a. /\ how = << >> /\ DOMAIN regs = Reg /\ Anys(stack) /\ Anys(out)
      /\ Len(code) \in Nat /\ Dbg4Table(s)
  BY <1>n DEF Frame
<1>1. CASE pc = 1
  <2>1. Ins(<<"li", W(4), "eax">>)
    BY <1>a, <1>n, <1>c, <1>1 DEF Ins
  <2>2. Stepped /\ UNCHANGED <<stack, sf>> /\ regs' = [regs EXCEPT !["eax"] = W(4)]
    BY <2>1, DoLi
  <2>3. Dbg4Table(s)'
    BY <1>a, <1>1, <2>2 DEF Stepped, Reg, Dbg4Table
  <2> QED  BY <1>a, <2>2, <2>3, Onward DEF Leads
<1>2. CASE pc = 2
  <2>1. Ins(<<"li", W(2), "ebx">>)
    BY <1>a, <1>n, <1>c, <1>2 DEF Ins
  <2>2. Stepped /\ UNCHANGED <<stack, sf>> /\ regs' = [regs EXCEPT !["ebx"] = W(2)]
    BY <2>1, DoLi
  <2>3. Dbg4Table(s)'
    BY <1>a, <1>2, <2>2 DEF Stepped, Reg, Dbg4Table
  <2> QED  BY <1>a, <2>2, <2>3, Onward DEF Leads
<1>3. CASE pc = 3
  <2>1. Ins(<<"li", W(DBG_LEN(s)), "edx">>)
    BY <1>a, <1>n, <1>c, <1>3 DEF Ins
  <2>2. Stepped /\ UNCHANGED <<stack, sf>> /\ regs' = [regs EXCEPT !["edx"] = W(DBG_LEN(s))]
    BY <2>1, DoLi
  <2>3. Dbg4Table(s)'
    BY <1>a, <1>3, <2>2 DEF Stepped, Reg, Dbg4Table
  <2> QED  BY <1>a, <2>2, <2>3, Onward DEF Leads
<1>4. CASE pc = 4
  <2>1. Ins(<<"push", Str(Line(s)), 0>>)
    BY <1>a, <1>n, <1>c, <1>4 DEF Ins
  <2>2. Len(stack) = 1
    BY <1>a, <1>4 DEF Dbg4Table, Bare
  <2>3. /\ Fine /\ how' = << >> /\ pc' = pc + 1 /\ entry' = entry /\ arch' = arch /\ Len(stack') = 2
        /\ regs' = regs /\ stack'[2] = Str(Line(s)) /\ stack'[1] = stack[1]
    BY <2>1, <2>2, PushAt
  <2>4. Dbg4Table(s)'
    BY <1>a, <1>4, <2>3 DEF Reg, Dbg4Table
  <2> QED  BY <2>3, <2>4 DEF Leads
<1>5. CASE pc = 5
  <2>1. Ins(<<"pop", "ecx", 0>>)
    BY <1>a, <1>n, <1>c, <1>5 DEF Ins
  <2>2. Len(stack) = 2
    BY <1>a, <1>5 DEF Dbg4Table, Bare
  <2>3. /\ Fine /\ how' = << >> /\ pc' = pc + 1 /\ entry' = entry /\ arch' = arch /\ Len(stack') = 1
        /\ regs' = [regs EXCEPT !["ecx"] = stack[2]] /\ stack'[1] = stack[1]
    BY <2>1, <2>2, PopAt
  <2>4. Dbg4Table(s)'
    BY <1>a, <1>5, <2>3 DEF Reg, Dbg4Table
  <2> QED  BY <2>3, <2>4 DEF Leads
<1>6. CASE pc = 6
  <2>1. Ins(SYSCALL)
    BY <1>a, <1>n, <1>c, <1>6 DEF Ins
  <2>2. /\ regs[ARG(arch, 1)] = W(2) /\ regs[ARG(arch, 2)] = Str(Line(s))
        /\ regs[ARG(arch, 3)] = W(DBG_LEN(s)) /\ regs["eax"] = NR_write(arch)
    BY <1>a, <1>6 DEF Dbg4Table, ARG, NR_write
  <2>3. Sound(Line(s), DBG_LEN(s))
    BY SoundLine DEF Pasted
  <2>4. /\ Fine /\ how' = << >> /\ pc' = pc + 1 /\ UNCHANGED <<stack, sf>>
        /\ \A r \in Reg \ ({"eax"} \cup Lost) : regs'[r] = regs[r]
    BY <2>1, <2>2, <2>3, SaysString
  <2>5. Dbg4Table(s)'
    BY <1>a, <1>6, <2>4 DEF Fine, Same, Dbg4Table, Lost, Reg
  <2> QED  BY <2>4, <2>5 DEF Leads
<1>7. CASE pc = 7
  <2>1. pc = Len(code) + 1 /\ Len(code) \in Nat
    <3>1. 6 + 1 = 7
      OBVIOUS
    <3> QED  BY <1>n, <1>7, <3>1
  <2>2. Bare /\ \A r \in Reg \ Told : regs[r] = entry[r]
    BY <1>a, <1>7 DEF Dbg4Table, Bare, Reg, Told, ARG, Lost
  <2>3. Fine /\ Ending
    BY <1>a, <2>1, <2>2, Returning
  <2> QED  BY <2>3 DEF Leads
<1> QED  BY <1>a, <1>1, <1>2, <1>3, <1>4, <1>5, <1>6, <1>7 DEF Dbg4Table

LEMMA EndStep ==
  ASSUME Frame, how = << >>, Next, code = end_process, pc = 1
  PROVE  Fine /\ Ending
<1>1. Ins(hlt)
  BY DEF Ins, end_process
<1> QED  BY <1>1, Trapping

-----------------------------------------------------------------------------
(* isvm: the sign of ecx decides, and it is kept over popa.                *)

IsvmTable ==
  /\ pc \in {1, 2, 3, 4, 5, 6, 7, 8, 9}
  /\ pc \in {1, 2, 3} => Len(stack) = 1
  /\ pc \in {1, 2, 3, 7, 8} => regs["ebx"] = entry["ebx"]
  /\ pc \in {4, 5, 6} => Len(stack) = 9 /\ stack[2] = W(1) /\ stack[5] = entry["ebx"]
  /\ pc = 2 => regs["eax"] = W(0)
  /\ pc \in {3, 4, 7, 8, 9} => regs["eax"] = W(1)
  /\ pc = 5 => regs["ecx"] = <<"cpuid", W(1), "ecx">>
  /\ pc \in {6, 7} => (sf <=> vm)
  /\ pc = 8 => ~vm
  /\ pc = 9 /\ vm => regs["ebx"] = entry["ebx"]
  /\ pc = 9 /\ ~vm => regs["ebx"] = <<entry["ebx"][1], entry["ebx"][2] + 1>>
IsvmCode ==
  /\ Len(code) = 9
  /\ code[1] = <<"xor", "eax", 0>> /\ code[2] = <<"inc", "eax", 0>> /\ code[3] = <<"pusha", 0, 0>>
  /\ code[4] = <<"cpuid", 0, 0>> /\ code[5] = <<"and", "ecx", 0>> /\ code[6] = <<"popa", 0, 0>>
  /\ code[7] = <<"js", 0, 2>> /\ code[8] = <<"inc", "ebx", 0>> /\ code[9] = SYSCALL
LEMMA IsvmCodeIs ==
  ASSUME code = isvm
  PROVE  IsvmCode
BY DEF IsvmCode, isvm

LEMMA IsvmStep ==
  ASSUME Frame, how = << >>, Next, prog = "isvm", arch = "i386", IsvmCode, IsvmTable
  PROVE  Leads(IsvmTable')
<1>n. Len(code) = 9
  BY DEF IsvmCode
<1>a. /\ how = << >> /\ DOMAIN regs = Reg /\ Anys(stack) /\ Anys(out)
      /\ Len(code) \in Nat /\ IsvmTable
  BY <1>n DEF Frame
<1>1. CASE pc = 1
  <2>1. Ins(<<"xor", "eax", 0>>)
    BY <1>a, <1>n, <1>1 DEF Ins, IsvmCode
  <2>2. Stepped /\ UNCHANGED <<stack, sf>> /\ regs' = [regs EXCEPT !["eax"] = W(0)]
    BY <2>1, DoXor
  <2>3. IsvmTable'
    BY <1>a, <1>1, <2>2 DEF Stepped, Reg, IsvmTable, W
  <2> QED  BY <1>a, <2>2, <2>3, Onward DEF Leads
<1>2. CASE pc = 2
  <2>1. Ins(<<"inc", "eax", 0>>)
    BY <1>a, <1>n, <1>2 DEF Ins, IsvmCode
  <2>2. /\ Stepped /\ UNCHANGED <<stack, sf>>
        /\ regs' = [regs EXCEPT !["eax"] = <<regs["eax"][1], regs["eax"][2] + 1>>]
    BY <2>1, DoInc
  <2>3. IsvmTable'
    BY <1>a, <1>2, <2>2 DEF Stepped, Reg, IsvmTable, W
  <2> QED  BY <1>a, <2>2, <2>3, Onward DEF Leads
<1>3. CASE pc = 3
  <2>1. Ins(<<"pusha", 0, 0>>)
    BY <1>a, <1>n, <1>3 DEF Ins, IsvmCode
  <2>2. Len(stack) = 1
    BY <1>a, <1>3 DEF IsvmTable
  <2>3. /\ Stepped /\ UNCHANGED <<regs, sf>> /\ Anys(stack') /\ Len(stack') = Len(stack) + 8
        /\ stack'[Len(stack) + 1] = regs["eax"] /\ stack'[Len(stack) + 4] = regs["ebx"]
    BY <1>a, <2>1, DoPusha
  <2>4. Len(stack') = 9 /\ stack'[2] = regs["eax"] /\ stack'[5] = regs["ebx"]
    BY <2>2, <2>3
  <2>5. regs["eax"] = W(1) /\ regs["ebx"] = entry["ebx"]
    BY <1>a, <1>3 DEF IsvmTable
  <2>6. /\ pc' = 4 /\ Len(stack') = 9 /\ stack'[2] = W(1) /\ stack'[5] = entry'["ebx"]
        /\ regs'["eax"] = W(1)
    <3>1. pc' = 4 /\ entry' = entry /\ regs' = regs
      BY <1>3, <2>3 DEF Stepped
    <3> QED  BY <2>4, <2>5, <3>1
  <2>7. IsvmTable'
    BY <2>6 DEF IsvmTable
  <2>8. DOMAIN regs' = Reg
    BY <1>a, <2>3
  <2> QED  BY <2>3, <2>7, <2>8, Onward DEF Leads
<1>4. CASE pc = 4
  <2>1. Ins(<<"cpuid", 0, 0>>)
    BY <1>a, <1>n, <1>4 DEF Ins, IsvmCode
  <2>2. /\ Stepped /\ UNCHANGED <<stack, sf>> /\ DOMAIN regs' = Reg
        /\ \A r \in {"eax", "ebx", "ecx", "edx"} : regs'[r] = <<"cpuid", regs["eax"], r>>
    BY <2>1, DoCpuid
  <2>3. regs["eax"] = W(1) /\ Len(stack) = 9 /\ stack[2] = W(1) /\ stack[5] = entry["ebx"]
    BY <1>a, <1>4 DEF IsvmTable
  <2>4. /\ pc' = 5 /\ regs'["ecx"] = <<"cpuid", W(1), "ecx">>
        /\ Len(stack') = 9 /\ stack'[2] = W(1) /\ stack'[5] = entry'["ebx"]
    BY <1>4, <2>2, <2>3 DEF Stepped
  <2>5. IsvmTable'
    BY <2>4 DEF IsvmTable
  <2>6. Anys(stack')
    BY <1>a, <2>2
  <2> QED  BY <2>2, <2>5, <2>6, Onward DEF Leads
<1>5. CASE pc = 5
  <2>1. Ins(<<"and", "ecx", 0>>)
    BY <1>a, <1>n, <1>5 DEF Ins, IsvmCode
  <2>2. /\ Stepped /\ UNCHANGED <<stack, regs>>
        /\ sf' = (regs["ecx"] = <<"cpuid", W(1), "ecx">> /\ vm)
    BY <2>1, DoAnd
  <2>3. regs["ecx"] = <<"cpuid", W(1), "ecx">>
    BY <1>a, <1>5 DEF IsvmTable
  <2>4. (sf <=> vm)'
    BY <2>2, <2>3 DEF Stepped
  <2>5. pc' = 6 /\ UNCHANGED <<stack, regs, entry>>
    BY <1>5, <2>2 DEF Stepped
  <2>6. IsvmTable'
    BY <1>a, <1>5, <2>4, <2>5 DEF IsvmTable
  <2>7. DOMAIN regs' = Reg /\ Anys(stack')
    BY <1>a, <2>2
  <2> QED  BY <2>2, <2>6, <2>7, Onward DEF Leads
<1>6. CASE pc = 6
  <2>1. Ins(<<"popa", 0, 0>>)
    BY <1>a, <1>n, <1>6 DEF Ins, IsvmCode
  <2>2. Len(stack) = 9 /\ Len(stack) >= 8
    <3>1. Len(stack) = 9
      BY <1>a, <1>6 DEF IsvmTable
    <3> QED  BY <3>1
  <2>3. /\ Stepped /\ UNCHANGED sf /\ Anys(stack') /\ Len(stack') = Len(stack) - 8
        /\ DOMAIN regs' = Reg
        /\ regs'["eax"] = stack[Len(stack) - 7] /\ regs'["ebx"] = stack[Len(stack) - 4]
    BY <1>a, <2>1, <2>2, DoPopa
  <2>4. regs'["eax"] = stack[2] /\ regs'["ebx"] = stack[5]
    BY <2>2, <2>3
  <2>5. IsvmTable'
    BY <1>a, <1>6, <2>3, <2>4 DEF Stepped, IsvmTable
  <2> QED  BY <2>3, <2>5, Onward DEF Leads
<1>7. CASE pc = 7
  <2>1. Ins(<<"js", 0, 2>>)
    BY <1>a, <1>n, <1>7 DEF Ins, IsvmCode
  <2>2. /\ UNCHANGED <<prog, text, vm, arch, code, entry, out, how, regs, stack, sf>>
        /\ sf => pc' = pc + 2
        /\ ~sf => pc' = pc + 1
    BY <2>1, DoJs
  <2>3. sf <=> vm
    BY <1>a, <1>7 DEF IsvmTable
  <2>4. (vm => pc' = 9) /\ (~vm => pc' = 8) /\ UNCHANGED <<vm, regs, stack, entry>>
    BY <1>7, <2>2, <2>3
  <2>5. IsvmTable'
    BY <1>a, <1>7, <2>4 DEF IsvmTable
  <2>6. Fine /\ how' = << >>
    BY <1>a, <2>2 DEF Fine, Same, Proper, Quiet
  <2> QED  BY <2>5, <2>6 DEF Leads
<1>8. CASE pc = 8
  <2>1. Ins(<<"inc", "ebx", 0>>)
    BY <1>a, <1>n, <1>8 DEF Ins, IsvmCode
  <2>2. /\ Stepped /\ UNCHANGED <<stack, sf>>
        /\ regs' = [regs EXCEPT !["ebx"] = <<regs["ebx"][1], regs["ebx"][2] + 1>>]
    BY <2>1, DoInc
  <2>3. IsvmTable'
    BY <1>a, <1>8, <2>2 DEF Stepped, Reg, IsvmTable, W
  <2> QED  BY <1>a, <2>2, <2>3, Onward DEF Leads
<1>9. CASE pc = 9
  <2>1. Ins(SYSCALL)
    BY <1>a, <1>n, <1>9 DEF Ins, IsvmCode
  <2>2. /\ regs["eax"] = NR_exit(arch) /\ ARG(arch, 1) = "ebx"
        /\ vm => regs["ebx"] = entry["ebx"]
        /\ ~vm => regs["ebx"] = <<entry["ebx"][1], entry["ebx"][2] + 1>>
    BY <1>a, <1>9 DEF IsvmTable, NR_exit, ARG
  <2>3. /\ how' = <<"exit", regs["ebx"]>>
        /\ UNCHANGED <<prog, text, vm, arch, code, entry, pc, regs, stack, sf, out>>
    BY <2>1, <2>2, DoExit
  <2>4. entry["ebx"] = W(0) => regs["ebx"] = W(IF vm THEN 0 ELSE 1)
    BY <2>2 DEF W
  <2>5. how' = <<"exit", regs["ebx"]>> /\ Same /\ Quiet /\ UNCHANGED stack /\ DOMAIN regs' = Reg
    BY <1>a, <2>3 DEF Same, Quiet
  <2>6. Fine /\ Ending
    BY <2>4, <2>5, Leaving
  <2> QED  BY <2>6 DEF Leads
<1> QED  BY <1>a, <1>1, <1>2, <1>3, <1>4, <1>5, <1>6, <1>7, <1>8, <1>9 DEF IsvmTable

-----------------------------------------------------------------------------
(* dbg2 and dbg3, and abort, which prints by dbg2 and traps.               *)

LEMMA Pushes ==
  ASSUME NEW rs, Anys(rs)
  PROVE  /\ Anys(pushes(rs)) /\ Len(pushes(rs)) = Len(rs)
         /\ \A k \in 1 .. Len(rs) : pushes(rs)[k] = <<"pushr", rs[k], 0>>
<1> DEFINE n == Len(rs)
<1> DEFINE P(k) == <<"pushr", rs[k], 0>>
<1> DEFINE S == {P(k) : k \in 1 .. n}
<1>1. n \in Nat /\ DOMAIN rs = 1 .. n
  BY Lengths
<1>2. pushes(rs) = [k \in 1 .. n |-> P(k)]
  BY <1>1 DEF pushes
<1>3. \A k \in 1 .. n : P(k) \in S
  OBVIOUS
<1> HIDE DEF n, P, S
<1>4. [k \in 1 .. n |-> P(k)] \in Seq(S) /\ Len([k \in 1 .. n |-> P(k)]) = n
  BY <1>1, <1>3, IsASeq
<1>5. \A k \in 1 .. n : pushes(rs)[k] = P(k)
  BY <1>2
<1> QED  BY <1>2, <1>4, <1>5 DEF Anys, n, P

\* The instructions of dbg2.
LEMMA Dbg2Instrs ==
  ASSUME NEW s
  PROVE  /\ Anys(dbg2(s)) /\ Len(dbg2(s)) = 9
         /\ dbg2(s)[1] = <<"push", W(2), 0>> /\ dbg2(s)[2] = <<"push", W(DBG_LEN(s)), 0>>
         /\ dbg2(s)[3] = <<"push", Str(Line(s)), 0>> /\ dbg2(s)[4] = <<"push", W(4), 0>>
         /\ dbg2(s)[5] = <<"pop", "eax", 0>> /\ dbg2(s)[6] = <<"pop", "ecx", 0>>
         /\ dbg2(s)[7] = <<"pop", "edx", 0>> /\ dbg2(s)[8] = <<"pop", "ebx", 0>>
         /\ dbg2(s)[9] = SYSCALL
<1> DEFINE u == <<push(W(2)), push(W(DBG_LEN(s))), push(Str(Line(s))), push(W(4))>>
<1>1. Anys(u) /\ Len(u) = 4 /\ Anys(DBG_POP) /\ Len(DBG_POP) = 4 /\ Anys(<<SYSCALL>>)
      /\ Len(<<SYSCALL>>) = 1
  BY Literals DEF DBG_POP
<1>2. /\ u[1] = push(W(2)) /\ u[2] = push(W(DBG_LEN(s))) /\ u[3] = push(Str(Line(s)))
      /\ u[4] = push(W(4)) /\ DBG_POP[1] = pop("eax") /\ DBG_POP[2] = pop("ecx")
      /\ DBG_POP[3] = pop("edx") /\ DBG_POP[4] = pop("ebx") /\ <<SYSCALL>>[1] = SYSCALL
  BY DEF DBG_POP
<1> DEFINE v == u \o DBG_POP
<1> DEFINE e == <<SYSCALL>>
<1>3. dbg2(s) = v \o e
  BY DEF dbg2
<1> HIDE DEF u
<1>4. /\ Anys(v) /\ Len(v) = Len(u) + Len(DBG_POP)
      /\ \A k \in 1 .. Len(u) : v[k] = u[k]
      /\ \A k \in 1 .. Len(DBG_POP) : v[Len(u) + k] = DBG_POP[k]
  <2>1. Anys(u) /\ Anys(DBG_POP)
    BY <1>1
  <2> QED  BY <2>1, Joining
<1> HIDE DEF v
<1>5. Len(v) = 8 /\ v[1] = u[1] /\ v[2] = u[2] /\ v[3] = u[3] /\ v[4] = u[4] /\ v[5] = DBG_POP[1]
      /\ v[6] = DBG_POP[2] /\ v[7] = DBG_POP[3] /\ v[8] = DBG_POP[4]
  BY <1>1, <1>4
<1>6. Anys(e) /\ Len(e) = 1 /\ e[1] = SYSCALL
  BY <1>1
<1> HIDE DEF e
<1>7. /\ Anys(dbg2(s)) /\ Len(dbg2(s)) = Len(v) + Len(e)
      /\ \A k \in 1 .. Len(v) : dbg2(s)[k] = v[k]
      /\ \A k \in 1 .. Len(e) : dbg2(s)[Len(v) + k] = e[k]
  <2>1. Anys(v) /\ Anys(e)
    BY <1>4, <1>6
  <2>2. /\ Anys(v \o e) /\ Len(v \o e) = Len(v) + Len(e)
        /\ \A k \in 1 .. Len(v) : (v \o e)[k] = v[k]
        /\ \A k \in 1 .. Len(e) : (v \o e)[Len(v) + k] = e[k]
    BY <2>1, Joining
  <2> QED  BY <1>3, <2>2
<1>8. /\ Len(dbg2(s)) = 9 /\ dbg2(s)[9] = e[1] /\ dbg2(s)[1] = v[1] /\ dbg2(s)[2] = v[2]
      /\ dbg2(s)[3] = v[3] /\ dbg2(s)[4] = v[4] /\ dbg2(s)[5] = v[5] /\ dbg2(s)[6] = v[6]
      /\ dbg2(s)[7] = v[7] /\ dbg2(s)[8] = v[8]
  BY <1>5, <1>6, <1>7
<1> QED  BY <1>2, <1>5, <1>6, <1>7, <1>8 DEF push, pop

Dbg2Table(s) ==
  /\ pc \in {1, 2, 3, 4, 5, 6, 7, 8, 9, 10} /\ stack[1] = Junk("stack")
  /\ regs["esi"] = entry["esi"] /\ regs["edi"] = entry["edi"]
  /\ pc \in {1, 2, 3, 4, 5} => Len(stack) = pc
  /\ pc \in {6, 7, 8, 9} => Len(stack) = 10 - pc
  /\ pc \in {2, 3, 4, 5, 6, 7, 8} => stack[2] = W(2)
  /\ pc \in {3, 4, 5, 6, 7} => stack[3] = W(DBG_LEN(s))
  /\ pc \in {4, 5, 6} => stack[4] = Str(Line(s))
  /\ pc = 5 => stack[5] = W(4)
  /\ pc \in {6, 7, 8, 9} => regs["eax"] = W(4)
  /\ pc \in {7, 8, 9} => regs["ecx"] = Str(Line(s))
  /\ pc \in {8, 9} => regs["edx"] = W(DBG_LEN(s))
  /\ pc = 9 => regs["ebx"] = W(2)
  /\ pc = 10 => Len(stack) = 1
Dbg2Code(s) ==
  /\ Len(code) >= 9
  /\ code[1] = <<"push", W(2), 0>> /\ code[2] = <<"push", W(DBG_LEN(s)), 0>>
  /\ code[3] = <<"push", Str(Line(s)), 0>> /\ code[4] = <<"push", W(4), 0>>
  /\ code[5] = <<"pop", "eax", 0>> /\ code[6] = <<"pop", "ecx", 0>>
  /\ code[7] = <<"pop", "edx", 0>> /\ code[8] = <<"pop", "ebx", 0>> /\ code[9] = SYSCALL
LEMMA Dbg2Step ==
  ASSUME Frame, how = << >>, Next, prog \in {"dbg2", "abort"}, arch = "i386",
         NEW s, Terminated(s), prog = "dbg2" => s = text, prog = "abort" => s = aborted,
         Len(code) \in Nat,
         pc # 10, Dbg2Code(s), Dbg2Table(s)
  PROVE  Leads(Dbg2Table(s)')
<1>n. Len(code) >= 9
  BY DEF Dbg2Code
<1>c. /\ code[1] = <<"push", W(2), 0>> /\ code[2] = <<"push", W(DBG_LEN(s)), 0>>
      /\ code[3] = <<"push", Str(Line(s)), 0>> /\ code[4] = <<"push", W(4), 0>>
      /\ code[5] = <<"pop", "eax", 0>> /\ code[6] = <<"pop", "ecx", 0>>
      /\ code[7] = <<"pop", "edx", 0>> /\ code[8] = <<"pop", "ebx", 0>> /\ code[9] = SYSCALL
  BY DEF Dbg2Code
<1>a. /\ how = << >> /\ DOMAIN regs = Reg /\ Anys(stack) /\ Anys(out)
      /\ Len(code) \in Nat /\ Dbg2Table(s)
  BY <1>n DEF Frame
<1>1. CASE pc = 1
  <2>1. Ins(<<"push", W(2), 0>>)
    BY <1>a, <1>n, <1>c, <1>1 DEF Ins
  <2>2. Len(stack) = 1
    BY <1>a, <1>1 DEF Dbg2Table, Bare
  <2>3. /\ Fine /\ how' = << >> /\ pc' = pc + 1 /\ entry' = entry /\ arch' = arch /\ Len(stack') = 2
        /\ regs' = regs /\ stack'[2] = W(2) /\ stack'[1] = stack[1]
    BY <2>1, <2>2, PushAt
  <2>4. Dbg2Table(s)'
    BY <1>a, <1>1, <2>3 DEF Reg, Dbg2Table
  <2> QED  BY <2>3, <2>4 DEF Leads
<1>2. CASE pc = 2
  <2>1. Ins(<<"push", W(DBG_LEN(s)), 0>>)
    BY <1>a, <1>n, <1>c, <1>2 DEF Ins
  <2>2. Len(stack) = 2
    BY <1>a, <1>2 DEF Dbg2Table, Bare
  <2>3. /\ Fine /\ how' = << >> /\ pc' = pc + 1 /\ entry' = entry /\ arch' = arch /\ Len(stack') = 3
        /\ regs' = regs /\ stack'[3] = W(DBG_LEN(s)) /\ stack'[1] = stack[1]
        /\ stack'[2] = stack[2]
    BY <2>1, <2>2, PushAt
  <2>4. Dbg2Table(s)'
    BY <1>a, <1>2, <2>3 DEF Reg, Dbg2Table
  <2> QED  BY <2>3, <2>4 DEF Leads
<1>3. CASE pc = 3
  <2>1. Ins(<<"push", Str(Line(s)), 0>>)
    BY <1>a, <1>n, <1>c, <1>3 DEF Ins
  <2>2. Len(stack) = 3
    BY <1>a, <1>3 DEF Dbg2Table, Bare
  <2>3. /\ Fine /\ how' = << >> /\ pc' = pc + 1 /\ entry' = entry /\ arch' = arch /\ Len(stack') = 4
        /\ regs' = regs /\ stack'[4] = Str(Line(s)) /\ stack'[1] = stack[1] /\ stack'[2] = stack[2]
        /\ stack'[3] = stack[3]
    BY <2>1, <2>2, PushAt
  <2>4. Dbg2Table(s)'
    BY <1>a, <1>3, <2>3 DEF Reg, Dbg2Table
  <2> QED  BY <2>3, <2>4 DEF Leads
<1>4. CASE pc = 4
  <2>1. Ins(<<"push", W(4), 0>>)
    BY <1>a, <1>n, <1>c, <1>4 DEF Ins
  <2>2. Len(stack) = 4
    BY <1>a, <1>4 DEF Dbg2Table, Bare
  <2>3. /\ Fine /\ how' = << >> /\ pc' = pc + 1 /\ entry' = entry /\ arch' = arch /\ Len(stack') = 5
        /\ regs' = regs /\ stack'[5] = W(4) /\ stack'[1] = stack[1] /\ stack'[2] = stack[2]
        /\ stack'[3] = stack[3] /\ stack'[4] = stack[4]
    BY <2>1, <2>2, PushAt
  <2>4. Dbg2Table(s)'
    BY <1>a, <1>4, <2>3 DEF Reg, Dbg2Table
  <2> QED  BY <2>3, <2>4 DEF Leads
<1>5. CASE pc = 5
  <2>1. Ins(<<"pop", "eax", 0>>)
    BY <1>a, <1>n, <1>c, <1>5 DEF Ins
  <2>2. Len(stack) = 5
    BY <1>a, <1>5 DEF Dbg2Table, Bare
  <2>3. /\ Fine /\ how' = << >> /\ pc' = pc + 1 /\ entry' = entry /\ arch' = arch /\ Len(stack') = 4
        /\ regs' = [regs EXCEPT !["eax"] = stack[5]] /\ stack'[1] = stack[1] /\ stack'[2] = stack[2]
        /\ stack'[3] = stack[3] /\ stack'[4] = stack[4]
    BY <2>1, <2>2, PopAt
  <2>4. Dbg2Table(s)'
    BY <1>a, <1>5, <2>3 DEF Reg, Dbg2Table
  <2> QED  BY <2>3, <2>4 DEF Leads
<1>6. CASE pc = 6
  <2>1. Ins(<<"pop", "ecx", 0>>)
    BY <1>a, <1>n, <1>c, <1>6 DEF Ins
  <2>2. Len(stack) = 4
    BY <1>a, <1>6 DEF Dbg2Table, Bare
  <2>3. /\ Fine /\ how' = << >> /\ pc' = pc + 1 /\ entry' = entry /\ arch' = arch /\ Len(stack') = 3
        /\ regs' = [regs EXCEPT !["ecx"] = stack[4]] /\ stack'[1] = stack[1] /\ stack'[2] = stack[2]
        /\ stack'[3] = stack[3]
    BY <2>1, <2>2, PopAt
  <2>4. Dbg2Table(s)'
    BY <1>a, <1>6, <2>3 DEF Reg, Dbg2Table
  <2> QED  BY <2>3, <2>4 DEF Leads
<1>7. CASE pc = 7
  <2>1. Ins(<<"pop", "edx", 0>>)
    BY <1>a, <1>n, <1>c, <1>7 DEF Ins
  <2>2. Len(stack) = 3
    BY <1>a, <1>7 DEF Dbg2Table, Bare
  <2>3. /\ Fine /\ how' = << >> /\ pc' = pc + 1 /\ entry' = entry /\ arch' = arch /\ Len(stack') = 2
        /\ regs' = [regs EXCEPT !["edx"] = stack[3]] /\ stack'[1] = stack[1] /\ stack'[2] = stack[2]
    BY <2>1, <2>2, PopAt
  <2>4. Dbg2Table(s)'
    BY <1>a, <1>7, <2>3 DEF Reg, Dbg2Table
  <2> QED  BY <2>3, <2>4 DEF Leads
<1>8. CASE pc = 8
  <2>1. Ins(<<"pop", "ebx", 0>>)
    BY <1>a, <1>n, <1>c, <1>8 DEF Ins
  <2>2. Len(stack) = 2
    BY <1>a, <1>8 DEF Dbg2Table, Bare
  <2>3. /\ Fine /\ how' = << >> /\ pc' = pc + 1 /\ entry' = entry /\ arch' = arch /\ Len(stack') = 1
        /\ regs' = [regs EXCEPT !["ebx"] = stack[2]] /\ stack'[1] = stack[1]
    BY <2>1, <2>2, PopAt
  <2>4. Dbg2Table(s)'
    BY <1>a, <1>8, <2>3 DEF Reg, Dbg2Table
  <2> QED  BY <2>3, <2>4 DEF Leads
<1>9. CASE pc = 9
  <2>1. Ins(SYSCALL)
    BY <1>a, <1>n, <1>c, <1>9 DEF Ins
  <2>2. /\ regs[ARG(arch, 1)] = W(2) /\ regs[ARG(arch, 2)] = Str(Line(s))
        /\ regs[ARG(arch, 3)] = W(DBG_LEN(s)) /\ regs["eax"] = NR_write(arch)
    BY <1>a, <1>9 DEF Dbg2Table, ARG, NR_write
  <2>3. Sound(Line(s), DBG_LEN(s))
    BY SoundLineOf
  <2>4. /\ Fine /\ how' = << >> /\ pc' = pc + 1 /\ UNCHANGED <<stack, sf>>
        /\ \A r \in Reg \ ({"eax"} \cup Lost) : regs'[r] = regs[r]
    BY <2>1, <2>2, <2>3, SaysString
  <2>5. Dbg2Table(s)'
    BY <1>a, <1>9, <2>4 DEF Fine, Same, Dbg2Table, Lost, Reg
  <2> QED  BY <2>4, <2>5 DEF Leads
<1> QED  BY <1>a, <1>1, <1>2, <1>3, <1>4, <1>5, <1>6, <1>7, <1>8, <1>9 DEF Dbg2Table

LEMMA Dbg2Done ==
  ASSUME Frame, how = << >>, Next, prog = "dbg2", arch = "i386", NEW s, Len(code) = 9, pc = 10,
         Dbg2Table(s)
  PROVE  Fine /\ Ending
<1>1. Bare
  BY DEF Dbg2Table, Bare
<1>2. \A r \in Reg \ Told : regs[r] = entry[r]
  BY DEF Dbg2Table, Told, Reg
<1>3. pc = Len(code) + 1 /\ Len(code) \in Nat
  OBVIOUS
<1> QED  BY <1>1, <1>2, <1>3, Returning

LEMMA AbortDone ==
  ASSUME Frame, how = << >>, Next, Len(code) = 10, code[10] = hlt, pc = 10
  PROVE  Fine /\ Ending
<1>1. Ins(hlt)
  BY DEF Ins
<1> QED  BY <1>1, Trapping

Dbg3Code(s) ==
  /\ Len(code) = 17
  /\ code[1] = <<"pushr", "ebx", 0>> /\ code[2] = <<"pushr", "edx", 0>>
  /\ code[3] = <<"pushr", "ecx", 0>> /\ code[4] = <<"pushr", "eax", 0>>
  /\ code[5] = <<"push", W(2), 0>> /\ code[6] = <<"push", W(DBG_LEN(s)), 0>>
  /\ code[7] = <<"push", Str(Line(s)), 0>> /\ code[8] = <<"push", W(4), 0>>
  /\ code[9] = <<"pop", "eax", 0>> /\ code[10] = <<"pop", "ecx", 0>>
  /\ code[11] = <<"pop", "edx", 0>> /\ code[12] = <<"pop", "ebx", 0>> /\ code[13] = SYSCALL
  /\ code[14] = <<"pop", "eax", 0>> /\ code[15] = <<"pop", "ecx", 0>>
  /\ code[16] = <<"pop", "edx", 0>> /\ code[17] = <<"pop", "ebx", 0>>
LEMMA Dbg3CodeIs ==
  ASSUME NEW s, code = dbg3(s)
  PROVE  Dbg3Code(s)
<1> DEFINE u == DBG_PUSH
<1> DEFINE v == dbg2(s)
<1> DEFINE w == DBG_POP
<1>1. /\ Anys(u) /\ Len(u) = 4 /\ u[1] = <<"pushr", "ebx", 0>> /\ u[2] = <<"pushr", "edx", 0>>
      /\ u[3] = <<"pushr", "ecx", 0>> /\ u[4] = <<"pushr", "eax", 0>>
  <2> DEFINE rs == <<"ebx", "edx", "ecx", "eax">>
  <2>1. Anys(rs) /\ Len(rs) = 4 /\ rs[1] = "ebx" /\ rs[2] = "edx" /\ rs[3] = "ecx" /\ rs[4] = "eax"
    BY Literals
  <2>2. u = pushes(rs)
    BY DEF DBG_PUSH
  <2> HIDE DEF rs, u
  <2>3. /\ Anys(u) /\ Len(u) = Len(rs) /\ \A k \in 1 .. Len(rs) : u[k] = <<"pushr", rs[k], 0>>
    BY <2>1, <2>2, Pushes
  <2> QED  BY <2>1, <2>3
<1>2. /\ Anys(w) /\ Len(w) = 4 /\ w[1] = <<"pop", "eax", 0>> /\ w[2] = <<"pop", "ecx", 0>>
      /\ w[3] = <<"pop", "edx", 0>> /\ w[4] = <<"pop", "ebx", 0>>
  BY Literals DEF DBG_POP, pop
<1>3. /\ Anys(v) /\ Len(v) = 9
      /\ v[1] = <<"push", W(2), 0>> /\ v[2] = <<"push", W(DBG_LEN(s)), 0>>
      /\ v[3] = <<"push", Str(Line(s)), 0>> /\ v[4] = <<"push", W(4), 0>>
      /\ v[5] = <<"pop", "eax", 0>>
      /\ v[6] = <<"pop", "ecx", 0>> /\ v[7] = <<"pop", "edx", 0>> /\ v[8] = <<"pop", "ebx", 0>>
      /\ v[9] = SYSCALL
  BY Dbg2Instrs
<1> DEFINE c == u \o v
<1>4. code = c \o w
  BY DEF dbg3
<1> HIDE DEF u, v, w
<1>5. /\ Anys(c) /\ Len(c) = Len(u) + Len(v)
      /\ \A k \in 1 .. Len(u) : c[k] = u[k]
      /\ \A k \in 1 .. Len(v) : c[Len(u) + k] = v[k]
  <2>1. Anys(u) /\ Anys(v)
    BY <1>1, <1>3
  <2> QED  BY <2>1, Joining
<1> HIDE DEF c
<1>6. Len(u) = 4 /\ Len(v) = 9 /\ Len(w) = 4 /\ Len(c) = 13 /\ Anys(c) /\ Anys(w)
  BY <1>1, <1>2, <1>3, <1>5
<1>7. /\ c[1] = u[1] /\ c[2] = u[2] /\ c[3] = u[3] /\ c[4] = u[4] /\ c[5] = v[1] /\ c[6] = v[2]
      /\ c[7] = v[3] /\ c[8] = v[4] /\ c[9] = v[5] /\ c[10] = v[6] /\ c[11] = v[7] /\ c[12] = v[8]
      /\ c[13] = v[9]
  BY <1>5, <1>6
<1>8. /\ Len(code) = Len(c) + Len(w)
      /\ \A k \in 1 .. Len(c) : code[k] = c[k]
      /\ \A k \in 1 .. Len(w) : code[Len(c) + k] = w[k]
  <2>1. Anys(c) /\ Anys(w)
    BY <1>6
  <2>2. /\ Len(c \o w) = Len(c) + Len(w)
        /\ \A k \in 1 .. Len(c) : (c \o w)[k] = c[k]
        /\ \A k \in 1 .. Len(w) : (c \o w)[Len(c) + k] = w[k]
    BY <2>1, Joining
  <2> QED  BY <1>4, <2>2
<1>9. /\ Len(code) = 17 /\ code[1] = c[1] /\ code[2] = c[2] /\ code[3] = c[3] /\ code[4] = c[4]
      /\ code[5] = c[5] /\ code[6] = c[6] /\ code[7] = c[7] /\ code[8] = c[8] /\ code[9] = c[9]
      /\ code[10] = c[10] /\ code[11] = c[11] /\ code[12] = c[12] /\ code[13] = c[13]
      /\ code[14] = w[1] /\ code[15] = w[2] /\ code[16] = w[3] /\ code[17] = w[4]
  BY <1>6, <1>8, SMTT(30)
<1> QED  BY <1>1, <1>2, <1>3, <1>7, <1>9 DEF Dbg3Code

Dbg3Table(s) ==
  /\ pc \in {1, 2, 3, 4, 5, 6, 7, 8, 9, 10, 11, 12, 13, 14, 15, 16, 17, 18}
  /\ stack[1] = Junk("stack")
  /\ regs["esi"] = entry["esi"] /\ regs["edi"] = entry["edi"]
  /\ pc \in {1, 2, 3, 4, 5} => Len(stack) = pc
  /\ pc \in {1, 2, 3, 4, 5} => /\ regs["eax"] = entry["eax"] /\ regs["ebx"] = entry["ebx"]
                           /\ regs["ecx"] = entry["ecx"] /\ regs["edx"] = entry["edx"]
  /\ pc \in {2, 3, 4, 5, 6, 7, 8, 9, 10, 11, 12, 13, 14, 15, 16, 17} => stack[2] = entry["ebx"]
  /\ pc \in {3, 4, 5, 6, 7, 8, 9, 10, 11, 12, 13, 14, 15, 16} => stack[3] = entry["edx"]
  /\ pc \in {4, 5, 6, 7, 8, 9, 10, 11, 12, 13, 14, 15} => stack[4] = entry["ecx"]
  /\ pc \in {5, 6, 7, 8, 9, 10, 11, 12, 13, 14} => stack[5] = entry["eax"]
  /\ pc \in {5, 6, 7, 8, 9} => Len(stack) = pc
  /\ pc \in {10, 11, 12, 13} => Len(stack) = 18 - pc
  /\ pc \in {6, 7, 8, 9, 10, 11, 12} => stack[6] = W(2)
  /\ pc \in {7, 8, 9, 10, 11} => stack[7] = W(DBG_LEN(s))
  /\ pc \in {8, 9, 10} => stack[8] = Str(Line(s))
  /\ pc = 9 => stack[9] = W(4)
  /\ pc \in {10, 11, 12, 13} => regs["eax"] = W(4)
  /\ pc \in {11, 12, 13} => regs["ecx"] = Str(Line(s))
  /\ pc \in {12, 13} => regs["edx"] = W(DBG_LEN(s))
  /\ pc = 13 => regs["ebx"] = W(2)
  /\ pc \in {14, 15, 16, 17, 18} => Len(stack) = 19 - pc
  /\ pc \in {15, 16, 17, 18} => regs["eax"] = entry["eax"]
  /\ pc \in {16, 17, 18} => regs["ecx"] = entry["ecx"]
  /\ pc \in {17, 18} => regs["edx"] = entry["edx"]
  /\ pc = 18 => regs["ebx"] = entry["ebx"]
LEMMA Dbg3Step ==
  ASSUME Frame, how = << >>, Next, prog = "dbg3", arch = "i386",
         NEW s, Terminated(s), s = text, Dbg3Code(s), Dbg3Table(s)
  PROVE  Leads(Dbg3Table(s)')
<1>n. Len(code) = 17
  BY DEF Dbg3Code
<1>a. /\ how = << >> /\ DOMAIN regs = Reg /\ Anys(stack) /\ Anys(out)
      /\ Len(code) \in Nat /\ Dbg3Table(s)
  BY <1>n DEF Frame
<1>1. CASE pc = 1
  <2>1. Ins(<<"pushr", "ebx", 0>>)
    BY <1>a, <1>n, <1>1 DEF Ins, Dbg3Code
  <2>2. Len(stack) = 1
    BY <1>a, <1>1 DEF Dbg3Table, Bare
  <2>3. /\ Fine /\ how' = << >> /\ pc' = pc + 1 /\ entry' = entry /\ arch' = arch /\ Len(stack') = 2
        /\ regs' = regs /\ stack'[2] = regs["ebx"] /\ stack'[1] = stack[1]
    BY <2>1, <2>2, PushRAt
  <2>4. Dbg3Table(s)'
    BY <1>a, <1>1, <2>3 DEF Reg, Dbg3Table
  <2> QED  BY <2>3, <2>4 DEF Leads
<1>2. CASE pc = 2
  <2>1. Ins(<<"pushr", "edx", 0>>)
    BY <1>a, <1>n, <1>2 DEF Ins, Dbg3Code
  <2>2. Len(stack) = 2
    BY <1>a, <1>2 DEF Dbg3Table, Bare
  <2>3. /\ Fine /\ how' = << >> /\ pc' = pc + 1 /\ entry' = entry /\ arch' = arch /\ Len(stack') = 3
        /\ regs' = regs /\ stack'[3] = regs["edx"] /\ stack'[1] = stack[1] /\ stack'[2] = stack[2]
    BY <2>1, <2>2, PushRAt
  <2>4. Dbg3Table(s)'
    BY <1>a, <1>2, <2>3 DEF Reg, Dbg3Table
  <2> QED  BY <2>3, <2>4 DEF Leads
<1>3. CASE pc = 3
  <2>1. Ins(<<"pushr", "ecx", 0>>)
    BY <1>a, <1>n, <1>3 DEF Ins, Dbg3Code
  <2>2. Len(stack) = 3
    BY <1>a, <1>3 DEF Dbg3Table, Bare
  <2>3. /\ Fine /\ how' = << >> /\ pc' = pc + 1 /\ entry' = entry /\ arch' = arch /\ Len(stack') = 4
        /\ regs' = regs /\ stack'[4] = regs["ecx"] /\ stack'[1] = stack[1] /\ stack'[2] = stack[2]
        /\ stack'[3] = stack[3]
    BY <2>1, <2>2, PushRAt
  <2>4. Dbg3Table(s)'
    BY <1>a, <1>3, <2>3 DEF Reg, Dbg3Table
  <2> QED  BY <2>3, <2>4 DEF Leads
<1>4. CASE pc = 4
  <2>1. Ins(<<"pushr", "eax", 0>>)
    BY <1>a, <1>n, <1>4 DEF Ins, Dbg3Code
  <2>2. Len(stack) = 4
    BY <1>a, <1>4 DEF Dbg3Table, Bare
  <2>3. /\ Fine /\ how' = << >> /\ pc' = pc + 1 /\ entry' = entry /\ arch' = arch /\ Len(stack') = 5
        /\ regs' = regs /\ stack'[5] = regs["eax"] /\ stack'[1] = stack[1] /\ stack'[2] = stack[2]
        /\ stack'[3] = stack[3] /\ stack'[4] = stack[4]
    BY <2>1, <2>2, PushRAt
  <2>4. Dbg3Table(s)'
    BY <1>a, <1>4, <2>3 DEF Reg, Dbg3Table
  <2> QED  BY <2>3, <2>4 DEF Leads
<1>5. CASE pc = 5
  <2>1. Ins(<<"push", W(2), 0>>)
    BY <1>a, <1>n, <1>5 DEF Ins, Dbg3Code
  <2>2. Len(stack) = 5
    BY <1>a, <1>5 DEF Dbg3Table, Bare
  <2>3. /\ Fine /\ how' = << >> /\ pc' = pc + 1 /\ entry' = entry /\ arch' = arch /\ Len(stack') = 6
        /\ regs' = regs /\ stack'[6] = W(2) /\ stack'[1] = stack[1] /\ stack'[2] = stack[2]
        /\ stack'[3] = stack[3] /\ stack'[4] = stack[4] /\ stack'[5] = stack[5]
    BY <2>1, <2>2, PushAt
  <2>4. Dbg3Table(s)'
    BY <1>a, <1>5, <2>3 DEF Reg, Dbg3Table
  <2> QED  BY <2>3, <2>4 DEF Leads
<1>6. CASE pc = 6
  <2>1. Ins(<<"push", W(DBG_LEN(s)), 0>>)
    BY <1>a, <1>n, <1>6 DEF Ins, Dbg3Code
  <2>2. Len(stack) = 6
    BY <1>a, <1>6 DEF Dbg3Table, Bare
  <2>3. /\ Fine /\ how' = << >> /\ pc' = pc + 1 /\ entry' = entry /\ arch' = arch /\ Len(stack') = 7
        /\ regs' = regs /\ stack'[7] = W(DBG_LEN(s)) /\ stack'[1] = stack[1]
        /\ stack'[2] = stack[2]
        /\ stack'[3] = stack[3] /\ stack'[4] = stack[4] /\ stack'[5] = stack[5]
        /\ stack'[6] = stack[6]
    BY <2>1, <2>2, PushAt
  <2>4. Dbg3Table(s)'
    BY <1>a, <1>6, <2>3 DEF Reg, Dbg3Table
  <2> QED  BY <2>3, <2>4 DEF Leads
<1>7. CASE pc = 7
  <2>1. Ins(<<"push", Str(Line(s)), 0>>)
    BY <1>a, <1>n, <1>7 DEF Ins, Dbg3Code
  <2>2. Len(stack) = 7
    BY <1>a, <1>7 DEF Dbg3Table, Bare
  <2>3. /\ Fine /\ how' = << >> /\ pc' = pc + 1 /\ entry' = entry /\ arch' = arch /\ Len(stack') = 8
        /\ regs' = regs /\ stack'[8] = Str(Line(s)) /\ stack'[1] = stack[1] /\ stack'[2] = stack[2]
        /\ stack'[3] = stack[3] /\ stack'[4] = stack[4] /\ stack'[5] = stack[5]
        /\ stack'[6] = stack[6]
        /\ stack'[7] = stack[7]
    BY <2>1, <2>2, PushAt
  <2>4. Dbg3Table(s)'
    BY <1>a, <1>7, <2>3 DEF Reg, Dbg3Table
  <2> QED  BY <2>3, <2>4 DEF Leads
<1>8. CASE pc = 8
  <2>1. Ins(<<"push", W(4), 0>>)
    BY <1>a, <1>n, <1>8 DEF Ins, Dbg3Code
  <2>2. Len(stack) = 8
    BY <1>a, <1>8 DEF Dbg3Table, Bare
  <2>3. /\ Fine /\ how' = << >> /\ pc' = pc + 1 /\ entry' = entry /\ arch' = arch /\ Len(stack') = 9
        /\ regs' = regs /\ stack'[9] = W(4) /\ stack'[1] = stack[1] /\ stack'[2] = stack[2]
        /\ stack'[3] = stack[3] /\ stack'[4] = stack[4] /\ stack'[5] = stack[5]
        /\ stack'[6] = stack[6]
        /\ stack'[7] = stack[7] /\ stack'[8] = stack[8]
    BY <2>1, <2>2, PushAt
  <2>4. Dbg3Table(s)'
    BY <1>a, <1>8, <2>3 DEF Reg, Dbg3Table
  <2> QED  BY <2>3, <2>4 DEF Leads
<1>9. CASE pc = 9
  <2>1. Ins(<<"pop", "eax", 0>>)
    BY <1>a, <1>n, <1>9 DEF Ins, Dbg3Code
  <2>2. Len(stack) = 9
    BY <1>a, <1>9 DEF Dbg3Table, Bare
  <2>3. /\ Fine /\ how' = << >> /\ pc' = pc + 1 /\ entry' = entry /\ arch' = arch /\ Len(stack') = 8
        /\ regs' = [regs EXCEPT !["eax"] = stack[9]] /\ stack'[1] = stack[1] /\ stack'[2] = stack[2]
        /\ stack'[3] = stack[3] /\ stack'[4] = stack[4] /\ stack'[5] = stack[5]
        /\ stack'[6] = stack[6]
        /\ stack'[7] = stack[7] /\ stack'[8] = stack[8]
    BY <2>1, <2>2, PopAt
  <2>4. Dbg3Table(s)'
    BY <1>a, <1>9, <2>3 DEF Reg, Dbg3Table
  <2> QED  BY <2>3, <2>4 DEF Leads
<1>10. CASE pc = 10
  <2>1. Ins(<<"pop", "ecx", 0>>)
    BY <1>a, <1>n, <1>10 DEF Ins, Dbg3Code
  <2>2. Len(stack) = 8
    BY <1>a, <1>10 DEF Dbg3Table, Bare
  <2>3. /\ Fine /\ how' = << >> /\ pc' = pc + 1 /\ entry' = entry /\ arch' = arch /\ Len(stack') = 7
        /\ regs' = [regs EXCEPT !["ecx"] = stack[8]] /\ stack'[1] = stack[1] /\ stack'[2] = stack[2]
        /\ stack'[3] = stack[3] /\ stack'[4] = stack[4] /\ stack'[5] = stack[5]
        /\ stack'[6] = stack[6]
        /\ stack'[7] = stack[7]
    BY <2>1, <2>2, PopAt
  <2>4. Dbg3Table(s)'
    BY <1>a, <1>10, <2>3 DEF Reg, Dbg3Table
  <2> QED  BY <2>3, <2>4 DEF Leads
<1>11. CASE pc = 11
  <2>1. Ins(<<"pop", "edx", 0>>)
    BY <1>a, <1>n, <1>11 DEF Ins, Dbg3Code
  <2>2. Len(stack) = 7
    BY <1>a, <1>11 DEF Dbg3Table, Bare
  <2>3. /\ Fine /\ how' = << >> /\ pc' = pc + 1 /\ entry' = entry /\ arch' = arch /\ Len(stack') = 6
        /\ regs' = [regs EXCEPT !["edx"] = stack[7]] /\ stack'[1] = stack[1] /\ stack'[2] = stack[2]
        /\ stack'[3] = stack[3] /\ stack'[4] = stack[4] /\ stack'[5] = stack[5]
        /\ stack'[6] = stack[6]
    BY <2>1, <2>2, PopAt
  <2>4. Dbg3Table(s)'
    BY <1>a, <1>11, <2>3 DEF Reg, Dbg3Table
  <2> QED  BY <2>3, <2>4 DEF Leads
<1>12. CASE pc = 12
  <2>1. Ins(<<"pop", "ebx", 0>>)
    BY <1>a, <1>n, <1>12 DEF Ins, Dbg3Code
  <2>2. Len(stack) = 6
    BY <1>a, <1>12 DEF Dbg3Table, Bare
  <2>3. /\ Fine /\ how' = << >> /\ pc' = pc + 1 /\ entry' = entry /\ arch' = arch /\ Len(stack') = 5
        /\ regs' = [regs EXCEPT !["ebx"] = stack[6]] /\ stack'[1] = stack[1] /\ stack'[2] = stack[2]
        /\ stack'[3] = stack[3] /\ stack'[4] = stack[4] /\ stack'[5] = stack[5]
    BY <2>1, <2>2, PopAt
  <2>4. Dbg3Table(s)'
    BY <1>a, <1>12, <2>3 DEF Reg, Dbg3Table
  <2> QED  BY <2>3, <2>4 DEF Leads
<1>13. CASE pc = 13
  <2>1. Ins(SYSCALL)
    BY <1>a, <1>n, <1>13 DEF Ins, Dbg3Code
  <2>2. /\ regs[ARG(arch, 1)] = W(2) /\ regs[ARG(arch, 2)] = Str(Line(s))
        /\ regs[ARG(arch, 3)] = W(DBG_LEN(s)) /\ regs["eax"] = NR_write(arch)
    BY <1>a, <1>13 DEF Dbg3Table, ARG, NR_write
  <2>3. Sound(Line(s), DBG_LEN(s))
    BY SoundLineOf
  <2>4. /\ Fine /\ how' = << >> /\ pc' = pc + 1 /\ UNCHANGED <<stack, sf>>
        /\ \A r \in Reg \ ({"eax"} \cup Lost) : regs'[r] = regs[r]
    BY <2>1, <2>2, <2>3, SaysString
  <2>5. Dbg3Table(s)'
    BY <1>a, <1>13, <2>4 DEF Fine, Same, Dbg3Table, Lost, Reg
  <2> QED  BY <2>4, <2>5 DEF Leads
<1>14. CASE pc = 14
  <2>1. Ins(<<"pop", "eax", 0>>)
    BY <1>a, <1>n, <1>14 DEF Ins, Dbg3Code
  <2>2. Len(stack) = 5
    BY <1>a, <1>14 DEF Dbg3Table, Bare
  <2>3. /\ Fine /\ how' = << >> /\ pc' = pc + 1 /\ entry' = entry /\ arch' = arch /\ Len(stack') = 4
        /\ regs' = [regs EXCEPT !["eax"] = stack[5]] /\ stack'[1] = stack[1] /\ stack'[2] = stack[2]
        /\ stack'[3] = stack[3] /\ stack'[4] = stack[4]
    BY <2>1, <2>2, PopAt
  <2>4. Dbg3Table(s)'
    BY <1>a, <1>14, <2>3 DEF Reg, Dbg3Table
  <2> QED  BY <2>3, <2>4 DEF Leads
<1>15. CASE pc = 15
  <2>1. Ins(<<"pop", "ecx", 0>>)
    BY <1>a, <1>n, <1>15 DEF Ins, Dbg3Code
  <2>2. Len(stack) = 4
    BY <1>a, <1>15 DEF Dbg3Table, Bare
  <2>3. /\ Fine /\ how' = << >> /\ pc' = pc + 1 /\ entry' = entry /\ arch' = arch /\ Len(stack') = 3
        /\ regs' = [regs EXCEPT !["ecx"] = stack[4]] /\ stack'[1] = stack[1] /\ stack'[2] = stack[2]
        /\ stack'[3] = stack[3]
    BY <2>1, <2>2, PopAt
  <2>4. Dbg3Table(s)'
    BY <1>a, <1>15, <2>3 DEF Reg, Dbg3Table
  <2> QED  BY <2>3, <2>4 DEF Leads
<1>16. CASE pc = 16
  <2>1. Ins(<<"pop", "edx", 0>>)
    BY <1>a, <1>n, <1>16 DEF Ins, Dbg3Code
  <2>2. Len(stack) = 3
    BY <1>a, <1>16 DEF Dbg3Table, Bare
  <2>3. /\ Fine /\ how' = << >> /\ pc' = pc + 1 /\ entry' = entry /\ arch' = arch /\ Len(stack') = 2
        /\ regs' = [regs EXCEPT !["edx"] = stack[3]] /\ stack'[1] = stack[1] /\ stack'[2] = stack[2]
    BY <2>1, <2>2, PopAt
  <2>4. Dbg3Table(s)'
    BY <1>a, <1>16, <2>3 DEF Reg, Dbg3Table
  <2> QED  BY <2>3, <2>4 DEF Leads
<1>17. CASE pc = 17
  <2>1. Ins(<<"pop", "ebx", 0>>)
    BY <1>a, <1>n, <1>17 DEF Ins, Dbg3Code
  <2>2. Len(stack) = 2
    BY <1>a, <1>17 DEF Dbg3Table, Bare
  <2>3. /\ Fine /\ how' = << >> /\ pc' = pc + 1 /\ entry' = entry /\ arch' = arch /\ Len(stack') = 1
        /\ regs' = [regs EXCEPT !["ebx"] = stack[2]] /\ stack'[1] = stack[1]
    BY <2>1, <2>2, PopAt
  <2>4. Dbg3Table(s)'
    BY <1>a, <1>17, <2>3 DEF Reg, Dbg3Table
  <2> QED  BY <2>3, <2>4 DEF Leads
<1>18. CASE pc = 18
  <2>1. pc = Len(code) + 1 /\ Len(code) \in Nat
    <3>1. 17 + 1 = 18
      OBVIOUS
    <3> QED  BY <1>n, <1>18, <3>1
  <2>2. Bare /\ \A r \in Reg \ Told : regs[r] = entry[r]
    BY <1>a, <1>18 DEF Dbg3Table, Bare, Reg
  <2>3. Fine /\ Ending
    BY <1>a, <2>1, <2>2, Returning
  <2> QED  BY <2>3 DEF Leads
<1> QED  BY <1>a, <1>1, <1>2, <1>3, <1>4, <1>5, <1>6, <1>7, <1>8, <1>9, <1>10, <1>11, <1>12,
       <1>13, <1>14, <1>15, <1>16, <1>17, <1>18 DEF Dbg3Table

-----------------------------------------------------------------------------
(* The programs that print an answer of cpuid: cpuid, cpuid2, cpuid3,      *)
(* cpuid4 and cpuid6.                                                      *)

LEMMA CpuidPush ==
  ASSUME NEW rs, Anys(rs)
  PROVE  LET c == cpuidPush(rs)
         IN  /\ Anys(c) /\ Len(c) = Len(rs) + 2 /\ c[1] = <<"cpuid", 0, 0>>
             /\ \A k \in 1 .. Len(rs) : c[1 + k] = <<"pushr", rs[k], 0>>
             /\ c[Len(rs) + 2] = <<"sp", "ecx", 0>>
<1> DEFINE u == <<<<"cpuid", 0, 0>>>>
<1> DEFINE v == pushes(rs)
<1> DEFINE w == <<<<"sp", "ecx", 0>>>>
<1>1. /\ Anys(u) /\ Len(u) = 1 /\ u[1] = <<"cpuid", 0, 0>>
      /\ Anys(w) /\ Len(w) = 1 /\ w[1] = <<"sp", "ecx", 0>>
  BY Literals
<1>2. /\ Anys(v) /\ Len(v) = Len(rs) /\ \A k \in 1 .. Len(rs) : v[k] = <<"pushr", rs[k], 0>>
  BY Pushes
<1>3. cpuidPush(rs) = (u \o v) \o w
  BY DEF cpuidPush
<1>4. Len(rs) \in Nat
  BY Lengths
<1> HIDE DEF u, v, w
<1>5. /\ Anys(u \o v) /\ Len(u \o v) = Len(u) + Len(v)
      /\ \A k \in 1 .. Len(u) : (u \o v)[k] = u[k]
      /\ \A k \in 1 .. Len(v) : (u \o v)[Len(u) + k] = v[k]
  <2>1. Anys(u) /\ Anys(v)
    BY <1>1, <1>2
  <2> QED  BY <2>1, Joining
<1> DEFINE c == u \o v
<1> HIDE DEF c
<1>6. /\ Anys(c) /\ Len(c) = 1 + Len(rs) /\ c[1] = <<"cpuid", 0, 0>>
      /\ \A k \in 1 .. Len(rs) : c[1 + k] = <<"pushr", rs[k], 0>>
  BY <1>1, <1>2, <1>5 DEF c
<1>7. /\ Anys(c \o w) /\ Len(c \o w) = Len(c) + Len(w)
      /\ \A k \in 1 .. Len(c) : (c \o w)[k] = c[k]
      /\ \A k \in 1 .. Len(w) : (c \o w)[Len(c) + k] = w[k]
  <2>1. Anys(c) /\ Anys(w)
    BY <1>1, <1>6
  <2> QED  BY <2>1, Joining
<1> DEFINE p == c \o w
<1>8. cpuidPush(rs) = p
  BY <1>3 DEF c
<1> HIDE DEF p
<1>9. /\ Anys(p) /\ Len(p) = Len(c) + Len(w) /\ \A k \in 1 .. Len(c) : p[k] = c[k]
      /\ \A k \in 1 .. Len(w) : p[Len(c) + k] = w[k]
  BY <1>7 DEF p
<1>10. Len(p) = Len(rs) + 2
  BY <1>1, <1>4, <1>6, <1>9
<1>11. p[1] = <<"cpuid", 0, 0>>
  BY <1>4, <1>6, <1>9
<1>12. \A k \in 1 .. Len(rs) : p[1 + k] = <<"pushr", rs[k], 0>>
  BY <1>4, <1>6, <1>9
<1>13. p[Len(rs) + 2] = <<"sp", "ecx", 0>>
  <2>1. p[Len(c) + 1] = w[1]
    BY <1>1, <1>9
  <2>2. Len(c) + 1 = Len(rs) + 2
    BY <1>4, <1>6
  <2> QED  BY <1>1, <2>1, <2>2
<1> QED  BY <1>8, <1>9, <1>10, <1>11, <1>12, <1>13

LEMMA IdsMaker ==
  ASSUME prog \notin {"cpuid3", "cpuid4", "cpuid5", "cpuid6"}, NEW r, r.what = Maker(W(0)), r.n = 12
  PROVE  Ids(r)
BY DEF Ids

LEMMA IdsHypervisor ==
  ASSUME prog = "cpuid3", NEW r, r.what = Hypervisor, r.n = 12
  PROVE  Ids(r)
BY DEF Ids

LEMMA IdsBrand ==
  ASSUME prog = "cpuid4", NEW r, r.what = Brand(2), r.n = 16
  PROVE  Ids(r)
BY DEF Ids

LEMMA IdsFound ==
  ASSUME prog = "cpuid6", NEW r, r.what = Maker(entry["eax"]), r.n = 12
  PROVE  Ids(r)
BY DEF Ids

LEMMA Spell3 ==
  ASSUME NEW v, NEW a, NEW b, NEW c, NEW e \in Nat,
         stack[e] = <<"cpuid", v, a>>, stack[e - 1] = <<"cpuid", v, b>>, stack[e - 2] = <<"cpuid", v, c>>
  PROVE  /\ Words(e, 3) = Spelt(v, <<a, b, c>>)
         /\ \A k \in 1 .. 3 : Words(e, 3)[k] # Junk("stack")
<1> DEFINE rs == <<a, b, c>>
<1>1. DOMAIN rs = 1 .. 3 /\ rs[1] = a /\ rs[2] = b /\ rs[3] = c
  OBVIOUS
<1> HIDE DEF rs
<1>2. ASSUME NEW k \in 1 .. 3
      PROVE  stack[e + 1 - k] = <<"cpuid", v, rs[k]>>
  <2>1. e + 1 - 1 = e /\ e + 1 - 2 = e - 1 /\ e + 1 - 3 = e - 2
    OBVIOUS
  <2>2. k = 1 \/ k = 2 \/ k = 3
    BY <1>2
  <2> QED  BY <1>1, <2>1, <2>2
<1>3. Words(e, 3) = Spelt(v, rs)
  BY <1>1, <1>2 DEF Words, Spelt
<1>4. \A k \in 1 .. 3 : Words(e, 3)[k] # Junk("stack")
  BY <1>2 DEF Words, Junk
<1> QED  BY <1>3, <1>4 DEF rs

LEMMA Spell4 ==
  ASSUME NEW v, NEW e \in Nat,
         stack[e] = <<"cpuid", v, "eax">>, stack[e - 1] = <<"cpuid", v, "ebx">>,
         stack[e - 2] = <<"cpuid", v, "ecx">>, stack[e - 3] = <<"cpuid", v, "edx">>
  PROVE  /\ Words(e, 4) = Spelt(v, <<"eax", "ebx", "ecx", "edx">>)
         /\ \A k \in 1 .. 4 : Words(e, 4)[k] # Junk("stack")
<1> DEFINE rs == <<"eax", "ebx", "ecx", "edx">>
<1>1. DOMAIN rs = 1 .. 4 /\ rs[1] = "eax" /\ rs[2] = "ebx" /\ rs[3] = "ecx" /\ rs[4] = "edx"
  OBVIOUS
<1> HIDE DEF rs
<1>2. ASSUME NEW k \in 1 .. 4
      PROVE  stack[e + 1 - k] = <<"cpuid", v, rs[k]>>
  <2>1. e + 1 - 1 = e /\ e + 1 - 2 = e - 1 /\ e + 1 - 3 = e - 2 /\ e + 1 - 4 = e - 3
    OBVIOUS
  <2>2. k = 1 \/ k = 2 \/ k = 3 \/ k = 4
    BY <1>2
  <2> QED  BY <1>1, <2>1, <2>2
<1>3. Words(e, 4) = Spelt(v, rs)
  BY <1>1, <1>2 DEF Words, Spelt
<1>4. \A k \in 1 .. 4 : Words(e, 4)[k] # Junk("stack")
  BY <1>2 DEF Words, Junk
<1> QED  BY <1>3, <1>4 DEF rs

AskTable(v, q1, q2) ==
  /\ pc \in {1, 2, 3, 4, 5, 6, 7, 8, 9, 10, 11} /\ stack[1] = Junk("stack")
  /\ regs["esi"] = entry["esi"] /\ regs["edi"] = entry["edi"]
  /\ pc \in {1, 2, 3} => Len(stack) = 1
  /\ pc \in {4, 5} => Len(stack) = pc - 2
  /\ pc \in {6, 7, 8, 9, 10, 11} => Len(stack) = 4
  /\ pc = 2 => regs["eax"] = v
  /\ pc \in {3, 4, 5} => \A r \in {"eax", "ebx", "ecx", "edx"} : regs[r] = <<"cpuid", v, r>>
  /\ pc \in {4, 5, 6, 7, 8, 9, 10} => stack[2] = <<"cpuid", v, q1>>
  /\ pc \in {5, 6, 7, 8, 9, 10} => stack[3] = <<"cpuid", v, q2>>
  /\ pc \in {6, 7, 8, 9, 10} => stack[4] = <<"cpuid", v, "ebx">>
  /\ pc \in {7, 8, 9, 10} => regs["ecx"] = <<"esp", 4, 0>>
  /\ pc \in {8, 9, 10} => regs["ebx"] = W(1)
  /\ pc \in {9, 10} => regs["edx"] = W(12)
  /\ pc = 10 => regs["eax"] = W(4)
AskCode(v, q1, q2) ==
  /\ Len(code) = 10
  /\ code[1] = <<"li", v, "eax">> /\ code[2] = <<"cpuid", 0, 0>> /\ code[3] = <<"pushr", q1, 0>>
  /\ code[4] = <<"pushr", q2, 0>> /\ code[5] = <<"pushr", "ebx", 0>>
  /\ code[6] = <<"sp", "ecx", 0>> /\ code[7] = <<"li", W(1), "ebx">>
  /\ code[8] = <<"li", W(12), "edx">> /\ code[9] = <<"li", W(4), "eax">> /\ code[10] = SYSCALL
LEMMA AskStep ==
  ASSUME Frame, how = << >>, Next, arch = "i386",
         NEW v, NEW q1 \in {"eax", "ebx", "ecx", "edx"}, NEW q2 \in {"eax", "ebx", "ecx", "edx"},
         \/ prog = "cpuid2" /\ v = W(0) /\ q1 = "ecx" /\ q2 = "edx"
         \/ prog = "cpuid3" /\ v = <<16384, 0>> /\ q1 = "edx" /\ q2 = "ecx",
         Len(code) \in Nat, AskCode(v, q1, q2), AskTable(v, q1, q2)
  PROVE  Leads(AskTable(v, q1, q2)')
<1>n. Len(code) = 10
  BY DEF AskCode
<1>a. /\ how = << >> /\ DOMAIN regs = Reg /\ Anys(stack) /\ Anys(out)
      /\ Len(code) \in Nat /\ AskTable(v, q1, q2)
  BY <1>n DEF Frame
<1>1. CASE pc = 1
  <2>1. Ins(<<"li", v, "eax">>)
    BY <1>a, <1>n, <1>1 DEF Ins, AskCode
  <2>2. Stepped /\ UNCHANGED <<stack, sf>> /\ regs' = [regs EXCEPT !["eax"] = v]
    BY <2>1, DoLi
  <2>3. AskTable(v, q1, q2)'
    BY <1>a, <1>1, <2>2 DEF Stepped, Reg, AskTable
  <2> QED  BY <1>a, <2>2, <2>3, Onward DEF Leads
<1>2. CASE pc = 2
  <2>1. Ins(<<"cpuid", 0, 0>>)
    BY <1>a, <1>n, <1>2 DEF Ins, AskCode
  <2>2. /\ Stepped /\ UNCHANGED <<stack, sf>> /\ DOMAIN regs' = Reg
        /\ \A r \in {"eax", "ebx", "ecx", "edx"} : regs'[r] = <<"cpuid", regs["eax"], r>>
        /\ regs'["esi"] = regs["esi"] /\ regs'["edi"] = regs["edi"]
    BY <2>1, DoCpuid
  <2>3. AskTable(v, q1, q2)'
    BY <1>a, <1>2, <2>2 DEF Stepped, Reg, AskTable
  <2> QED  BY <1>a, <2>2, <2>3, Onward DEF Leads
<1>3. CASE pc = 3
  <2>1. Ins(<<"pushr", q1, 0>>)
    BY <1>a, <1>n, <1>3 DEF Ins, AskCode
  <2>2. Len(stack) = 1
    BY <1>a, <1>3 DEF AskTable, Bare
  <2>3. /\ Fine /\ how' = << >> /\ pc' = pc + 1 /\ entry' = entry /\ arch' = arch /\ Len(stack') = 2
        /\ regs' = regs /\ stack'[2] = regs[q1] /\ stack'[1] = stack[1]
    BY <2>1, <2>2, PushRAt
  <2>4. AskTable(v, q1, q2)'
    BY <1>a, <1>3, <2>3 DEF Reg, AskTable
  <2> QED  BY <2>3, <2>4 DEF Leads
<1>4. CASE pc = 4
  <2>1. Ins(<<"pushr", q2, 0>>)
    BY <1>a, <1>n, <1>4 DEF Ins, AskCode
  <2>2. Len(stack) = 2
    BY <1>a, <1>4 DEF AskTable, Bare
  <2>3. /\ Fine /\ how' = << >> /\ pc' = pc + 1 /\ entry' = entry /\ arch' = arch /\ Len(stack') = 3
        /\ regs' = regs /\ stack'[3] = regs[q2] /\ stack'[1] = stack[1] /\ stack'[2] = stack[2]
    BY <2>1, <2>2, PushRAt
  <2>4. AskTable(v, q1, q2)'
    BY <1>a, <1>4, <2>3 DEF Reg, AskTable
  <2> QED  BY <2>3, <2>4 DEF Leads
<1>5. CASE pc = 5
  <2>1. Ins(<<"pushr", "ebx", 0>>)
    BY <1>a, <1>n, <1>5 DEF Ins, AskCode
  <2>2. Len(stack) = 3
    BY <1>a, <1>5 DEF AskTable, Bare
  <2>3. /\ Fine /\ how' = << >> /\ pc' = pc + 1 /\ entry' = entry /\ arch' = arch /\ Len(stack') = 4
        /\ regs' = regs /\ stack'[4] = regs["ebx"] /\ stack'[1] = stack[1] /\ stack'[2] = stack[2]
        /\ stack'[3] = stack[3]
    BY <2>1, <2>2, PushRAt
  <2>4. AskTable(v, q1, q2)'
    BY <1>a, <1>5, <2>3 DEF Reg, AskTable
  <2> QED  BY <2>3, <2>4 DEF Leads
<1>6. CASE pc = 6
  <2>1. Ins(<<"sp", "ecx", 0>>)
    BY <1>a, <1>n, <1>6 DEF Ins, AskCode
  <2>2. /\ Stepped /\ UNCHANGED <<stack, sf>>
        /\ regs' = [regs EXCEPT !["ecx"] = <<"esp", Len(stack), 0>>]
    BY <2>1, DoSp
  <2>3. Len(stack) = 4
    BY <1>a, <1>6 DEF AskTable
  <2>4. regs' = [regs EXCEPT !["ecx"] = <<"esp", 4, 0>>]
    BY <2>2, <2>3
  <2>5. /\ pc' = pc + 1 /\ stack' = stack /\ entry' = entry /\ regs'["ecx"] = <<"esp", 4, 0>>
        /\ \A r \in Reg : r # "ecx" => regs'[r] = regs[r]
    BY <1>a, <2>2, <2>4 DEF Stepped, Reg
  <2>6. AskTable(v, q1, q2)'
    BY <1>a, <1>6, <2>5 DEF Reg, AskTable
  <2> QED  BY <1>a, <2>2, <2>6, Onward DEF Leads
<1>7. CASE pc = 7
  <2>1. Ins(<<"li", W(1), "ebx">>)
    BY <1>a, <1>n, <1>7 DEF Ins, AskCode
  <2>2. Stepped /\ UNCHANGED <<stack, sf>> /\ regs' = [regs EXCEPT !["ebx"] = W(1)]
    BY <2>1, DoLi
  <2>3. AskTable(v, q1, q2)'
    BY <1>a, <1>7, <2>2 DEF Stepped, Reg, AskTable
  <2> QED  BY <1>a, <2>2, <2>3, Onward DEF Leads
<1>8. CASE pc = 8
  <2>1. Ins(<<"li", W(12), "edx">>)
    BY <1>a, <1>n, <1>8 DEF Ins, AskCode
  <2>2. Stepped /\ UNCHANGED <<stack, sf>> /\ regs' = [regs EXCEPT !["edx"] = W(12)]
    BY <2>1, DoLi
  <2>3. AskTable(v, q1, q2)'
    BY <1>a, <1>8, <2>2 DEF Stepped, Reg, AskTable
  <2> QED  BY <1>a, <2>2, <2>3, Onward DEF Leads
<1>9. CASE pc = 9
  <2>1. Ins(<<"li", W(4), "eax">>)
    BY <1>a, <1>n, <1>9 DEF Ins, AskCode
  <2>2. Stepped /\ UNCHANGED <<stack, sf>> /\ regs' = [regs EXCEPT !["eax"] = W(4)]
    BY <2>1, DoLi
  <2>3. AskTable(v, q1, q2)'
    BY <1>a, <1>9, <2>2 DEF Stepped, Reg, AskTable
  <2> QED  BY <1>a, <2>2, <2>3, Onward DEF Leads
<1>10. CASE pc = 10
  <2>1. Ins(SYSCALL)
    BY <1>a, <1>n, <1>10 DEF Ins, AskCode
  <2>2. /\ regs[ARG(arch, 1)] = W(1) /\ regs[ARG(arch, 2)] = <<"esp", 4, 0>>
        /\ regs[ARG(arch, 3)] = W(12) /\ regs["eax"] = NR_write(arch)
    BY <1>a, <1>10 DEF AskTable, ARG, NR_write
  <2>3. /\ stack[4] = <<"cpuid", v, "ebx">> /\ stack[3] = <<"cpuid", v, q2>>
        /\ stack[2] = <<"cpuid", v, q1>>
    BY <1>a, <1>10 DEF AskTable
  <2>4. 4 - 1 = 3 /\ 4 - 2 = 2
    OBVIOUS
  <2>5. /\ stack[4] = <<"cpuid", v, "ebx">> /\ stack[4 - 1] = <<"cpuid", v, q2>>
        /\ stack[4 - 2] = <<"cpuid", v, q1>>
    BY <2>3, <2>4
  <2>6. /\ Words(4, 3) = Spelt(v, <<"ebx", q2, q1>>)
        /\ \A k \in 1 .. 3 : Words(4, 3)[k] # Junk("stack")
    BY <2>5, Spell3
  <2>7. ASSUME NEW r, r.what = Words(4, 3), r.n = 12  PROVE Ids(r)
    <3>1. CASE prog = "cpuid2"
      <4>1. v = W(0) /\ q1 = "ecx" /\ q2 = "edx"
        BY <3>1
      <4>2. r.what = Maker(W(0))
        BY <2>6, <2>7, <4>1 DEF Maker
      <4> QED  BY <2>7, <3>1, <4>2, IdsMaker
    <3>2. CASE prog = "cpuid3"
      <4>1. v = <<16384, 0>> /\ q1 = "edx" /\ q2 = "ecx"
        BY <3>2
      <4>2. r.what = Hypervisor
        BY <2>6, <2>7, <4>1 DEF Hypervisor
      <4> QED  BY <2>7, <3>2, <4>2, IdsHypervisor
    <3> QED  BY <3>1, <3>2
  <2>8. 3 = (12 + 3) \div 4
    OBVIOUS
  <2>9. /\ Fine /\ how' = << >> /\ pc' = pc + 1 /\ UNCHANGED <<stack, sf>>
        /\ \A r \in Reg \ ({"eax"} \cup Lost) : regs'[r] = regs[r]
    BY <2>1, <2>2, <2>6, <2>7, <2>8, SaysWords
  <2>10. AskTable(v, q1, q2)'
    BY <1>a, <1>10, <2>9 DEF Fine, Same, Lost, Reg, AskTable
  <2> QED  BY <2>9, <2>10 DEF Leads
<1>11. CASE pc = 11
  <2>1. pc = Len(code) + 1 /\ Len(code) \in Nat
    <3>1. 10 + 1 = 11
      OBVIOUS
    <3> QED  BY <1>n, <1>11, <3>1
  <2>2. \A r \in Reg \ Told : regs[r] = entry[r]
    BY <1>a, <1>11 DEF AskTable, Bare, Reg, Told, ARG, Lost
  <2>3. Fine /\ Ending
    BY <1>a, <2>1, <2>2, Returning
  <2> QED  BY <2>3 DEF Leads
<1>d. pc \in {1, 2, 3, 4, 5, 6, 7, 8, 9, 10, 11}
  BY <1>a DEF AskTable
<1> QED  BY <1>d, <1>1, <1>2, <1>3, <1>4, <1>5, <1>6, <1>7, <1>8, <1>9, <1>10, <1>11

LEMMA MoreLiterals ==
  /\ \A a, b, c, d, e : Anys(<<a, b, c, d, e>>)
  /\ \A a, b, c, d, e, f : Anys(<<a, b, c, d, e, f>>)
<1>1. \A a, b, c, d, e : <<a, b, c, d, e>> \in Seq({a, b, c, d, e})
  OBVIOUS
<1>2. \A a, b, c, d, e, f : <<a, b, c, d, e, f>> \in Seq({a, b, c, d, e, f})
  OBVIOUS
<1> QED  BY <1>1, <1>2 DEF Anys

LEMMA Pushes3 ==
  ASSUME NEW a, NEW b, NEW c
  PROVE  LET p == pushes(<<a, b, c>>)
         IN  /\ Anys(p) /\ Len(p) = 3
             /\ p[1] = <<"pushr", a, 0>> /\ p[2] = <<"pushr", b, 0>> /\ p[3] = <<"pushr", c, 0>>
<1> DEFINE rs == <<a, b, c>>
<1>1. Anys(rs) /\ Len(rs) = 3 /\ rs[1] = a /\ rs[2] = b /\ rs[3] = c
  BY Literals
<1> HIDE DEF rs
<1>2. /\ Anys(pushes(rs)) /\ Len(pushes(rs)) = Len(rs)
      /\ \A k \in 1 .. Len(rs) : pushes(rs)[k] = <<"pushr", rs[k], 0>>
  BY <1>1, Pushes
<1> DEFINE p == pushes(rs)
<1> HIDE DEF p
<1>3. /\ Anys(p) /\ Len(p) = 3
      /\ p[1] = <<"pushr", a, 0>> /\ p[2] = <<"pushr", b, 0>> /\ p[3] = <<"pushr", c, 0>>
  BY <1>1, <1>2 DEF p
<1> QED  BY <1>3 DEF p, rs

LEMMA CpuidPush3 ==
  ASSUME NEW a, NEW b, NEW c
  PROVE  LET p == cpuidPush(<<a, b, c>>)
         IN  /\ Anys(p) /\ Len(p) = 5
             /\ p[1] = <<"cpuid", 0, 0>> /\ p[2] = <<"pushr", a, 0>>
             /\ p[3] = <<"pushr", b, 0>> /\ p[4] = <<"pushr", c, 0>>
             /\ p[5] = <<"sp", "ecx", 0>>
<1> DEFINE rs == <<a, b, c>>
<1>1. Anys(rs) /\ Len(rs) = 3 /\ rs[1] = a /\ rs[2] = b /\ rs[3] = c
  BY Literals
<1> HIDE DEF rs
<1> DEFINE p == cpuidPush(rs)
<1>2. /\ Anys(p) /\ Len(p) = Len(rs) + 2 /\ p[1] = <<"cpuid", 0, 0>>
      /\ \A k \in 1 .. Len(rs) : p[1 + k] = <<"pushr", rs[k], 0>>
      /\ p[Len(rs) + 2] = <<"sp", "ecx", 0>>
  BY <1>1, CpuidPush
<1> HIDE DEF p
<1>3. /\ Anys(p) /\ Len(p) = 5
      /\ p[1] = <<"cpuid", 0, 0>> /\ p[2] = <<"pushr", a, 0>>
      /\ p[3] = <<"pushr", b, 0>> /\ p[4] = <<"pushr", c, 0>>
      /\ p[5] = <<"sp", "ecx", 0>>
  BY <1>1, <1>2
<1> QED  BY <1>3 DEF p, rs

LEMMA Pushes4 ==
  LET p == pushes(<<"edx", "ecx", "ebx", "eax">>)
         IN  /\ Anys(p) /\ Len(p) = 4
             /\ p[1] = <<"pushr", "edx", 0>> /\ p[2] = <<"pushr", "ecx", 0>>
             /\ p[3] = <<"pushr", "ebx", 0>> /\ p[4] = <<"pushr", "eax", 0>>
<1> DEFINE rs == <<"edx", "ecx", "ebx", "eax">>
<1>1. Anys(rs) /\ Len(rs) = 4 /\ rs[1] = "edx" /\ rs[2] = "ecx" /\ rs[3] = "ebx" /\ rs[4] = "eax"
  BY Literals
<1> HIDE DEF rs
<1>2. /\ Anys(pushes(rs)) /\ Len(pushes(rs)) = Len(rs)
      /\ \A k \in 1 .. Len(rs) : pushes(rs)[k] = <<"pushr", rs[k], 0>>
  BY <1>1, Pushes
<1> DEFINE p == pushes(rs)
<1> HIDE DEF p
<1>3. /\ Anys(p) /\ Len(p) = 4
      /\ p[1] = <<"pushr", "edx", 0>> /\ p[2] = <<"pushr", "ecx", 0>>
      /\ p[3] = <<"pushr", "ebx", 0>> /\ p[4] = <<"pushr", "eax", 0>>
  BY <1>1, <1>2 DEF p
<1> QED  BY <1>3 DEF p, rs

LEMMA CpuidPush4 ==
  LET p == cpuidPush(<<"edx", "ecx", "ebx", "eax">>)
         IN  /\ Anys(p) /\ Len(p) = 6
             /\ p[1] = <<"cpuid", 0, 0>> /\ p[2] = <<"pushr", "edx", 0>>
             /\ p[3] = <<"pushr", "ecx", 0>> /\ p[4] = <<"pushr", "ebx", 0>>
             /\ p[5] = <<"pushr", "eax", 0>> /\ p[6] = <<"sp", "ecx", 0>>
<1> DEFINE rs == <<"edx", "ecx", "ebx", "eax">>
<1>1. Anys(rs) /\ Len(rs) = 4 /\ rs[1] = "edx" /\ rs[2] = "ecx" /\ rs[3] = "ebx" /\ rs[4] = "eax"
  BY Literals
<1> HIDE DEF rs
<1> DEFINE p == cpuidPush(rs)
<1>2. /\ Anys(p) /\ Len(p) = Len(rs) + 2 /\ p[1] = <<"cpuid", 0, 0>>
      /\ \A k \in 1 .. Len(rs) : p[1 + k] = <<"pushr", rs[k], 0>>
      /\ p[Len(rs) + 2] = <<"sp", "ecx", 0>>
  BY <1>1, CpuidPush
<1> HIDE DEF p
<1>3. /\ Anys(p) /\ Len(p) = 6
      /\ p[1] = <<"cpuid", 0, 0>> /\ p[2] = <<"pushr", "edx", 0>>
      /\ p[3] = <<"pushr", "ecx", 0>> /\ p[4] = <<"pushr", "ebx", 0>>
      /\ p[5] = <<"pushr", "eax", 0>> /\ p[6] = <<"sp", "ecx", 0>>
  BY <1>1, <1>2
<1> QED  BY <1>3 DEF p, rs

LEMMA Cpuid2Is ==
  ASSUME code = Code("cpuid2", "i386", text)
  PROVE  AskCode(W(0), "ecx", "edx")
<1> DEFINE p1 == <<<<"li", W(0), "eax">>>>
<1> DEFINE p2 == cpuidPush(<<"ecx", "edx", "ebx">>)
<1> DEFINE p3 == <<<<"li", W(1), "ebx">>, <<"li", W(12), "edx">>, <<"li", W(4), "eax">>, SYSCALL>>
<1> DEFINE p4 == p2 \o p3
<1> DEFINE p5 == p1 \o p4
<1>1. code = p5
  BY DEF Code, cpuid2
<1>2. /\ Anys(p1) /\ Len(p1) = 1 /\ p1[1] = <<"li", W(0), "eax">>
  BY Literals
<1>3. /\ Anys(p2) /\ Len(p2) = 5 /\ p2[1] = <<"cpuid", 0, 0>> /\ p2[2] = <<"pushr", "ecx", 0>>
      /\ p2[3] = <<"pushr", "edx", 0>> /\ p2[4] = <<"pushr", "ebx", 0>>
      /\ p2[5] = <<"sp", "ecx", 0>>
  BY CpuidPush3
<1>4. /\ Anys(p3) /\ Len(p3) = 4 /\ p3[1] = <<"li", W(1), "ebx">>
      /\ p3[2] = <<"li", W(12), "edx">> /\ p3[3] = <<"li", W(4), "eax">> /\ p3[4] = SYSCALL
  BY Literals
<1> HIDE DEF p1, p2, p3, p4, p5
<1>5. /\ Anys(p4) /\ Len(p4) = 9 /\ p4[1] = <<"cpuid", 0, 0>> /\ p4[2] = <<"pushr", "ecx", 0>>
      /\ p4[3] = <<"pushr", "edx", 0>> /\ p4[4] = <<"pushr", "ebx", 0>>
      /\ p4[5] = <<"sp", "ecx", 0>> /\ p4[6] = <<"li", W(1), "ebx">>
      /\ p4[7] = <<"li", W(12), "edx">> /\ p4[8] = <<"li", W(4), "eax">> /\ p4[9] = SYSCALL
  <2>1. Anys(p2) /\ Anys(p3)
    BY <1>3, <1>4
  <2>2. /\ Anys(p2 \o p3) /\ Len(p2 \o p3) = Len(p2) + Len(p3)
        /\ \A k \in 1 .. Len(p2) : (p2 \o p3)[k] = p2[k]
        /\ \A k \in 1 .. Len(p3) : (p2 \o p3)[Len(p2) + k] = p3[k]
    BY <2>1, Joining
  <2>3. /\ Anys(p4) /\ Len(p4) = Len(p2) + Len(p3)
        /\ \A k \in 1 .. Len(p2) : p4[k] = p2[k]
        /\ \A k \in 1 .. Len(p3) : p4[Len(p2) + k] = p3[k]
    BY <2>2 DEF p4
  <2>4. Len(p2) = 5 /\ Len(p3) = 4
    BY <1>3, <1>4
  <2>5. /\ Len(p4) = 9 /\ p4[1] = p2[1] /\ p4[2] = p2[2] /\ p4[3] = p2[3] /\ p4[4] = p2[4]
        /\ p4[5] = p2[5] /\ p4[6] = p3[1] /\ p4[7] = p3[2] /\ p4[8] = p3[3] /\ p4[9] = p3[4]
    BY <2>3, <2>4
  <2> QED  BY <1>3, <1>4, <2>3, <2>5
<1>6. /\ Anys(p5) /\ Len(p5) = 10 /\ p5[1] = <<"li", W(0), "eax">> /\ p5[2] = <<"cpuid", 0, 0>>
      /\ p5[3] = <<"pushr", "ecx", 0>> /\ p5[4] = <<"pushr", "edx", 0>>
      /\ p5[5] = <<"pushr", "ebx", 0>> /\ p5[6] = <<"sp", "ecx", 0>>
      /\ p5[7] = <<"li", W(1), "ebx">> /\ p5[8] = <<"li", W(12), "edx">>
      /\ p5[9] = <<"li", W(4), "eax">> /\ p5[10] = SYSCALL
  <2>1. Anys(p1) /\ Anys(p4)
    BY <1>2, <1>5
  <2>2. /\ Anys(p1 \o p4) /\ Len(p1 \o p4) = Len(p1) + Len(p4)
        /\ \A k \in 1 .. Len(p1) : (p1 \o p4)[k] = p1[k]
        /\ \A k \in 1 .. Len(p4) : (p1 \o p4)[Len(p1) + k] = p4[k]
    BY <2>1, Joining
  <2>3. /\ Anys(p5) /\ Len(p5) = Len(p1) + Len(p4)
        /\ \A k \in 1 .. Len(p1) : p5[k] = p1[k]
        /\ \A k \in 1 .. Len(p4) : p5[Len(p1) + k] = p4[k]
    BY <2>2 DEF p5
  <2>4. Len(p1) = 1 /\ Len(p4) = 9
    BY <1>2, <1>5
  <2>5. /\ Len(p5) = 10 /\ p5[1] = p1[1] /\ p5[2] = p4[1] /\ p5[3] = p4[2] /\ p5[4] = p4[3]
        /\ p5[5] = p4[4] /\ p5[6] = p4[5] /\ p5[7] = p4[6] /\ p5[8] = p4[7] /\ p5[9] = p4[8]
        /\ p5[10] = p4[9]
    BY <2>3, <2>4
  <2> QED  BY <1>2, <1>5, <2>3, <2>5
<1> QED  BY <1>1, <1>6 DEF AskCode

LEMMA Cpuid3Is ==
  ASSUME code = Code("cpuid3", "i386", text)
  PROVE  AskCode(<<16384, 0>>, "edx", "ecx")
<1> DEFINE p1 == <<<<"li", <<16384, 0>>, "eax">>>>
<1> DEFINE p2 == cpuidPush(<<"edx", "ecx", "ebx">>)
<1> DEFINE p3 == <<<<"li", W(1), "ebx">>, <<"li", W(12), "edx">>, <<"li", W(4), "eax">>, SYSCALL>>
<1> DEFINE p4 == p2 \o p3
<1> DEFINE p5 == p1 \o p4
<1>1. code = p5
  BY DEF Code, cpuid3
<1>2. /\ Anys(p1) /\ Len(p1) = 1 /\ p1[1] = <<"li", <<16384, 0>>, "eax">>
  BY Literals
<1>3. /\ Anys(p2) /\ Len(p2) = 5 /\ p2[1] = <<"cpuid", 0, 0>> /\ p2[2] = <<"pushr", "edx", 0>>
      /\ p2[3] = <<"pushr", "ecx", 0>> /\ p2[4] = <<"pushr", "ebx", 0>>
      /\ p2[5] = <<"sp", "ecx", 0>>
  BY CpuidPush3
<1>4. /\ Anys(p3) /\ Len(p3) = 4 /\ p3[1] = <<"li", W(1), "ebx">>
      /\ p3[2] = <<"li", W(12), "edx">> /\ p3[3] = <<"li", W(4), "eax">> /\ p3[4] = SYSCALL
  BY Literals
<1> HIDE DEF p1, p2, p3, p4, p5
<1>5. /\ Anys(p4) /\ Len(p4) = 9 /\ p4[1] = <<"cpuid", 0, 0>> /\ p4[2] = <<"pushr", "edx", 0>>
      /\ p4[3] = <<"pushr", "ecx", 0>> /\ p4[4] = <<"pushr", "ebx", 0>>
      /\ p4[5] = <<"sp", "ecx", 0>> /\ p4[6] = <<"li", W(1), "ebx">>
      /\ p4[7] = <<"li", W(12), "edx">> /\ p4[8] = <<"li", W(4), "eax">> /\ p4[9] = SYSCALL
  <2>1. Anys(p2) /\ Anys(p3)
    BY <1>3, <1>4
  <2>2. /\ Anys(p2 \o p3) /\ Len(p2 \o p3) = Len(p2) + Len(p3)
        /\ \A k \in 1 .. Len(p2) : (p2 \o p3)[k] = p2[k]
        /\ \A k \in 1 .. Len(p3) : (p2 \o p3)[Len(p2) + k] = p3[k]
    BY <2>1, Joining
  <2>3. /\ Anys(p4) /\ Len(p4) = Len(p2) + Len(p3)
        /\ \A k \in 1 .. Len(p2) : p4[k] = p2[k]
        /\ \A k \in 1 .. Len(p3) : p4[Len(p2) + k] = p3[k]
    BY <2>2 DEF p4
  <2>4. Len(p2) = 5 /\ Len(p3) = 4
    BY <1>3, <1>4
  <2>5. /\ Len(p4) = 9 /\ p4[1] = p2[1] /\ p4[2] = p2[2] /\ p4[3] = p2[3] /\ p4[4] = p2[4]
        /\ p4[5] = p2[5] /\ p4[6] = p3[1] /\ p4[7] = p3[2] /\ p4[8] = p3[3] /\ p4[9] = p3[4]
    BY <2>3, <2>4
  <2> QED  BY <1>3, <1>4, <2>3, <2>5
<1>6. /\ Anys(p5) /\ Len(p5) = 10 /\ p5[1] = <<"li", <<16384, 0>>, "eax">>
      /\ p5[2] = <<"cpuid", 0, 0>> /\ p5[3] = <<"pushr", "edx", 0>>
      /\ p5[4] = <<"pushr", "ecx", 0>> /\ p5[5] = <<"pushr", "ebx", 0>>
      /\ p5[6] = <<"sp", "ecx", 0>> /\ p5[7] = <<"li", W(1), "ebx">>
      /\ p5[8] = <<"li", W(12), "edx">> /\ p5[9] = <<"li", W(4), "eax">> /\ p5[10] = SYSCALL
  <2>1. Anys(p1) /\ Anys(p4)
    BY <1>2, <1>5
  <2>2. /\ Anys(p1 \o p4) /\ Len(p1 \o p4) = Len(p1) + Len(p4)
        /\ \A k \in 1 .. Len(p1) : (p1 \o p4)[k] = p1[k]
        /\ \A k \in 1 .. Len(p4) : (p1 \o p4)[Len(p1) + k] = p4[k]
    BY <2>1, Joining
  <2>3. /\ Anys(p5) /\ Len(p5) = Len(p1) + Len(p4)
        /\ \A k \in 1 .. Len(p1) : p5[k] = p1[k]
        /\ \A k \in 1 .. Len(p4) : p5[Len(p1) + k] = p4[k]
    BY <2>2 DEF p5
  <2>4. Len(p1) = 1 /\ Len(p4) = 9
    BY <1>2, <1>5
  <2>5. /\ Len(p5) = 10 /\ p5[1] = p1[1] /\ p5[2] = p4[1] /\ p5[3] = p4[2] /\ p5[4] = p4[3]
        /\ p5[5] = p4[4] /\ p5[6] = p4[5] /\ p5[7] = p4[6] /\ p5[8] = p4[7] /\ p5[9] = p4[8]
        /\ p5[10] = p4[9]
    BY <2>3, <2>4
  <2> QED  BY <1>2, <1>5, <2>3, <2>5
<1> QED  BY <1>1, <1>6 DEF AskCode

Cpuid4Table(v) ==
  /\ pc \in {1, 2, 3, 4, 5, 6, 7, 8, 9, 10, 11, 12} /\ stack[1] = Junk("stack")
  /\ regs["esi"] = entry["esi"] /\ regs["edi"] = entry["edi"]
  /\ pc \in {1, 2, 3} => Len(stack) = 1
  /\ pc \in {4, 5, 6, 7} => Len(stack) = pc - 2
  /\ pc \in {8, 9, 10, 11, 12} => Len(stack) = 5
  /\ pc = 2 => regs["eax"] = v
  /\ pc \in {3, 4, 5, 6} => \A r \in {"eax", "ebx", "ecx", "edx"} : regs[r] = <<"cpuid", v, r>>
  /\ pc \in {4, 5, 6, 7, 8, 9, 10, 11} => stack[2] = <<"cpuid", v, "edx">>
  /\ pc \in {5, 6, 7, 8, 9, 10, 11} => stack[3] = <<"cpuid", v, "ecx">>
  /\ pc \in {6, 7, 8, 9, 10, 11} => stack[4] = <<"cpuid", v, "ebx">>
  /\ pc \in {7, 8, 9, 10, 11} => stack[5] = <<"cpuid", v, "eax">>
  /\ pc \in {8, 9, 10, 11} => regs["ecx"] = <<"esp", 5, 0>>
  /\ pc \in {9, 10, 11} => regs["ebx"] = W(1)
  /\ pc \in {10, 11} => regs["edx"] = W(16)
  /\ pc = 11 => regs["eax"] = W(4)
Cpuid4Code(v) ==
  /\ Len(code) = 11
  /\ code[1] = <<"li", v, "eax">> /\ code[2] = <<"cpuid", 0, 0>> /\ code[3] = <<"pushr", "edx", 0>>
  /\ code[4] = <<"pushr", "ecx", 0>> /\ code[5] = <<"pushr", "ebx", 0>>
  /\ code[6] = <<"pushr", "eax", 0>> /\ code[7] = <<"sp", "ecx", 0>>
  /\ code[8] = <<"li", W(1), "ebx">> /\ code[9] = <<"li", W(16), "edx">>
  /\ code[10] = <<"li", W(4), "eax">> /\ code[11] = SYSCALL
LEMMA Cpuid4Step ==
  ASSUME Frame, how = << >>, Next, prog = "cpuid4", arch = "i386", NEW v, v = <<32768, 2>>,
         Len(code) \in Nat, Cpuid4Code(v), Cpuid4Table(v)
  PROVE  Leads(Cpuid4Table(v)')
<1>n. Len(code) = 11
  BY DEF Cpuid4Code
<1>a. /\ how = << >> /\ DOMAIN regs = Reg /\ Anys(stack) /\ Anys(out)
      /\ Len(code) \in Nat /\ Cpuid4Table(v)
  BY <1>n DEF Frame
<1>1. CASE pc = 1
  <2>1. Ins(<<"li", v, "eax">>)
    BY <1>a, <1>n, <1>1 DEF Ins, Cpuid4Code
  <2>2. Stepped /\ UNCHANGED <<stack, sf>> /\ regs' = [regs EXCEPT !["eax"] = v]
    BY <2>1, DoLi
  <2>3. Cpuid4Table(v)'
    BY <1>a, <1>1, <2>2 DEF Stepped, Reg, Cpuid4Table
  <2> QED  BY <1>a, <2>2, <2>3, Onward DEF Leads
<1>2. CASE pc = 2
  <2>1. Ins(<<"cpuid", 0, 0>>)
    BY <1>a, <1>n, <1>2 DEF Ins, Cpuid4Code
  <2>2. /\ Stepped /\ UNCHANGED <<stack, sf>> /\ DOMAIN regs' = Reg
        /\ \A r \in {"eax", "ebx", "ecx", "edx"} : regs'[r] = <<"cpuid", regs["eax"], r>>
        /\ regs'["esi"] = regs["esi"] /\ regs'["edi"] = regs["edi"]
    BY <2>1, DoCpuid
  <2>3. Cpuid4Table(v)'
    BY <1>a, <1>2, <2>2 DEF Stepped, Reg, Cpuid4Table
  <2> QED  BY <1>a, <2>2, <2>3, Onward DEF Leads
<1>3. CASE pc = 3
  <2>1. Ins(<<"pushr", "edx", 0>>)
    BY <1>a, <1>n, <1>3 DEF Ins, Cpuid4Code
  <2>2. Len(stack) = 1
    BY <1>a, <1>3 DEF Cpuid4Table, Bare
  <2>3. /\ Fine /\ how' = << >> /\ pc' = pc + 1 /\ entry' = entry /\ arch' = arch /\ Len(stack') = 2
        /\ regs' = regs /\ stack'[2] = regs["edx"] /\ stack'[1] = stack[1]
    BY <2>1, <2>2, PushRAt
  <2>4. Cpuid4Table(v)'
    BY <1>a, <1>3, <2>3 DEF Reg, Cpuid4Table
  <2> QED  BY <2>3, <2>4 DEF Leads
<1>4. CASE pc = 4
  <2>1. Ins(<<"pushr", "ecx", 0>>)
    BY <1>a, <1>n, <1>4 DEF Ins, Cpuid4Code
  <2>2. Len(stack) = 2
    BY <1>a, <1>4 DEF Cpuid4Table, Bare
  <2>3. /\ Fine /\ how' = << >> /\ pc' = pc + 1 /\ entry' = entry /\ arch' = arch /\ Len(stack') = 3
        /\ regs' = regs /\ stack'[3] = regs["ecx"] /\ stack'[1] = stack[1] /\ stack'[2] = stack[2]
    BY <2>1, <2>2, PushRAt
  <2>4. Cpuid4Table(v)'
    BY <1>a, <1>4, <2>3 DEF Reg, Cpuid4Table
  <2> QED  BY <2>3, <2>4 DEF Leads
<1>5. CASE pc = 5
  <2>1. Ins(<<"pushr", "ebx", 0>>)
    BY <1>a, <1>n, <1>5 DEF Ins, Cpuid4Code
  <2>2. Len(stack) = 3
    BY <1>a, <1>5 DEF Cpuid4Table, Bare
  <2>3. /\ Fine /\ how' = << >> /\ pc' = pc + 1 /\ entry' = entry /\ arch' = arch /\ Len(stack') = 4
        /\ regs' = regs /\ stack'[4] = regs["ebx"] /\ stack'[1] = stack[1] /\ stack'[2] = stack[2]
        /\ stack'[3] = stack[3]
    BY <2>1, <2>2, PushRAt
  <2>4. Cpuid4Table(v)'
    BY <1>a, <1>5, <2>3 DEF Reg, Cpuid4Table
  <2> QED  BY <2>3, <2>4 DEF Leads
<1>6. CASE pc = 6
  <2>1. Ins(<<"pushr", "eax", 0>>)
    BY <1>a, <1>n, <1>6 DEF Ins, Cpuid4Code
  <2>2. Len(stack) = 4
    BY <1>a, <1>6 DEF Cpuid4Table, Bare
  <2>3. /\ Fine /\ how' = << >> /\ pc' = pc + 1 /\ entry' = entry /\ arch' = arch /\ Len(stack') = 5
        /\ regs' = regs /\ stack'[5] = regs["eax"] /\ stack'[1] = stack[1] /\ stack'[2] = stack[2]
        /\ stack'[3] = stack[3] /\ stack'[4] = stack[4]
    BY <2>1, <2>2, PushRAt
  <2>4. Cpuid4Table(v)'
    BY <1>a, <1>6, <2>3 DEF Reg, Cpuid4Table
  <2> QED  BY <2>3, <2>4 DEF Leads
<1>7. CASE pc = 7
  <2>1. Ins(<<"sp", "ecx", 0>>)
    BY <1>a, <1>n, <1>7 DEF Ins, Cpuid4Code
  <2>2. /\ Stepped /\ UNCHANGED <<stack, sf>>
        /\ regs' = [regs EXCEPT !["ecx"] = <<"esp", Len(stack), 0>>]
    BY <2>1, DoSp
  <2>3. Len(stack) = 5
    BY <1>a, <1>7 DEF Cpuid4Table
  <2>4. regs' = [regs EXCEPT !["ecx"] = <<"esp", 5, 0>>]
    BY <2>2, <2>3
  <2>5. /\ pc' = pc + 1 /\ stack' = stack /\ entry' = entry /\ regs'["ecx"] = <<"esp", 5, 0>>
        /\ \A r \in Reg : r # "ecx" => regs'[r] = regs[r]
    BY <1>a, <2>2, <2>4 DEF Stepped, Reg
  <2>6. Cpuid4Table(v)'
    BY <1>a, <1>7, <2>5 DEF Reg, Cpuid4Table
  <2> QED  BY <1>a, <2>2, <2>6, Onward DEF Leads
<1>8. CASE pc = 8
  <2>1. Ins(<<"li", W(1), "ebx">>)
    BY <1>a, <1>n, <1>8 DEF Ins, Cpuid4Code
  <2>2. Stepped /\ UNCHANGED <<stack, sf>> /\ regs' = [regs EXCEPT !["ebx"] = W(1)]
    BY <2>1, DoLi
  <2>3. Cpuid4Table(v)'
    BY <1>a, <1>8, <2>2 DEF Stepped, Reg, Cpuid4Table
  <2> QED  BY <1>a, <2>2, <2>3, Onward DEF Leads
<1>9. CASE pc = 9
  <2>1. Ins(<<"li", W(16), "edx">>)
    BY <1>a, <1>n, <1>9 DEF Ins, Cpuid4Code
  <2>2. Stepped /\ UNCHANGED <<stack, sf>> /\ regs' = [regs EXCEPT !["edx"] = W(16)]
    BY <2>1, DoLi
  <2>3. Cpuid4Table(v)'
    BY <1>a, <1>9, <2>2 DEF Stepped, Reg, Cpuid4Table
  <2> QED  BY <1>a, <2>2, <2>3, Onward DEF Leads
<1>10. CASE pc = 10
  <2>1. Ins(<<"li", W(4), "eax">>)
    BY <1>a, <1>n, <1>10 DEF Ins, Cpuid4Code
  <2>2. Stepped /\ UNCHANGED <<stack, sf>> /\ regs' = [regs EXCEPT !["eax"] = W(4)]
    BY <2>1, DoLi
  <2>3. Cpuid4Table(v)'
    BY <1>a, <1>10, <2>2 DEF Stepped, Reg, Cpuid4Table
  <2> QED  BY <1>a, <2>2, <2>3, Onward DEF Leads
<1>11. CASE pc = 11
  <2>1. Ins(SYSCALL)
    BY <1>a, <1>n, <1>11 DEF Ins, Cpuid4Code
  <2>2. /\ regs[ARG(arch, 1)] = W(1) /\ regs[ARG(arch, 2)] = <<"esp", 5, 0>>
        /\ regs[ARG(arch, 3)] = W(16) /\ regs["eax"] = NR_write(arch)
    BY <1>a, <1>11 DEF Cpuid4Table, ARG, NR_write
  <2>3. /\ stack[5] = <<"cpuid", v, "eax">> /\ stack[4] = <<"cpuid", v, "ebx">>
        /\ stack[3] = <<"cpuid", v, "ecx">> /\ stack[2] = <<"cpuid", v, "edx">>
    BY <1>a, <1>11 DEF Cpuid4Table
  <2>4. 5 - 1 = 4 /\ 5 - 2 = 3 /\ 5 - 3 = 2
    OBVIOUS
  <2>5. /\ stack[5] = <<"cpuid", v, "eax">> /\ stack[5 - 1] = <<"cpuid", v, "ebx">>
        /\ stack[5 - 2] = <<"cpuid", v, "ecx">> /\ stack[5 - 3] = <<"cpuid", v, "edx">>
    BY <2>3, <2>4
  <2>6. /\ Words(5, 4) = Spelt(v, <<"eax", "ebx", "ecx", "edx">>)
        /\ \A k \in 1 .. 4 : Words(5, 4)[k] # Junk("stack")
    BY <2>5, Spell4
  <2>7. ASSUME NEW r, r.what = Words(5, 4), r.n = 16  PROVE Ids(r)
    <3>1. r.what = Brand(2)
      BY <2>6, <2>7 DEF Brand
    <3> QED  BY <2>7, <3>1, IdsBrand
  <2>8. 4 = (16 + 3) \div 4
    OBVIOUS
  <2>9. /\ Fine /\ how' = << >> /\ pc' = pc + 1 /\ UNCHANGED <<stack, sf>>
        /\ \A r \in Reg \ ({"eax"} \cup Lost) : regs'[r] = regs[r]
    BY <2>1, <2>2, <2>6, <2>7, <2>8, SaysWords
  <2>10. Cpuid4Table(v)'
    BY <1>a, <1>11, <2>9 DEF Fine, Same, Lost, Reg, Cpuid4Table
  <2> QED  BY <2>9, <2>10 DEF Leads
<1>12. CASE pc = 12
  <2>1. pc = Len(code) + 1 /\ Len(code) \in Nat
    <3>1. 11 + 1 = 12
      OBVIOUS
    <3> QED  BY <1>n, <1>12, <3>1
  <2>2. \A r \in Reg \ Told : regs[r] = entry[r]
    BY <1>a, <1>12 DEF Cpuid4Table, Bare, Reg, Told, ARG, Lost
  <2>3. Fine /\ Ending
    BY <1>a, <2>1, <2>2, Returning
  <2> QED  BY <2>3 DEF Leads
<1>d. pc \in {1, 2, 3, 4, 5, 6, 7, 8, 9, 10, 11, 12}
  BY <1>a DEF Cpuid4Table
<1> QED  BY <1>d, <1>1, <1>2, <1>3, <1>4, <1>5, <1>6, <1>7, <1>8, <1>9, <1>10, <1>11, <1>12

LEMMA Cpuid4Is ==
  ASSUME code = Code("cpuid4", "i386", text)
  PROVE  Cpuid4Code(<<32768, 2>>)
<1> DEFINE p1 == <<<<"li", <<32768, 2>>, "eax">>>>
<1> DEFINE p2 == cpuidPush(<<"edx", "ecx", "ebx", "eax">>)
<1> DEFINE p3 == <<<<"li", W(1), "ebx">>, <<"li", W(16), "edx">>, <<"li", W(4), "eax">>, SYSCALL>>
<1> DEFINE p4 == p2 \o p3
<1> DEFINE p5 == p1 \o p4
<1>1. code = p5
  BY DEF Code, cpuid4
<1>2. /\ Anys(p1) /\ Len(p1) = 1 /\ p1[1] = <<"li", <<32768, 2>>, "eax">>
  BY Literals
<1>3. /\ Anys(p2) /\ Len(p2) = 6 /\ p2[1] = <<"cpuid", 0, 0>> /\ p2[2] = <<"pushr", "edx", 0>>
      /\ p2[3] = <<"pushr", "ecx", 0>> /\ p2[4] = <<"pushr", "ebx", 0>>
      /\ p2[5] = <<"pushr", "eax", 0>> /\ p2[6] = <<"sp", "ecx", 0>>
  BY CpuidPush4
<1>4. /\ Anys(p3) /\ Len(p3) = 4 /\ p3[1] = <<"li", W(1), "ebx">>
      /\ p3[2] = <<"li", W(16), "edx">> /\ p3[3] = <<"li", W(4), "eax">> /\ p3[4] = SYSCALL
  BY Literals
<1> HIDE DEF p1, p2, p3, p4, p5
<1>5. /\ Anys(p4) /\ Len(p4) = 10 /\ p4[1] = <<"cpuid", 0, 0>> /\ p4[2] = <<"pushr", "edx", 0>>
      /\ p4[3] = <<"pushr", "ecx", 0>> /\ p4[4] = <<"pushr", "ebx", 0>>
      /\ p4[5] = <<"pushr", "eax", 0>> /\ p4[6] = <<"sp", "ecx", 0>>
      /\ p4[7] = <<"li", W(1), "ebx">> /\ p4[8] = <<"li", W(16), "edx">>
      /\ p4[9] = <<"li", W(4), "eax">> /\ p4[10] = SYSCALL
  <2>1. Anys(p2) /\ Anys(p3)
    BY <1>3, <1>4
  <2>2. /\ Anys(p2 \o p3) /\ Len(p2 \o p3) = Len(p2) + Len(p3)
        /\ \A k \in 1 .. Len(p2) : (p2 \o p3)[k] = p2[k]
        /\ \A k \in 1 .. Len(p3) : (p2 \o p3)[Len(p2) + k] = p3[k]
    BY <2>1, Joining
  <2>3. /\ Anys(p4) /\ Len(p4) = Len(p2) + Len(p3)
        /\ \A k \in 1 .. Len(p2) : p4[k] = p2[k]
        /\ \A k \in 1 .. Len(p3) : p4[Len(p2) + k] = p3[k]
    BY <2>2 DEF p4
  <2>4. Len(p2) = 6 /\ Len(p3) = 4
    BY <1>3, <1>4
  <2>5. /\ Len(p4) = 10 /\ p4[1] = p2[1] /\ p4[2] = p2[2] /\ p4[3] = p2[3] /\ p4[4] = p2[4]
        /\ p4[5] = p2[5] /\ p4[6] = p2[6] /\ p4[7] = p3[1] /\ p4[8] = p3[2] /\ p4[9] = p3[3]
        /\ p4[10] = p3[4]
    BY <2>3, <2>4
  <2> QED  BY <1>3, <1>4, <2>3, <2>5
<1>6. /\ Anys(p5) /\ Len(p5) = 11 /\ p5[1] = <<"li", <<32768, 2>>, "eax">>
      /\ p5[2] = <<"cpuid", 0, 0>> /\ p5[3] = <<"pushr", "edx", 0>>
      /\ p5[4] = <<"pushr", "ecx", 0>> /\ p5[5] = <<"pushr", "ebx", 0>>
      /\ p5[6] = <<"pushr", "eax", 0>> /\ p5[7] = <<"sp", "ecx", 0>>
      /\ p5[8] = <<"li", W(1), "ebx">> /\ p5[9] = <<"li", W(16), "edx">>
      /\ p5[10] = <<"li", W(4), "eax">> /\ p5[11] = SYSCALL
  <2>1. Anys(p1) /\ Anys(p4)
    BY <1>2, <1>5
  <2>2. /\ Anys(p1 \o p4) /\ Len(p1 \o p4) = Len(p1) + Len(p4)
        /\ \A k \in 1 .. Len(p1) : (p1 \o p4)[k] = p1[k]
        /\ \A k \in 1 .. Len(p4) : (p1 \o p4)[Len(p1) + k] = p4[k]
    BY <2>1, Joining
  <2>3. /\ Anys(p5) /\ Len(p5) = Len(p1) + Len(p4)
        /\ \A k \in 1 .. Len(p1) : p5[k] = p1[k]
        /\ \A k \in 1 .. Len(p4) : p5[Len(p1) + k] = p4[k]
    BY <2>2 DEF p5
  <2>4. Len(p1) = 1 /\ Len(p4) = 10
    BY <1>2, <1>5
  <2>5. /\ Len(p5) = 11 /\ p5[1] = p1[1] /\ p5[2] = p4[1] /\ p5[3] = p4[2] /\ p5[4] = p4[3]
        /\ p5[5] = p4[4] /\ p5[6] = p4[5] /\ p5[7] = p4[6] /\ p5[8] = p4[7] /\ p5[9] = p4[8]
        /\ p5[10] = p4[9] /\ p5[11] = p4[10]
    BY <2>3, <2>4
  <2> QED  BY <1>2, <1>5, <2>3, <2>5
<1> QED  BY <1>1, <1>6 DEF Cpuid4Code

LEMMA SpellMaker ==
  ASSUME NEW v, NEW e \in Nat, stack[e] = <<"cpuid", v, "ebx">>,
         stack[e - 1] = <<"cpuid", v, "edx">>, stack[e - 2] = <<"cpuid", v, "ecx">>
  PROVE  /\ Words(e, 3) = Maker(v)
         /\ \A k \in 1 .. 3 : Words(e, 3)[k] # Junk("stack")
<1>1. /\ Words(e, 3) = Spelt(v, <<"ebx", "edx", "ecx">>)
      /\ \A k \in 1 .. 3 : Words(e, 3)[k] # Junk("stack")
  BY Spell3
<1> QED  BY <1>1 DEF Maker

CpuidTable ==
  /\ pc \in {1, 2, 3, 4, 5, 6, 7, 8, 9, 10, 11, 12, 13, 14} /\ stack[1] = Junk("stack")
  /\ regs["esi"] = entry["esi"] /\ regs["edi"] = entry["edi"]
  /\ pc \in {1, 2, 3} => Len(stack) = 1
  /\ pc \in {4, 5} => Len(stack) = pc - 2
  /\ pc \in {6, 7, 9, 11, 13, 14} => Len(stack) = 4
  /\ pc \in {8, 10, 12} => Len(stack) = 5
  /\ pc = 2 => regs["eax"] = W(0)
  /\ pc \in {3, 4, 5} => \A r \in {"eax", "ebx", "ecx", "edx"} : regs[r] = <<"cpuid", W(0), r>>
  /\ pc \in {4, 5, 6, 7, 8, 9, 10, 11, 12, 13} => stack[2] = <<"cpuid", W(0), "ecx">>
  /\ pc \in {5, 6, 7, 8, 9, 10, 11, 12, 13} => stack[3] = <<"cpuid", W(0), "edx">>
  /\ pc \in {6, 7, 8, 9, 10, 11, 12, 13} => stack[4] = <<"cpuid", W(0), "ebx">>
  /\ pc \in {7, 8, 9, 10, 11, 12, 13} => regs["ecx"] = <<"esp", 4, 0>>
  /\ pc = 8 => stack[5] = W(4)
  /\ pc \in {9, 10, 11, 12, 13} => regs["eax"] = W(4)
  /\ pc = 10 => stack[5] = W(2)
  /\ pc \in {11, 12, 13} => regs["ebx"] = W(2)
  /\ pc = 12 => stack[5] = W(12)
  /\ pc = 13 => regs["edx"] = W(12)
CpuidCode ==
  /\ Len(code) = 13
  /\ code[1] = <<"xor", "eax", 0>> /\ code[2] = <<"cpuid", 0, 0>>
  /\ code[3] = <<"pushr", "ecx", 0>> /\ code[4] = <<"pushr", "edx", 0>>
  /\ code[5] = <<"pushr", "ebx", 0>> /\ code[6] = <<"sp", "ecx", 0>>
  /\ code[7] = <<"push", W(4), 0>> /\ code[8] = <<"pop", "eax", 0>>
  /\ code[9] = <<"push", W(2), 0>> /\ code[10] = <<"pop", "ebx", 0>>
  /\ code[11] = <<"push", W(12), 0>> /\ code[12] = <<"pop", "edx", 0>> /\ code[13] = SYSCALL
LEMMA CpuidStep ==
  ASSUME Frame, how = << >>, Next, prog = "cpuid", arch = "i386", Len(code) \in Nat,
         CpuidCode, CpuidTable
  PROVE  Leads(CpuidTable')
<1>n. Len(code) = 13
  BY DEF CpuidCode
<1>a. /\ how = << >> /\ DOMAIN regs = Reg /\ Anys(stack) /\ Anys(out)
      /\ Len(code) \in Nat /\ CpuidTable
  BY <1>n DEF Frame
<1>1. CASE pc = 1
  <2>1. Ins(<<"xor", "eax", 0>>)
    BY <1>a, <1>n, <1>1 DEF Ins, CpuidCode
  <2>2. Stepped /\ UNCHANGED <<stack, sf>> /\ regs' = [regs EXCEPT !["eax"] = W(0)]
    BY <2>1, DoXor
  <2>3. CpuidTable'
    BY <1>a, <1>1, <2>2 DEF Stepped, Reg, CpuidTable
  <2> QED  BY <1>a, <2>2, <2>3, Onward DEF Leads
<1>2. CASE pc = 2
  <2>1. Ins(<<"cpuid", 0, 0>>)
    BY <1>a, <1>n, <1>2 DEF Ins, CpuidCode
  <2>2. /\ Stepped /\ UNCHANGED <<stack, sf>> /\ DOMAIN regs' = Reg
        /\ \A r \in {"eax", "ebx", "ecx", "edx"} : regs'[r] = <<"cpuid", regs["eax"], r>>
        /\ regs'["esi"] = regs["esi"] /\ regs'["edi"] = regs["edi"]
    BY <2>1, DoCpuid
  <2>3. CpuidTable'
    BY <1>a, <1>2, <2>2 DEF Stepped, Reg, CpuidTable
  <2> QED  BY <1>a, <2>2, <2>3, Onward DEF Leads
<1>3. CASE pc = 3
  <2>1. Ins(<<"pushr", "ecx", 0>>)
    BY <1>a, <1>n, <1>3 DEF Ins, CpuidCode
  <2>2. Len(stack) = 1
    BY <1>a, <1>3 DEF CpuidTable, Bare
  <2>3. /\ Fine /\ how' = << >> /\ pc' = pc + 1 /\ entry' = entry /\ arch' = arch /\ Len(stack') = 2
        /\ regs' = regs /\ stack'[2] = regs["ecx"] /\ stack'[1] = stack[1]
    BY <2>1, <2>2, PushRAt
  <2>4. CpuidTable'
    BY <1>a, <1>3, <2>3 DEF Reg, CpuidTable
  <2> QED  BY <2>3, <2>4 DEF Leads
<1>4. CASE pc = 4
  <2>1. Ins(<<"pushr", "edx", 0>>)
    BY <1>a, <1>n, <1>4 DEF Ins, CpuidCode
  <2>2. Len(stack) = 2
    BY <1>a, <1>4 DEF CpuidTable, Bare
  <2>3. /\ Fine /\ how' = << >> /\ pc' = pc + 1 /\ entry' = entry /\ arch' = arch /\ Len(stack') = 3
        /\ regs' = regs /\ stack'[3] = regs["edx"] /\ stack'[1] = stack[1] /\ stack'[2] = stack[2]
    BY <2>1, <2>2, PushRAt
  <2>4. CpuidTable'
    BY <1>a, <1>4, <2>3 DEF Reg, CpuidTable
  <2> QED  BY <2>3, <2>4 DEF Leads
<1>5. CASE pc = 5
  <2>1. Ins(<<"pushr", "ebx", 0>>)
    BY <1>a, <1>n, <1>5 DEF Ins, CpuidCode
  <2>2. Len(stack) = 3
    BY <1>a, <1>5 DEF CpuidTable, Bare
  <2>3. /\ Fine /\ how' = << >> /\ pc' = pc + 1 /\ entry' = entry /\ arch' = arch /\ Len(stack') = 4
        /\ regs' = regs /\ stack'[4] = regs["ebx"] /\ stack'[1] = stack[1] /\ stack'[2] = stack[2]
        /\ stack'[3] = stack[3]
    BY <2>1, <2>2, PushRAt
  <2>4. CpuidTable'
    BY <1>a, <1>5, <2>3 DEF Reg, CpuidTable
  <2> QED  BY <2>3, <2>4 DEF Leads
<1>6. CASE pc = 6
  <2>1. Ins(<<"sp", "ecx", 0>>)
    BY <1>a, <1>n, <1>6 DEF Ins, CpuidCode
  <2>2. /\ Stepped /\ UNCHANGED <<stack, sf>>
        /\ regs' = [regs EXCEPT !["ecx"] = <<"esp", Len(stack), 0>>]
    BY <2>1, DoSp
  <2>3. Len(stack) = 4
    BY <1>a, <1>6 DEF CpuidTable
  <2>4. regs' = [regs EXCEPT !["ecx"] = <<"esp", 4, 0>>]
    BY <2>2, <2>3
  <2>5. /\ pc' = pc + 1 /\ stack' = stack /\ entry' = entry /\ regs'["ecx"] = <<"esp", 4, 0>>
        /\ \A r \in Reg : r # "ecx" => regs'[r] = regs[r]
    BY <1>a, <2>2, <2>4 DEF Stepped, Reg
  <2>6. CpuidTable'
    BY <1>a, <1>6, <2>5 DEF Reg, CpuidTable
  <2> QED  BY <1>a, <2>2, <2>6, Onward DEF Leads
<1>7. CASE pc = 7
  <2>1. Ins(<<"push", W(4), 0>>)
    BY <1>a, <1>n, <1>7 DEF Ins, CpuidCode
  <2>2. Len(stack) = 4
    BY <1>a, <1>7 DEF CpuidTable, Bare
  <2>3. /\ Fine /\ how' = << >> /\ pc' = pc + 1 /\ entry' = entry /\ arch' = arch /\ Len(stack') = 5
        /\ regs' = regs /\ stack'[5] = W(4) /\ stack'[1] = stack[1] /\ stack'[2] = stack[2]
        /\ stack'[3] = stack[3] /\ stack'[4] = stack[4]
    BY <2>1, <2>2, PushAt
  <2>4. CpuidTable'
    BY <1>a, <1>7, <2>3 DEF Reg, CpuidTable
  <2> QED  BY <2>3, <2>4 DEF Leads
<1>8. CASE pc = 8
  <2>1. Ins(<<"pop", "eax", 0>>)
    BY <1>a, <1>n, <1>8 DEF Ins, CpuidCode
  <2>2. Len(stack) = 5
    BY <1>a, <1>8 DEF CpuidTable, Bare
  <2>3. /\ Fine /\ how' = << >> /\ pc' = pc + 1 /\ entry' = entry /\ arch' = arch /\ Len(stack') = 4
        /\ regs' = [regs EXCEPT !["eax"] = stack[5]] /\ stack'[1] = stack[1] /\ stack'[2] = stack[2]
        /\ stack'[3] = stack[3] /\ stack'[4] = stack[4]
    BY <2>1, <2>2, PopAt
  <2>4. CpuidTable'
    BY <1>a, <1>8, <2>3 DEF Reg, CpuidTable
  <2> QED  BY <2>3, <2>4 DEF Leads
<1>9. CASE pc = 9
  <2>1. Ins(<<"push", W(2), 0>>)
    BY <1>a, <1>n, <1>9 DEF Ins, CpuidCode
  <2>2. Len(stack) = 4
    BY <1>a, <1>9 DEF CpuidTable, Bare
  <2>3. /\ Fine /\ how' = << >> /\ pc' = pc + 1 /\ entry' = entry /\ arch' = arch /\ Len(stack') = 5
        /\ regs' = regs /\ stack'[5] = W(2) /\ stack'[1] = stack[1] /\ stack'[2] = stack[2]
        /\ stack'[3] = stack[3] /\ stack'[4] = stack[4]
    BY <2>1, <2>2, PushAt
  <2>4. CpuidTable'
    BY <1>a, <1>9, <2>3 DEF Reg, CpuidTable
  <2> QED  BY <2>3, <2>4 DEF Leads
<1>10. CASE pc = 10
  <2>1. Ins(<<"pop", "ebx", 0>>)
    BY <1>a, <1>n, <1>10 DEF Ins, CpuidCode
  <2>2. Len(stack) = 5
    BY <1>a, <1>10 DEF CpuidTable, Bare
  <2>3. /\ Fine /\ how' = << >> /\ pc' = pc + 1 /\ entry' = entry /\ arch' = arch /\ Len(stack') = 4
        /\ regs' = [regs EXCEPT !["ebx"] = stack[5]] /\ stack'[1] = stack[1] /\ stack'[2] = stack[2]
        /\ stack'[3] = stack[3] /\ stack'[4] = stack[4]
    BY <2>1, <2>2, PopAt
  <2>4. CpuidTable'
    BY <1>a, <1>10, <2>3 DEF Reg, CpuidTable
  <2> QED  BY <2>3, <2>4 DEF Leads
<1>11. CASE pc = 11
  <2>1. Ins(<<"push", W(12), 0>>)
    BY <1>a, <1>n, <1>11 DEF Ins, CpuidCode
  <2>2. Len(stack) = 4
    BY <1>a, <1>11 DEF CpuidTable, Bare
  <2>3. /\ Fine /\ how' = << >> /\ pc' = pc + 1 /\ entry' = entry /\ arch' = arch /\ Len(stack') = 5
        /\ regs' = regs /\ stack'[5] = W(12) /\ stack'[1] = stack[1] /\ stack'[2] = stack[2]
        /\ stack'[3] = stack[3] /\ stack'[4] = stack[4]
    BY <2>1, <2>2, PushAt
  <2>4. CpuidTable'
    BY <1>a, <1>11, <2>3 DEF Reg, CpuidTable
  <2> QED  BY <2>3, <2>4 DEF Leads
<1>12. CASE pc = 12
  <2>1. Ins(<<"pop", "edx", 0>>)
    BY <1>a, <1>n, <1>12 DEF Ins, CpuidCode
  <2>2. Len(stack) = 5
    BY <1>a, <1>12 DEF CpuidTable, Bare
  <2>3. /\ Fine /\ how' = << >> /\ pc' = pc + 1 /\ entry' = entry /\ arch' = arch /\ Len(stack') = 4
        /\ regs' = [regs EXCEPT !["edx"] = stack[5]] /\ stack'[1] = stack[1] /\ stack'[2] = stack[2]
        /\ stack'[3] = stack[3] /\ stack'[4] = stack[4]
    BY <2>1, <2>2, PopAt
  <2>4. CpuidTable'
    BY <1>a, <1>12, <2>3 DEF Reg, CpuidTable
  <2> QED  BY <2>3, <2>4 DEF Leads
<1>13. CASE pc = 13
  <2>1. Ins(SYSCALL)
    BY <1>a, <1>n, <1>13 DEF Ins, CpuidCode
  <2>2. /\ regs[ARG(arch, 1)] = W(2) /\ regs[ARG(arch, 2)] = <<"esp", 4, 0>>
        /\ regs[ARG(arch, 3)] = W(12) /\ regs["eax"] = NR_write(arch)
    BY <1>a, <1>13 DEF CpuidTable, ARG, NR_write
  <2>3. /\ stack[4] = <<"cpuid", W(0), "ebx">> /\ stack[3] = <<"cpuid", W(0), "edx">>
        /\ stack[2] = <<"cpuid", W(0), "ecx">>
    BY <1>a, <1>13 DEF CpuidTable
  <2>4. 4 - 1 = 3 /\ 4 - 2 = 2
    OBVIOUS
  <2>5. /\ stack[4] = <<"cpuid", W(0), "ebx">> /\ stack[4 - 1] = <<"cpuid", W(0), "edx">>
        /\ stack[4 - 2] = <<"cpuid", W(0), "ecx">>
    BY <2>3, <2>4
  <2>6. /\ Words(4, 3) = Maker(W(0))
        /\ \A k \in 1 .. 3 : Words(4, 3)[k] # Junk("stack")
    BY <2>5, SpellMaker
  <2>7. ASSUME NEW r, r.what = Words(4, 3), r.n = 12  PROVE Ids(r)
    BY <2>6, <2>7, IdsMaker
  <2>8. 3 = (12 + 3) \div 4
    OBVIOUS
  <2>9. /\ Fine /\ how' = << >> /\ pc' = pc + 1 /\ UNCHANGED <<stack, sf>>
        /\ \A r \in Reg \ ({"eax"} \cup Lost) : regs'[r] = regs[r]
    BY <2>1, <2>2, <2>6, <2>7, <2>8, SaysWords
  <2>10. CpuidTable'
    BY <1>a, <1>13, <2>9 DEF Fine, Same, Lost, Reg, CpuidTable
  <2> QED  BY <2>9, <2>10 DEF Leads
<1>14. CASE pc = 14
  <2>1. pc = Len(code) + 1 /\ Len(code) \in Nat
    <3>1. 13 + 1 = 14
      OBVIOUS
    <3> QED  BY <1>n, <1>14, <3>1
  <2>2. \A r \in Reg \ Told : regs[r] = entry[r]
    BY <1>a, <1>14 DEF CpuidTable, Bare, Reg, Told, ARG, Lost
  <2>3. Fine /\ Ending
    BY <1>a, <2>1, <2>2, Returning
  <2> QED  BY <2>3 DEF Leads
<1>d. pc \in {1, 2, 3, 4, 5, 6, 7, 8, 9, 10, 11, 12, 13, 14}
  BY <1>a DEF CpuidTable
<1> QED  BY <1>d, <1>1, <1>2, <1>3, <1>4, <1>5, <1>6, <1>7, <1>8, <1>9, <1>10, <1>11, <1>12,
       <1>13, <1>14

LEMMA CpuidIs ==
  ASSUME code = Code("cpuid", "i386", text)
  PROVE  CpuidCode
<1> DEFINE p1 == <<<<"xor", "eax", 0>>>>
<1> DEFINE p2 == cpuidPush(<<"ecx", "edx", "ebx">>)
<1> DEFINE p3 == p1 \o p2
<1> DEFINE p4 == Load(4, "eax")
<1> DEFINE p5 == p3 \o p4
<1> DEFINE p6 == Load(2, "ebx")
<1> DEFINE p7 == p5 \o p6
<1> DEFINE p8 == Load(12, "edx")
<1> DEFINE p9 == p7 \o p8
<1> DEFINE p10 == <<SYSCALL>>
<1> DEFINE p11 == p9 \o p10
<1>1. code = p11
  BY DEF Code, cpuid
<1>2. /\ Anys(p1) /\ Len(p1) = 1 /\ p1[1] = <<"xor", "eax", 0>>
  BY Literals
<1>3. /\ Anys(p2) /\ Len(p2) = 5 /\ p2[1] = <<"cpuid", 0, 0>> /\ p2[2] = <<"pushr", "ecx", 0>>
      /\ p2[3] = <<"pushr", "edx", 0>> /\ p2[4] = <<"pushr", "ebx", 0>>
      /\ p2[5] = <<"sp", "ecx", 0>>
  BY CpuidPush3
<1>4. /\ Anys(p4) /\ Len(p4) = 2 /\ p4[1] = <<"push", W(4), 0>> /\ p4[2] = <<"pop", "eax", 0>>
  BY Literals DEF Load, push, pop
<1>5. /\ Anys(p6) /\ Len(p6) = 2 /\ p6[1] = <<"push", W(2), 0>> /\ p6[2] = <<"pop", "ebx", 0>>
  BY Literals DEF Load, push, pop
<1>6. /\ Anys(p8) /\ Len(p8) = 2 /\ p8[1] = <<"push", W(12), 0>> /\ p8[2] = <<"pop", "edx", 0>>
  BY Literals DEF Load, push, pop
<1>7. /\ Anys(p10) /\ Len(p10) = 1 /\ p10[1] = SYSCALL
  BY Literals
<1> HIDE DEF p1, p2, p3, p4, p5, p6, p7, p8, p9, p10, p11
<1>8. /\ Anys(p3) /\ Len(p3) = 6 /\ p3[1] = <<"xor", "eax", 0>> /\ p3[2] = <<"cpuid", 0, 0>>
      /\ p3[3] = <<"pushr", "ecx", 0>> /\ p3[4] = <<"pushr", "edx", 0>>
      /\ p3[5] = <<"pushr", "ebx", 0>> /\ p3[6] = <<"sp", "ecx", 0>>
  <2>1. Anys(p1) /\ Anys(p2)
    BY <1>2, <1>3
  <2>2. /\ Anys(p1 \o p2) /\ Len(p1 \o p2) = Len(p1) + Len(p2)
        /\ \A k \in 1 .. Len(p1) : (p1 \o p2)[k] = p1[k]
        /\ \A k \in 1 .. Len(p2) : (p1 \o p2)[Len(p1) + k] = p2[k]
    BY <2>1, Joining
  <2>3. /\ Anys(p3) /\ Len(p3) = Len(p1) + Len(p2)
        /\ \A k \in 1 .. Len(p1) : p3[k] = p1[k]
        /\ \A k \in 1 .. Len(p2) : p3[Len(p1) + k] = p2[k]
    BY <2>2 DEF p3
  <2>4. Len(p1) = 1 /\ Len(p2) = 5
    BY <1>2, <1>3
  <2>5. /\ Len(p3) = 6 /\ p3[1] = p1[1] /\ p3[2] = p2[1] /\ p3[3] = p2[2] /\ p3[4] = p2[3]
        /\ p3[5] = p2[4] /\ p3[6] = p2[5]
    BY <2>3, <2>4
  <2> QED  BY <1>2, <1>3, <2>3, <2>5
<1>9. /\ Anys(p5) /\ Len(p5) = 8 /\ p5[1] = <<"xor", "eax", 0>> /\ p5[2] = <<"cpuid", 0, 0>>
      /\ p5[3] = <<"pushr", "ecx", 0>> /\ p5[4] = <<"pushr", "edx", 0>>
      /\ p5[5] = <<"pushr", "ebx", 0>> /\ p5[6] = <<"sp", "ecx", 0>>
      /\ p5[7] = <<"push", W(4), 0>> /\ p5[8] = <<"pop", "eax", 0>>
  <2>1. Anys(p3) /\ Anys(p4)
    BY <1>8, <1>4
  <2>2. /\ Anys(p3 \o p4) /\ Len(p3 \o p4) = Len(p3) + Len(p4)
        /\ \A k \in 1 .. Len(p3) : (p3 \o p4)[k] = p3[k]
        /\ \A k \in 1 .. Len(p4) : (p3 \o p4)[Len(p3) + k] = p4[k]
    BY <2>1, Joining
  <2>3. /\ Anys(p5) /\ Len(p5) = Len(p3) + Len(p4)
        /\ \A k \in 1 .. Len(p3) : p5[k] = p3[k]
        /\ \A k \in 1 .. Len(p4) : p5[Len(p3) + k] = p4[k]
    BY <2>2 DEF p5
  <2>4. Len(p3) = 6 /\ Len(p4) = 2
    BY <1>8, <1>4
  <2>5. /\ Len(p5) = 8 /\ p5[1] = p3[1] /\ p5[2] = p3[2] /\ p5[3] = p3[3] /\ p5[4] = p3[4]
        /\ p5[5] = p3[5] /\ p5[6] = p3[6] /\ p5[7] = p4[1] /\ p5[8] = p4[2]
    BY <2>3, <2>4
  <2> QED  BY <1>8, <1>4, <2>3, <2>5
<1>10. /\ Anys(p7) /\ Len(p7) = 10 /\ p7[1] = <<"xor", "eax", 0>> /\ p7[2] = <<"cpuid", 0, 0>>
      /\ p7[3] = <<"pushr", "ecx", 0>> /\ p7[4] = <<"pushr", "edx", 0>>
      /\ p7[5] = <<"pushr", "ebx", 0>> /\ p7[6] = <<"sp", "ecx", 0>>
      /\ p7[7] = <<"push", W(4), 0>> /\ p7[8] = <<"pop", "eax", 0>>
      /\ p7[9] = <<"push", W(2), 0>> /\ p7[10] = <<"pop", "ebx", 0>>
  <2>1. Anys(p5) /\ Anys(p6)
    BY <1>9, <1>5
  <2>2. /\ Anys(p5 \o p6) /\ Len(p5 \o p6) = Len(p5) + Len(p6)
        /\ \A k \in 1 .. Len(p5) : (p5 \o p6)[k] = p5[k]
        /\ \A k \in 1 .. Len(p6) : (p5 \o p6)[Len(p5) + k] = p6[k]
    BY <2>1, Joining
  <2>3. /\ Anys(p7) /\ Len(p7) = Len(p5) + Len(p6)
        /\ \A k \in 1 .. Len(p5) : p7[k] = p5[k]
        /\ \A k \in 1 .. Len(p6) : p7[Len(p5) + k] = p6[k]
    BY <2>2 DEF p7
  <2>4. Len(p5) = 8 /\ Len(p6) = 2
    BY <1>9, <1>5
  <2>5. /\ Len(p7) = 10 /\ p7[1] = p5[1] /\ p7[2] = p5[2] /\ p7[3] = p5[3] /\ p7[4] = p5[4]
        /\ p7[5] = p5[5] /\ p7[6] = p5[6] /\ p7[7] = p5[7] /\ p7[8] = p5[8] /\ p7[9] = p6[1]
        /\ p7[10] = p6[2]
    BY <2>3, <2>4
  <2> QED  BY <1>9, <1>5, <2>3, <2>5
<1>11. /\ Anys(p9) /\ Len(p9) = 12 /\ p9[1] = <<"xor", "eax", 0>> /\ p9[2] = <<"cpuid", 0, 0>>
      /\ p9[3] = <<"pushr", "ecx", 0>> /\ p9[4] = <<"pushr", "edx", 0>>
      /\ p9[5] = <<"pushr", "ebx", 0>> /\ p9[6] = <<"sp", "ecx", 0>>
      /\ p9[7] = <<"push", W(4), 0>> /\ p9[8] = <<"pop", "eax", 0>>
      /\ p9[9] = <<"push", W(2), 0>> /\ p9[10] = <<"pop", "ebx", 0>>
      /\ p9[11] = <<"push", W(12), 0>> /\ p9[12] = <<"pop", "edx", 0>>
  <2>1. Anys(p7) /\ Anys(p8)
    BY <1>10, <1>6
  <2>2. /\ Anys(p7 \o p8) /\ Len(p7 \o p8) = Len(p7) + Len(p8)
        /\ \A k \in 1 .. Len(p7) : (p7 \o p8)[k] = p7[k]
        /\ \A k \in 1 .. Len(p8) : (p7 \o p8)[Len(p7) + k] = p8[k]
    BY <2>1, Joining
  <2>3. /\ Anys(p9) /\ Len(p9) = Len(p7) + Len(p8)
        /\ \A k \in 1 .. Len(p7) : p9[k] = p7[k]
        /\ \A k \in 1 .. Len(p8) : p9[Len(p7) + k] = p8[k]
    BY <2>2 DEF p9
  <2>4. Len(p7) = 10 /\ Len(p8) = 2
    BY <1>10, <1>6
  <2>5. /\ Len(p9) = 12 /\ p9[1] = p7[1] /\ p9[2] = p7[2] /\ p9[3] = p7[3] /\ p9[4] = p7[4]
        /\ p9[5] = p7[5] /\ p9[6] = p7[6] /\ p9[7] = p7[7] /\ p9[8] = p7[8] /\ p9[9] = p7[9]
        /\ p9[10] = p7[10] /\ p9[11] = p8[1] /\ p9[12] = p8[2]
    BY <2>3, <2>4
  <2> QED  BY <1>10, <1>6, <2>3, <2>5
<1>12. /\ Anys(p11) /\ Len(p11) = 13 /\ p11[1] = <<"xor", "eax", 0>>
      /\ p11[2] = <<"cpuid", 0, 0>> /\ p11[3] = <<"pushr", "ecx", 0>>
      /\ p11[4] = <<"pushr", "edx", 0>> /\ p11[5] = <<"pushr", "ebx", 0>>
      /\ p11[6] = <<"sp", "ecx", 0>> /\ p11[7] = <<"push", W(4), 0>>
      /\ p11[8] = <<"pop", "eax", 0>> /\ p11[9] = <<"push", W(2), 0>>
      /\ p11[10] = <<"pop", "ebx", 0>> /\ p11[11] = <<"push", W(12), 0>>
      /\ p11[12] = <<"pop", "edx", 0>> /\ p11[13] = SYSCALL
  <2>1. Anys(p9) /\ Anys(p10)
    BY <1>11, <1>7
  <2>2. /\ Anys(p9 \o p10) /\ Len(p9 \o p10) = Len(p9) + Len(p10)
        /\ \A k \in 1 .. Len(p9) : (p9 \o p10)[k] = p9[k]
        /\ \A k \in 1 .. Len(p10) : (p9 \o p10)[Len(p9) + k] = p10[k]
    BY <2>1, Joining
  <2>3. /\ Anys(p11) /\ Len(p11) = Len(p9) + Len(p10)
        /\ \A k \in 1 .. Len(p9) : p11[k] = p9[k]
        /\ \A k \in 1 .. Len(p10) : p11[Len(p9) + k] = p10[k]
    BY <2>2 DEF p11
  <2>4. Len(p9) = 12 /\ Len(p10) = 1
    BY <1>11, <1>7
  <2>5. /\ Len(p11) = 13 /\ p11[1] = p9[1] /\ p11[2] = p9[2] /\ p11[3] = p9[3]
        /\ p11[4] = p9[4] /\ p11[5] = p9[5] /\ p11[6] = p9[6] /\ p11[7] = p9[7]
        /\ p11[8] = p9[8] /\ p11[9] = p9[9] /\ p11[10] = p9[10] /\ p11[11] = p9[11]
        /\ p11[12] = p9[12] /\ p11[13] = p10[1]
    BY <2>3, <2>4
  <2> QED  BY <1>11, <1>7, <2>3, <2>5
<1> QED  BY <1>1, <1>12 DEF CpuidCode

Cpuid6Table ==
  /\ pc \in {1, 2, 3, 4, 5, 6, 7, 8, 9, 10, 11, 12, 13, 14} /\ stack[1] = Junk("stack")
  /\ pc \in {1, 2} => Len(stack) = 1
  /\ pc \in {3, 4, 5, 7, 9, 11, 12, 13, 14} => Len(stack) = 9
  /\ pc \in {6, 8, 10} => Len(stack) = 10
  /\ pc = 1 => regs["eax"] = entry["eax"]
  /\ pc = 2 => \A r \in {"eax", "ebx", "ecx", "edx"} : regs[r] = <<"cpuid", entry["eax"], r>>
  /\ pc \in {3, 4, 5, 6, 7, 8, 9, 10, 11} => stack[3] = <<"cpuid", entry["eax"], "ecx">>
  /\ pc \in {3, 4, 5, 6, 7, 8, 9, 10, 11} => stack[4] = <<"cpuid", entry["eax"], "edx">>
  /\ pc \in {3, 4, 5, 6, 7, 8, 9, 10, 11} => stack[5] = <<"cpuid", entry["eax"], "ebx">>
  /\ pc = 4 => regs["ecx"] = <<"esp", 9, 0>>
  /\ pc \in {5, 6, 7, 8, 9, 10, 11} => regs["ecx"] = <<"esp", 5, 0>>
  /\ pc = 6 => stack[10] = W(4)
  /\ pc \in {7, 8, 9, 10, 11} => regs["eax"] = W(4)
  /\ pc = 8 => stack[10] = W(1)
  /\ pc \in {9, 10, 11, 12} => regs["ebx"] = W(1)
  /\ pc = 10 => stack[10] = W(12)
  /\ pc = 11 => regs["edx"] = W(12)
  /\ pc \in {13, 14} => regs["eax"] = W(1)
  /\ pc = 14 => regs["ebx"] = W(0)
Cpuid6Code ==
  /\ Len(code) = 14
  /\ code[1] = <<"cpuid", 0, 0>> /\ code[2] = <<"pusha", 0, 0>> /\ code[3] = <<"sp", "ecx", 0>>
  /\ code[4] = <<"addsp", "ecx", 4>> /\ code[5] = <<"push", W(4), 0>>
  /\ code[6] = <<"pop", "eax", 0>> /\ code[7] = <<"push", W(1), 0>>
  /\ code[8] = <<"pop", "ebx", 0>> /\ code[9] = <<"push", W(12), 0>>
  /\ code[10] = <<"pop", "edx", 0>> /\ code[11] = SYSCALL /\ code[12] = <<"xchg", "ebx", "eax">>
  /\ code[13] = <<"xor", "ebx", 0>> /\ code[14] = SYSCALL
LEMMA Cpuid6Step ==
  ASSUME Frame, how = << >>, Next, prog = "cpuid6", arch = "i386", Len(code) \in Nat,
         Cpuid6Code, Cpuid6Table
  PROVE  Leads(Cpuid6Table')
<1>n. Len(code) = 14
  BY DEF Cpuid6Code
<1>a. /\ how = << >> /\ DOMAIN regs = Reg /\ Anys(stack) /\ Anys(out)
      /\ Len(code) \in Nat /\ Cpuid6Table
  BY <1>n DEF Frame
<1>1. CASE pc = 1
  <2>1. Ins(<<"cpuid", 0, 0>>)
    BY <1>a, <1>n, <1>1 DEF Ins, Cpuid6Code
  <2>2. /\ Stepped /\ UNCHANGED <<stack, sf>> /\ DOMAIN regs' = Reg
        /\ \A r \in {"eax", "ebx", "ecx", "edx"} : regs'[r] = <<"cpuid", regs["eax"], r>>
        /\ regs'["esi"] = regs["esi"] /\ regs'["edi"] = regs["edi"]
    BY <2>1, DoCpuid
  <2>3. Cpuid6Table'
    BY <1>a, <1>1, <2>2 DEF Stepped, Reg, Cpuid6Table, W
  <2> QED  BY <1>a, <2>2, <2>3, Onward DEF Leads
<1>2. CASE pc = 2
  <2>1. Ins(<<"pusha", 0, 0>>)
    BY <1>a, <1>n, <1>2 DEF Ins, Cpuid6Code
  <2>2. /\ Len(stack) = 1
        /\ \A r \in {"eax", "ebx", "ecx", "edx"} : regs[r] = <<"cpuid", entry["eax"], r>>
    BY <1>a, <1>2 DEF Cpuid6Table
  <2>3. /\ Stepped /\ UNCHANGED <<regs, sf>> /\ Anys(stack') /\ Len(stack') = Len(stack) + 8
        /\ \A k \in 1 .. Len(stack) : stack'[k] = stack[k]
        /\ stack'[Len(stack) + 2] = regs["ecx"] /\ stack'[Len(stack) + 3] = regs["edx"]
        /\ stack'[Len(stack) + 4] = regs["ebx"]
    BY <1>a, <2>1, DoPusha
  <2>4. /\ Len(stack') = 9 /\ stack'[1] = stack[1] /\ stack'[3] = regs["ecx"]
        /\ stack'[4] = regs["edx"]
        /\ stack'[5] = regs["ebx"]
    BY <2>2, <2>3
  <2>5. pc' = 3 /\ entry' = entry /\ regs' = regs /\ stack[1] = Junk("stack")
    BY <1>a, <1>2, <2>3 DEF Stepped, Cpuid6Table
  <2>6. Cpuid6Table'
    BY <2>2, <2>4, <2>5 DEF Cpuid6Table
  <2> QED  BY <1>a, <2>3, <2>6, Onward DEF Leads
<1>3. CASE pc = 3
  <2>1. Ins(<<"sp", "ecx", 0>>)
    BY <1>a, <1>n, <1>3 DEF Ins, Cpuid6Code
  <2>2. /\ Stepped /\ UNCHANGED <<stack, sf>>
        /\ regs' = [regs EXCEPT !["ecx"] = <<"esp", Len(stack), 0>>]
    BY <2>1, DoSp
  <2>3. Len(stack) = 9
    BY <1>a, <1>3 DEF Cpuid6Table
  <2>4. regs' = [regs EXCEPT !["ecx"] = <<"esp", 9, 0>>]
    BY <2>2, <2>3
  <2>5. /\ pc' = pc + 1 /\ stack' = stack /\ entry' = entry /\ regs'["ecx"] = <<"esp", 9, 0>>
        /\ \A r \in Reg : r # "ecx" => regs'[r] = regs[r]
    BY <1>a, <2>2, <2>4 DEF Stepped, Reg
  <2>6. Cpuid6Table'
    BY <1>a, <1>3, <2>5 DEF Reg, Cpuid6Table
  <2> QED  BY <1>a, <2>2, <2>6, Onward DEF Leads
<1>4. CASE pc = 4
  <2>1. Ins(<<"addsp", "ecx", 4>>)
    BY <1>a, <1>n, <1>4 DEF Ins, Cpuid6Code
  <2>2. /\ Stepped /\ UNCHANGED <<stack, sf>>
        /\ regs' = [regs EXCEPT !["ecx"] = <<"esp", regs["ecx"][2] - 4, 0>>]
    BY <2>1, DoAddSp
  <2>3. regs["ecx"] = <<"esp", 9, 0>>
    BY <1>a, <1>4 DEF Cpuid6Table
  <2>4. regs' = [regs EXCEPT !["ecx"] = <<"esp", 5, 0>>]
    <3>1. regs["ecx"][2] = 9 /\ 9 - 4 = 5
      BY <2>3
    <3> QED  BY <2>2, <3>1
  <2>5. /\ pc' = 5 /\ stack' = stack /\ entry' = entry /\ regs'["ecx"] = <<"esp", 5, 0>>
    BY <1>a, <1>4, <2>2, <2>4 DEF Stepped, Reg
  <2>6. Cpuid6Table'
    BY <1>a, <1>4, <2>5 DEF Cpuid6Table
  <2> QED  BY <1>a, <2>2, <2>6, Onward DEF Leads
<1>5. CASE pc = 5
  <2>1. Ins(<<"push", W(4), 0>>)
    BY <1>a, <1>n, <1>5 DEF Ins, Cpuid6Code
  <2>2. Len(stack) = 9
    BY <1>a, <1>5 DEF Cpuid6Table, Bare
  <2>3. /\ Fine /\ how' = << >> /\ pc' = pc + 1 /\ entry' = entry /\ arch' = arch
        /\ Len(stack') = 10
        /\ regs' = regs /\ stack'[10] = W(4) /\ stack'[1] = stack[1] /\ stack'[2] = stack[2]
        /\ stack'[3] = stack[3] /\ stack'[4] = stack[4] /\ stack'[5] = stack[5]
        /\ stack'[6] = stack[6]
        /\ stack'[7] = stack[7] /\ stack'[8] = stack[8] /\ stack'[9] = stack[9]
    BY <2>1, <2>2, PushAt
  <2>4. Cpuid6Table'
    BY <1>a, <1>5, <2>3 DEF Reg, Cpuid6Table, W
  <2> QED  BY <2>3, <2>4 DEF Leads
<1>6. CASE pc = 6
  <2>1. Ins(<<"pop", "eax", 0>>)
    BY <1>a, <1>n, <1>6 DEF Ins, Cpuid6Code
  <2>2. Len(stack) = 10
    BY <1>a, <1>6 DEF Cpuid6Table, Bare
  <2>3. /\ Fine /\ how' = << >> /\ pc' = pc + 1 /\ entry' = entry /\ arch' = arch /\ Len(stack') = 9
        /\ regs' = [regs EXCEPT !["eax"] = stack[10]] /\ stack'[1] = stack[1]
        /\ stack'[2] = stack[2]
        /\ stack'[3] = stack[3] /\ stack'[4] = stack[4] /\ stack'[5] = stack[5]
        /\ stack'[6] = stack[6]
        /\ stack'[7] = stack[7] /\ stack'[8] = stack[8] /\ stack'[9] = stack[9]
    BY <2>1, <2>2, PopAt
  <2>4. Cpuid6Table'
    BY <1>a, <1>6, <2>3 DEF Reg, Cpuid6Table, W
  <2> QED  BY <2>3, <2>4 DEF Leads
<1>7. CASE pc = 7
  <2>1. Ins(<<"push", W(1), 0>>)
    BY <1>a, <1>n, <1>7 DEF Ins, Cpuid6Code
  <2>2. Len(stack) = 9
    BY <1>a, <1>7 DEF Cpuid6Table, Bare
  <2>3. /\ Fine /\ how' = << >> /\ pc' = pc + 1 /\ entry' = entry /\ arch' = arch
        /\ Len(stack') = 10
        /\ regs' = regs /\ stack'[10] = W(1) /\ stack'[1] = stack[1] /\ stack'[2] = stack[2]
        /\ stack'[3] = stack[3] /\ stack'[4] = stack[4] /\ stack'[5] = stack[5]
        /\ stack'[6] = stack[6]
        /\ stack'[7] = stack[7] /\ stack'[8] = stack[8] /\ stack'[9] = stack[9]
    BY <2>1, <2>2, PushAt
  <2>4. Cpuid6Table'
    BY <1>a, <1>7, <2>3 DEF Reg, Cpuid6Table, W
  <2> QED  BY <2>3, <2>4 DEF Leads
<1>8. CASE pc = 8
  <2>1. Ins(<<"pop", "ebx", 0>>)
    BY <1>a, <1>n, <1>8 DEF Ins, Cpuid6Code
  <2>2. Len(stack) = 10
    BY <1>a, <1>8 DEF Cpuid6Table, Bare
  <2>3. /\ Fine /\ how' = << >> /\ pc' = pc + 1 /\ entry' = entry /\ arch' = arch /\ Len(stack') = 9
        /\ regs' = [regs EXCEPT !["ebx"] = stack[10]] /\ stack'[1] = stack[1]
        /\ stack'[2] = stack[2]
        /\ stack'[3] = stack[3] /\ stack'[4] = stack[4] /\ stack'[5] = stack[5]
        /\ stack'[6] = stack[6]
        /\ stack'[7] = stack[7] /\ stack'[8] = stack[8] /\ stack'[9] = stack[9]
    BY <2>1, <2>2, PopAt
  <2>4. Cpuid6Table'
    BY <1>a, <1>8, <2>3 DEF Reg, Cpuid6Table, W
  <2> QED  BY <2>3, <2>4 DEF Leads
<1>9. CASE pc = 9
  <2>1. Ins(<<"push", W(12), 0>>)
    BY <1>a, <1>n, <1>9 DEF Ins, Cpuid6Code
  <2>2. Len(stack) = 9
    BY <1>a, <1>9 DEF Cpuid6Table, Bare
  <2>3. /\ Fine /\ how' = << >> /\ pc' = pc + 1 /\ entry' = entry /\ arch' = arch
        /\ Len(stack') = 10
        /\ regs' = regs /\ stack'[10] = W(12) /\ stack'[1] = stack[1] /\ stack'[2] = stack[2]
        /\ stack'[3] = stack[3] /\ stack'[4] = stack[4] /\ stack'[5] = stack[5]
        /\ stack'[6] = stack[6]
        /\ stack'[7] = stack[7] /\ stack'[8] = stack[8] /\ stack'[9] = stack[9]
    BY <2>1, <2>2, PushAt
  <2>4. Cpuid6Table'
    BY <1>a, <1>9, <2>3 DEF Reg, Cpuid6Table, W
  <2> QED  BY <2>3, <2>4 DEF Leads
<1>10. CASE pc = 10
  <2>1. Ins(<<"pop", "edx", 0>>)
    BY <1>a, <1>n, <1>10 DEF Ins, Cpuid6Code
  <2>2. Len(stack) = 10
    BY <1>a, <1>10 DEF Cpuid6Table, Bare
  <2>3. /\ Fine /\ how' = << >> /\ pc' = pc + 1 /\ entry' = entry /\ arch' = arch /\ Len(stack') = 9
        /\ regs' = [regs EXCEPT !["edx"] = stack[10]] /\ stack'[1] = stack[1]
        /\ stack'[2] = stack[2]
        /\ stack'[3] = stack[3] /\ stack'[4] = stack[4] /\ stack'[5] = stack[5]
        /\ stack'[6] = stack[6]
        /\ stack'[7] = stack[7] /\ stack'[8] = stack[8] /\ stack'[9] = stack[9]
    BY <2>1, <2>2, PopAt
  <2>4. Cpuid6Table'
    BY <1>a, <1>10, <2>3 DEF Reg, Cpuid6Table, W
  <2> QED  BY <2>3, <2>4 DEF Leads
<1>11. CASE pc = 11
  <2>1. Ins(SYSCALL)
    BY <1>a, <1>n, <1>11 DEF Ins, Cpuid6Code
  <2>2. /\ regs[ARG(arch, 1)] = W(1) /\ regs[ARG(arch, 2)] = <<"esp", 5, 0>>
        /\ regs[ARG(arch, 3)] = W(12) /\ regs["eax"] = NR_write(arch)
    BY <1>a, <1>11 DEF Cpuid6Table, ARG, NR_write
  <2>3. /\ stack[5] = <<"cpuid", entry["eax"], "ebx">>
        /\ stack[4] = <<"cpuid", entry["eax"], "edx">>
        /\ stack[3] = <<"cpuid", entry["eax"], "ecx">>
    BY <1>a, <1>11 DEF Cpuid6Table
  <2>4. 5 - 1 = 4 /\ 5 - 2 = 3
    OBVIOUS
  <2>5. /\ stack[5] = <<"cpuid", entry["eax"], "ebx">>
        /\ stack[5 - 1] = <<"cpuid", entry["eax"], "edx">>
        /\ stack[5 - 2] = <<"cpuid", entry["eax"], "ecx">>
    BY <2>3, <2>4
  <2>6. /\ Words(5, 3) = Maker(entry["eax"])
        /\ \A k \in 1 .. 3 : Words(5, 3)[k] # Junk("stack")
    BY <2>5, SpellMaker
  <2>7. ASSUME NEW r, r.what = Words(5, 3), r.n = 12  PROVE Ids(r)
    BY <2>6, <2>7, IdsFound
  <2>8. 3 = (12 + 3) \div 4
    OBVIOUS
  <2>9. /\ Fine /\ how' = << >> /\ pc' = pc + 1 /\ UNCHANGED <<stack, sf>>
        /\ \A r \in Reg \ ({"eax"} \cup Lost) : regs'[r] = regs[r]
    BY <2>1, <2>2, <2>6, <2>7, <2>8, SaysWords
  <2>10. Cpuid6Table'
    BY <1>a, <1>11, <2>9 DEF Fine, Same, Lost, Reg, Cpuid6Table
  <2> QED  BY <2>9, <2>10 DEF Leads
<1>12. CASE pc = 12
  <2>1. Ins(<<"xchg", "ebx", "eax">>)
    BY <1>a, <1>n, <1>12 DEF Ins, Cpuid6Code
  <2>2. /\ Stepped /\ UNCHANGED <<stack, sf>>
        /\ regs' = [regs EXCEPT !["ebx"] = regs["eax"], !["eax"] = regs["ebx"]]
    BY <2>1, DoXchg
  <2>3. Cpuid6Table'
    BY <1>a, <1>12, <2>2 DEF Stepped, Reg, Cpuid6Table, W
  <2> QED  BY <1>a, <2>2, <2>3, Onward DEF Leads
<1>13. CASE pc = 13
  <2>1. Ins(<<"xor", "ebx", 0>>)
    BY <1>a, <1>n, <1>13 DEF Ins, Cpuid6Code
  <2>2. Stepped /\ UNCHANGED <<stack, sf>> /\ regs' = [regs EXCEPT !["ebx"] = W(0)]
    BY <2>1, DoXor
  <2>3. Cpuid6Table'
    BY <1>a, <1>13, <2>2 DEF Stepped, Reg, Cpuid6Table, W
  <2> QED  BY <1>a, <2>2, <2>3, Onward DEF Leads
<1>14. CASE pc = 14
  <2>1. Ins(SYSCALL)
    BY <1>a, <1>n, <1>14 DEF Ins, Cpuid6Code
  <2>2. regs["eax"] = NR_exit(arch) /\ regs[ARG(arch, 1)] = W(0)
    BY <1>a, <1>14 DEF Cpuid6Table, NR_exit, ARG
  <2>3. /\ how' = <<"exit", regs[ARG(arch, 1)]>>
        /\ UNCHANGED <<prog, text, vm, arch, code, entry, pc, regs, stack, sf, out>>
    BY <2>1, <2>2, DoExit
  <2>4. how' = <<"exit", W(0)>> /\ Same /\ Quiet /\ UNCHANGED stack /\ DOMAIN regs' = Reg
    BY <1>a, <2>2, <2>3 DEF Same, Quiet
  <2>5. Fine /\ Ending
    BY <2>4, Leaving
  <2> QED  BY <2>5 DEF Leads
<1>d. pc \in {1, 2, 3, 4, 5, 6, 7, 8, 9, 10, 11, 12, 13, 14}
  BY <1>a DEF Cpuid6Table
<1> QED  BY <1>d, <1>1, <1>2, <1>3, <1>4, <1>5, <1>6, <1>7, <1>8, <1>9, <1>10, <1>11, <1>12,
       <1>13, <1>14

LEMMA Cpuid6Is ==
  ASSUME code = Code("cpuid6", "i386", text)
  PROVE  Cpuid6Code
<1> DEFINE p1 == <<<<"cpuid", 0, 0>>, <<"pusha", 0, 0>>, <<"sp", "ecx", 0>>, <<"addsp", "ecx", 4>>>>
<1> DEFINE p2 == Load(4, "eax")
<1> DEFINE p3 == p1 \o p2
<1> DEFINE p4 == Load(1, "ebx")
<1> DEFINE p5 == p3 \o p4
<1> DEFINE p6 == Load(12, "edx")
<1> DEFINE p7 == p5 \o p6
<1> DEFINE p8 == leave0
<1> DEFINE p9 == p7 \o p8
<1>1. code = p9
  BY DEF Code, cpuid6
<1>2. /\ Anys(p1) /\ Len(p1) = 4 /\ p1[1] = <<"cpuid", 0, 0>> /\ p1[2] = <<"pusha", 0, 0>>
      /\ p1[3] = <<"sp", "ecx", 0>> /\ p1[4] = <<"addsp", "ecx", 4>>
  BY Literals
<1>3. /\ Anys(p2) /\ Len(p2) = 2 /\ p2[1] = <<"push", W(4), 0>> /\ p2[2] = <<"pop", "eax", 0>>
  BY Literals DEF Load, push, pop
<1>4. /\ Anys(p4) /\ Len(p4) = 2 /\ p4[1] = <<"push", W(1), 0>> /\ p4[2] = <<"pop", "ebx", 0>>
  BY Literals DEF Load, push, pop
<1>5. /\ Anys(p6) /\ Len(p6) = 2 /\ p6[1] = <<"push", W(12), 0>> /\ p6[2] = <<"pop", "edx", 0>>
  BY Literals DEF Load, push, pop
<1>6. /\ Anys(p8) /\ Len(p8) = 4 /\ p8[1] = SYSCALL /\ p8[2] = <<"xchg", "ebx", "eax">>
      /\ p8[3] = <<"xor", "ebx", 0>> /\ p8[4] = SYSCALL
  BY Literals DEF leave0
<1> HIDE DEF p1, p2, p3, p4, p5, p6, p7, p8, p9
<1>7. /\ Anys(p3) /\ Len(p3) = 6 /\ p3[1] = <<"cpuid", 0, 0>> /\ p3[2] = <<"pusha", 0, 0>>
      /\ p3[3] = <<"sp", "ecx", 0>> /\ p3[4] = <<"addsp", "ecx", 4>>
      /\ p3[5] = <<"push", W(4), 0>> /\ p3[6] = <<"pop", "eax", 0>>
  <2>1. Anys(p1) /\ Anys(p2)
    BY <1>2, <1>3
  <2>2. /\ Anys(p1 \o p2) /\ Len(p1 \o p2) = Len(p1) + Len(p2)
        /\ \A k \in 1 .. Len(p1) : (p1 \o p2)[k] = p1[k]
        /\ \A k \in 1 .. Len(p2) : (p1 \o p2)[Len(p1) + k] = p2[k]
    BY <2>1, Joining
  <2>3. /\ Anys(p3) /\ Len(p3) = Len(p1) + Len(p2)
        /\ \A k \in 1 .. Len(p1) : p3[k] = p1[k]
        /\ \A k \in 1 .. Len(p2) : p3[Len(p1) + k] = p2[k]
    BY <2>2 DEF p3
  <2>4. Len(p1) = 4 /\ Len(p2) = 2
    BY <1>2, <1>3
  <2>5. /\ Len(p3) = 6 /\ p3[1] = p1[1] /\ p3[2] = p1[2] /\ p3[3] = p1[3] /\ p3[4] = p1[4]
        /\ p3[5] = p2[1] /\ p3[6] = p2[2]
    BY <2>3, <2>4
  <2> QED  BY <1>2, <1>3, <2>3, <2>5
<1>8. /\ Anys(p5) /\ Len(p5) = 8 /\ p5[1] = <<"cpuid", 0, 0>> /\ p5[2] = <<"pusha", 0, 0>>
      /\ p5[3] = <<"sp", "ecx", 0>> /\ p5[4] = <<"addsp", "ecx", 4>>
      /\ p5[5] = <<"push", W(4), 0>> /\ p5[6] = <<"pop", "eax", 0>>
      /\ p5[7] = <<"push", W(1), 0>> /\ p5[8] = <<"pop", "ebx", 0>>
  <2>1. Anys(p3) /\ Anys(p4)
    BY <1>7, <1>4
  <2>2. /\ Anys(p3 \o p4) /\ Len(p3 \o p4) = Len(p3) + Len(p4)
        /\ \A k \in 1 .. Len(p3) : (p3 \o p4)[k] = p3[k]
        /\ \A k \in 1 .. Len(p4) : (p3 \o p4)[Len(p3) + k] = p4[k]
    BY <2>1, Joining
  <2>3. /\ Anys(p5) /\ Len(p5) = Len(p3) + Len(p4)
        /\ \A k \in 1 .. Len(p3) : p5[k] = p3[k]
        /\ \A k \in 1 .. Len(p4) : p5[Len(p3) + k] = p4[k]
    BY <2>2 DEF p5
  <2>4. Len(p3) = 6 /\ Len(p4) = 2
    BY <1>7, <1>4
  <2>5. /\ Len(p5) = 8 /\ p5[1] = p3[1] /\ p5[2] = p3[2] /\ p5[3] = p3[3] /\ p5[4] = p3[4]
        /\ p5[5] = p3[5] /\ p5[6] = p3[6] /\ p5[7] = p4[1] /\ p5[8] = p4[2]
    BY <2>3, <2>4
  <2> QED  BY <1>7, <1>4, <2>3, <2>5
<1>9. /\ Anys(p7) /\ Len(p7) = 10 /\ p7[1] = <<"cpuid", 0, 0>> /\ p7[2] = <<"pusha", 0, 0>>
      /\ p7[3] = <<"sp", "ecx", 0>> /\ p7[4] = <<"addsp", "ecx", 4>>
      /\ p7[5] = <<"push", W(4), 0>> /\ p7[6] = <<"pop", "eax", 0>>
      /\ p7[7] = <<"push", W(1), 0>> /\ p7[8] = <<"pop", "ebx", 0>>
      /\ p7[9] = <<"push", W(12), 0>> /\ p7[10] = <<"pop", "edx", 0>>
  <2>1. Anys(p5) /\ Anys(p6)
    BY <1>8, <1>5
  <2>2. /\ Anys(p5 \o p6) /\ Len(p5 \o p6) = Len(p5) + Len(p6)
        /\ \A k \in 1 .. Len(p5) : (p5 \o p6)[k] = p5[k]
        /\ \A k \in 1 .. Len(p6) : (p5 \o p6)[Len(p5) + k] = p6[k]
    BY <2>1, Joining
  <2>3. /\ Anys(p7) /\ Len(p7) = Len(p5) + Len(p6)
        /\ \A k \in 1 .. Len(p5) : p7[k] = p5[k]
        /\ \A k \in 1 .. Len(p6) : p7[Len(p5) + k] = p6[k]
    BY <2>2 DEF p7
  <2>4. Len(p5) = 8 /\ Len(p6) = 2
    BY <1>8, <1>5
  <2>5. /\ Len(p7) = 10 /\ p7[1] = p5[1] /\ p7[2] = p5[2] /\ p7[3] = p5[3] /\ p7[4] = p5[4]
        /\ p7[5] = p5[5] /\ p7[6] = p5[6] /\ p7[7] = p5[7] /\ p7[8] = p5[8] /\ p7[9] = p6[1]
        /\ p7[10] = p6[2]
    BY <2>3, <2>4
  <2> QED  BY <1>8, <1>5, <2>3, <2>5
<1>10. /\ Anys(p9) /\ Len(p9) = 14 /\ p9[1] = <<"cpuid", 0, 0>> /\ p9[2] = <<"pusha", 0, 0>>
      /\ p9[3] = <<"sp", "ecx", 0>> /\ p9[4] = <<"addsp", "ecx", 4>>
      /\ p9[5] = <<"push", W(4), 0>> /\ p9[6] = <<"pop", "eax", 0>>
      /\ p9[7] = <<"push", W(1), 0>> /\ p9[8] = <<"pop", "ebx", 0>>
      /\ p9[9] = <<"push", W(12), 0>> /\ p9[10] = <<"pop", "edx", 0>> /\ p9[11] = SYSCALL
      /\ p9[12] = <<"xchg", "ebx", "eax">> /\ p9[13] = <<"xor", "ebx", 0>> /\ p9[14] = SYSCALL
  <2>1. Anys(p7) /\ Anys(p8)
    BY <1>9, <1>6
  <2>2. /\ Anys(p7 \o p8) /\ Len(p7 \o p8) = Len(p7) + Len(p8)
        /\ \A k \in 1 .. Len(p7) : (p7 \o p8)[k] = p7[k]
        /\ \A k \in 1 .. Len(p8) : (p7 \o p8)[Len(p7) + k] = p8[k]
    BY <2>1, Joining
  <2>3. /\ Anys(p9) /\ Len(p9) = Len(p7) + Len(p8)
        /\ \A k \in 1 .. Len(p7) : p9[k] = p7[k]
        /\ \A k \in 1 .. Len(p8) : p9[Len(p7) + k] = p8[k]
    BY <2>2 DEF p9
  <2>4. Len(p7) = 10 /\ Len(p8) = 4
    BY <1>9, <1>6
  <2>5. /\ Len(p9) = 14 /\ p9[1] = p7[1] /\ p9[2] = p7[2] /\ p9[3] = p7[3] /\ p9[4] = p7[4]
        /\ p9[5] = p7[5] /\ p9[6] = p7[6] /\ p9[7] = p7[7] /\ p9[8] = p7[8] /\ p9[9] = p7[9]
        /\ p9[10] = p7[10] /\ p9[11] = p8[1] /\ p9[12] = p8[2] /\ p9[13] = p8[3]
        /\ p9[14] = p8[4]
    BY <2>3, <2>4
  <2> QED  BY <1>9, <1>6, <2>3, <2>5
<1> QED  BY <1>1, <1>10 DEF Cpuid6Code

-----------------------------------------------------------------------------
(* cpuid5: what it pushes is Banner, last word first.                      *)

LEMMA HypervisorIs ==
  LET p == Hypervisor
         IN  /\ Anys(p) /\ Len(p) = 3
             /\ p[1] = <<"cpuid", <<16384, 0>>, "ebx">>
             /\ p[2] = <<"cpuid", <<16384, 0>>, "ecx">>
             /\ p[3] = <<"cpuid", <<16384, 0>>, "edx">>
<1> DEFINE rs == <<"ebx", "ecx", "edx">>
<1>1. Anys(rs) /\ Len(rs) = 3 /\ rs[1] = "ebx" /\ rs[2] = "ecx" /\ rs[3] = "edx"
  BY Literals
<1> HIDE DEF rs
<1>2. DOMAIN rs = 1 .. 3
  BY <1>1, Lengths
<1> DEFINE P(k) == <<"cpuid", <<16384, 0>>, rs[k]>>
<1> DEFINE S == {P(k) : k \in 1 .. 3}
<1>3. Spelt(<<16384, 0>>, rs) = [k \in 1 .. 3 |-> P(k)]
  BY <1>2 DEF Spelt
<1>4. \A k \in 1 .. 3 : P(k) \in S
  OBVIOUS
<1>5. 3 \in Nat
  OBVIOUS
<1> HIDE DEF P, S
<1>6. [k \in 1 .. 3 |-> P(k)] \in Seq(S) /\ Len([k \in 1 .. 3 |-> P(k)]) = 3
  BY <1>4, <1>5, IsASeq
<1> DEFINE p == [k \in 1 .. 3 |-> P(k)]
<1>7. p[1] = P(1) /\ p[2] = P(2) /\ p[3] = P(3)
  OBVIOUS
<1> HIDE DEF p
<1>8. Anys(p) /\ Len(p) = 3
  BY <1>6 DEF Anys, p
<1>9. /\ p[1] = <<"cpuid", <<16384, 0>>, "ebx">>
      /\ p[2] = <<"cpuid", <<16384, 0>>, "ecx">>
      /\ p[3] = <<"cpuid", <<16384, 0>>, "edx">>
  BY <1>1, <1>7 DEF P
<1> QED  BY <1>3, <1>8, <1>9 DEF Hypervisor, rs, p

LEMMA MakerIs ==
  ASSUME NEW leaf
  PROVE  LET p == Maker(leaf)
         IN  /\ Anys(p) /\ Len(p) = 3
             /\ p[1] = <<"cpuid", leaf, "ebx">> /\ p[2] = <<"cpuid", leaf, "edx">>
             /\ p[3] = <<"cpuid", leaf, "ecx">>
<1> DEFINE rs == <<"ebx", "edx", "ecx">>
<1>1. Anys(rs) /\ Len(rs) = 3 /\ rs[1] = "ebx" /\ rs[2] = "edx" /\ rs[3] = "ecx"
  BY Literals
<1> HIDE DEF rs
<1>2. DOMAIN rs = 1 .. 3
  BY <1>1, Lengths
<1> DEFINE P(k) == <<"cpuid", leaf, rs[k]>>
<1> DEFINE S == {P(k) : k \in 1 .. 3}
<1>3. Spelt(leaf, rs) = [k \in 1 .. 3 |-> P(k)]
  BY <1>2 DEF Spelt
<1>4. \A k \in 1 .. 3 : P(k) \in S
  OBVIOUS
<1>5. 3 \in Nat
  OBVIOUS
<1> HIDE DEF P, S
<1>6. [k \in 1 .. 3 |-> P(k)] \in Seq(S) /\ Len([k \in 1 .. 3 |-> P(k)]) = 3
  BY <1>4, <1>5, IsASeq
<1> DEFINE p == [k \in 1 .. 3 |-> P(k)]
<1>7. p[1] = P(1) /\ p[2] = P(2) /\ p[3] = P(3)
  OBVIOUS
<1> HIDE DEF p
<1>8. Anys(p) /\ Len(p) = 3
  BY <1>6 DEF Anys, p
<1>9. /\ p[1] = <<"cpuid", leaf, "ebx">> /\ p[2] = <<"cpuid", leaf, "edx">>
      /\ p[3] = <<"cpuid", leaf, "ecx">>
  BY <1>1, <1>7 DEF P
<1> QED  BY <1>3, <1>8, <1>9 DEF Maker, rs, p

LEMMA BrandIs ==
  ASSUME NEW n
  PROVE  LET p == Brand(n)
         IN  /\ Anys(p) /\ Len(p) = 4
             /\ p[1] = <<"cpuid", <<32768, n>>, "eax">>
             /\ p[2] = <<"cpuid", <<32768, n>>, "ebx">>
             /\ p[3] = <<"cpuid", <<32768, n>>, "ecx">>
             /\ p[4] = <<"cpuid", <<32768, n>>, "edx">>
<1> DEFINE rs == <<"eax", "ebx", "ecx", "edx">>
<1>1. Anys(rs) /\ Len(rs) = 4 /\ rs[1] = "eax" /\ rs[2] = "ebx" /\ rs[3] = "ecx" /\ rs[4] = "edx"
  BY Literals
<1> HIDE DEF rs
<1>2. DOMAIN rs = 1 .. 4
  BY <1>1, Lengths
<1> DEFINE P(k) == <<"cpuid", <<32768, n>>, rs[k]>>
<1> DEFINE S == {P(k) : k \in 1 .. 4}
<1>3. Spelt(<<32768, n>>, rs) = [k \in 1 .. 4 |-> P(k)]
  BY <1>2 DEF Spelt
<1>4. \A k \in 1 .. 4 : P(k) \in S
  OBVIOUS
<1>5. 4 \in Nat
  OBVIOUS
<1> HIDE DEF P, S
<1>6. [k \in 1 .. 4 |-> P(k)] \in Seq(S) /\ Len([k \in 1 .. 4 |-> P(k)]) = 4
  BY <1>4, <1>5, IsASeq
<1> DEFINE p == [k \in 1 .. 4 |-> P(k)]
<1>7. p[1] = P(1) /\ p[2] = P(2) /\ p[3] = P(3) /\ p[4] = P(4)
  OBVIOUS
<1> HIDE DEF p
<1>8. Anys(p) /\ Len(p) = 4
  BY <1>6 DEF Anys, p
<1>9. /\ p[1] = <<"cpuid", <<32768, n>>, "eax">>
      /\ p[2] = <<"cpuid", <<32768, n>>, "ebx">>
      /\ p[3] = <<"cpuid", <<32768, n>>, "ecx">>
      /\ p[4] = <<"cpuid", <<32768, n>>, "edx">>
  BY <1>1, <1>7 DEF P
<1> QED  BY <1>3, <1>8, <1>9 DEF Brand, rs, p

LEMMA BannerIs ==
  /\ Anys(Banner) /\ Len(Banner) = 22
  /\ Banner[1] = <<8250, 22088>> /\ Banner[2] = <<"cpuid", <<16384, 0>>, "ebx">>
  /\ Banner[3] = <<"cpuid", <<16384, 0>>, "ecx">> /\ Banner[4] = <<"cpuid", <<16384, 0>>, "edx">>
  /\ Banner[5] = <<8250, 19722>> /\ Banner[6] = <<"cpuid", W(0), "ebx">>
  /\ Banner[7] = <<"cpuid", W(0), "edx">> /\ Banner[8] = <<"cpuid", W(0), "ecx">>
  /\ Banner[9] = <<8250, 20490>> /\ Banner[10] = <<"cpuid", <<32768, 2>>, "eax">>
  /\ Banner[11] = <<"cpuid", <<32768, 2>>, "ebx">> /\ Banner[12] = <<"cpuid", <<32768, 2>>, "ecx">>
  /\ Banner[13] = <<"cpuid", <<32768, 2>>, "edx">> /\ Banner[14] = <<"cpuid", <<32768, 3>>, "eax">>
  /\ Banner[15] = <<"cpuid", <<32768, 3>>, "ebx">> /\ Banner[16] = <<"cpuid", <<32768, 3>>, "ecx">>
  /\ Banner[17] = <<"cpuid", <<32768, 3>>, "edx">> /\ Banner[18] = <<"cpuid", <<32768, 4>>, "eax">>
  /\ Banner[19] = <<"cpuid", <<32768, 4>>, "ebx">> /\ Banner[20] = <<"cpuid", <<32768, 4>>, "ecx">>
  /\ Banner[21] = <<"cpuid", <<32768, 4>>, "edx">> /\ Banner[22] = W(10)
<1> DEFINE p1 == <<<<8250, 22088>>>>
<1> DEFINE p2 == Hypervisor
<1> DEFINE p3 == p1 \o p2
<1> DEFINE p4 == <<<<8250, 19722>>>>
<1> DEFINE p5 == p3 \o p4
<1> DEFINE p6 == Maker(W(0))
<1> DEFINE p7 == p5 \o p6
<1> DEFINE p8 == <<<<8250, 20490>>>>
<1> DEFINE p9 == p7 \o p8
<1> DEFINE p10 == Brand(2)
<1> DEFINE p11 == p9 \o p10
<1> DEFINE p12 == Brand(3)
<1> DEFINE p13 == p11 \o p12
<1> DEFINE p14 == Brand(4)
<1> DEFINE p15 == p13 \o p14
<1> DEFINE p16 == <<W(10)>>
<1> DEFINE p17 == p15 \o p16
<1>1. Banner = p17
  BY DEF Banner
<1>2. /\ Anys(p1) /\ Len(p1) = 1 /\ p1[1] = <<8250, 22088>>
  BY Literals
<1>3. /\ Anys(p2) /\ Len(p2) = 3 /\ p2[1] = <<"cpuid", <<16384, 0>>, "ebx">>
      /\ p2[2] = <<"cpuid", <<16384, 0>>, "ecx">> /\ p2[3] = <<"cpuid", <<16384, 0>>, "edx">>
  BY HypervisorIs
<1>4. /\ Anys(p4) /\ Len(p4) = 1 /\ p4[1] = <<8250, 19722>>
  BY Literals
<1>5. /\ Anys(p6) /\ Len(p6) = 3 /\ p6[1] = <<"cpuid", W(0), "ebx">>
      /\ p6[2] = <<"cpuid", W(0), "edx">> /\ p6[3] = <<"cpuid", W(0), "ecx">>
  BY MakerIs
<1>6. /\ Anys(p8) /\ Len(p8) = 1 /\ p8[1] = <<8250, 20490>>
  BY Literals
<1>7. /\ Anys(p10) /\ Len(p10) = 4 /\ p10[1] = <<"cpuid", <<32768, 2>>, "eax">>
      /\ p10[2] = <<"cpuid", <<32768, 2>>, "ebx">> /\ p10[3] = <<"cpuid", <<32768, 2>>, "ecx">>
      /\ p10[4] = <<"cpuid", <<32768, 2>>, "edx">>
  BY BrandIs
<1>8. /\ Anys(p12) /\ Len(p12) = 4 /\ p12[1] = <<"cpuid", <<32768, 3>>, "eax">>
      /\ p12[2] = <<"cpuid", <<32768, 3>>, "ebx">> /\ p12[3] = <<"cpuid", <<32768, 3>>, "ecx">>
      /\ p12[4] = <<"cpuid", <<32768, 3>>, "edx">>
  BY BrandIs
<1>9. /\ Anys(p14) /\ Len(p14) = 4 /\ p14[1] = <<"cpuid", <<32768, 4>>, "eax">>
      /\ p14[2] = <<"cpuid", <<32768, 4>>, "ebx">> /\ p14[3] = <<"cpuid", <<32768, 4>>, "ecx">>
      /\ p14[4] = <<"cpuid", <<32768, 4>>, "edx">>
  BY BrandIs
<1>10. /\ Anys(p16) /\ Len(p16) = 1 /\ p16[1] = W(10)
  BY Literals
<1> HIDE DEF p1, p2, p3, p4, p5, p6, p7, p8, p9, p10, p11, p12, p13, p14, p15, p16, p17
<1>11. /\ Anys(p3) /\ Len(p3) = 4 /\ p3[1] = <<8250, 22088>>
      /\ p3[2] = <<"cpuid", <<16384, 0>>, "ebx">> /\ p3[3] = <<"cpuid", <<16384, 0>>, "ecx">>
      /\ p3[4] = <<"cpuid", <<16384, 0>>, "edx">>
  <2>1. Anys(p1) /\ Anys(p2)
    BY <1>2, <1>3
  <2>2. /\ Anys(p1 \o p2) /\ Len(p1 \o p2) = Len(p1) + Len(p2)
        /\ \A k \in 1 .. Len(p1) : (p1 \o p2)[k] = p1[k]
        /\ \A k \in 1 .. Len(p2) : (p1 \o p2)[Len(p1) + k] = p2[k]
    BY <2>1, Joining
  <2>3. /\ Anys(p3) /\ Len(p3) = Len(p1) + Len(p2)
        /\ \A k \in 1 .. Len(p1) : p3[k] = p1[k]
        /\ \A k \in 1 .. Len(p2) : p3[Len(p1) + k] = p2[k]
    BY <2>2 DEF p3
  <2>4. Len(p1) = 1 /\ Len(p2) = 3
    BY <1>2, <1>3
  <2>5. /\ Len(p3) = 4 /\ p3[1] = p1[1] /\ p3[2] = p2[1] /\ p3[3] = p2[2] /\ p3[4] = p2[3]
    BY <2>3, <2>4
  <2> QED  BY <1>2, <1>3, <2>3, <2>5
<1>12. /\ Anys(p5) /\ Len(p5) = 5 /\ p5[1] = <<8250, 22088>>
      /\ p5[2] = <<"cpuid", <<16384, 0>>, "ebx">> /\ p5[3] = <<"cpuid", <<16384, 0>>, "ecx">>
      /\ p5[4] = <<"cpuid", <<16384, 0>>, "edx">> /\ p5[5] = <<8250, 19722>>
  <2>1. Anys(p3) /\ Anys(p4)
    BY <1>11, <1>4
  <2>2. /\ Anys(p3 \o p4) /\ Len(p3 \o p4) = Len(p3) + Len(p4)
        /\ \A k \in 1 .. Len(p3) : (p3 \o p4)[k] = p3[k]
        /\ \A k \in 1 .. Len(p4) : (p3 \o p4)[Len(p3) + k] = p4[k]
    BY <2>1, Joining
  <2>3. /\ Anys(p5) /\ Len(p5) = Len(p3) + Len(p4)
        /\ \A k \in 1 .. Len(p3) : p5[k] = p3[k]
        /\ \A k \in 1 .. Len(p4) : p5[Len(p3) + k] = p4[k]
    BY <2>2 DEF p5
  <2>4. Len(p3) = 4 /\ Len(p4) = 1
    BY <1>11, <1>4
  <2>5. /\ Len(p5) = 5 /\ p5[1] = p3[1] /\ p5[2] = p3[2] /\ p5[3] = p3[3] /\ p5[4] = p3[4]
        /\ p5[5] = p4[1]
    BY <2>3, <2>4
  <2> QED  BY <1>11, <1>4, <2>3, <2>5
<1>13. /\ Anys(p7) /\ Len(p7) = 8 /\ p7[1] = <<8250, 22088>>
      /\ p7[2] = <<"cpuid", <<16384, 0>>, "ebx">> /\ p7[3] = <<"cpuid", <<16384, 0>>, "ecx">>
      /\ p7[4] = <<"cpuid", <<16384, 0>>, "edx">> /\ p7[5] = <<8250, 19722>>
      /\ p7[6] = <<"cpuid", W(0), "ebx">> /\ p7[7] = <<"cpuid", W(0), "edx">>
      /\ p7[8] = <<"cpuid", W(0), "ecx">>
  <2>1. Anys(p5) /\ Anys(p6)
    BY <1>12, <1>5
  <2>2. /\ Anys(p5 \o p6) /\ Len(p5 \o p6) = Len(p5) + Len(p6)
        /\ \A k \in 1 .. Len(p5) : (p5 \o p6)[k] = p5[k]
        /\ \A k \in 1 .. Len(p6) : (p5 \o p6)[Len(p5) + k] = p6[k]
    BY <2>1, Joining
  <2>3. /\ Anys(p7) /\ Len(p7) = Len(p5) + Len(p6)
        /\ \A k \in 1 .. Len(p5) : p7[k] = p5[k]
        /\ \A k \in 1 .. Len(p6) : p7[Len(p5) + k] = p6[k]
    BY <2>2 DEF p7
  <2>4. Len(p5) = 5 /\ Len(p6) = 3
    BY <1>12, <1>5
  <2>5. /\ Len(p7) = 8 /\ p7[1] = p5[1] /\ p7[2] = p5[2] /\ p7[3] = p5[3] /\ p7[4] = p5[4]
        /\ p7[5] = p5[5] /\ p7[6] = p6[1] /\ p7[7] = p6[2] /\ p7[8] = p6[3]
    BY <2>3, <2>4
  <2> QED  BY <1>12, <1>5, <2>3, <2>5
<1>14. /\ Anys(p9) /\ Len(p9) = 9 /\ p9[1] = <<8250, 22088>>
      /\ p9[2] = <<"cpuid", <<16384, 0>>, "ebx">> /\ p9[3] = <<"cpuid", <<16384, 0>>, "ecx">>
      /\ p9[4] = <<"cpuid", <<16384, 0>>, "edx">> /\ p9[5] = <<8250, 19722>>
      /\ p9[6] = <<"cpuid", W(0), "ebx">> /\ p9[7] = <<"cpuid", W(0), "edx">>
      /\ p9[8] = <<"cpuid", W(0), "ecx">> /\ p9[9] = <<8250, 20490>>
  <2>1. Anys(p7) /\ Anys(p8)
    BY <1>13, <1>6
  <2>2. /\ Anys(p7 \o p8) /\ Len(p7 \o p8) = Len(p7) + Len(p8)
        /\ \A k \in 1 .. Len(p7) : (p7 \o p8)[k] = p7[k]
        /\ \A k \in 1 .. Len(p8) : (p7 \o p8)[Len(p7) + k] = p8[k]
    BY <2>1, Joining
  <2>3. /\ Anys(p9) /\ Len(p9) = Len(p7) + Len(p8)
        /\ \A k \in 1 .. Len(p7) : p9[k] = p7[k]
        /\ \A k \in 1 .. Len(p8) : p9[Len(p7) + k] = p8[k]
    BY <2>2 DEF p9
  <2>4. Len(p7) = 8 /\ Len(p8) = 1
    BY <1>13, <1>6
  <2>5. /\ Len(p9) = 9 /\ p9[1] = p7[1] /\ p9[2] = p7[2] /\ p9[3] = p7[3] /\ p9[4] = p7[4]
        /\ p9[5] = p7[5] /\ p9[6] = p7[6] /\ p9[7] = p7[7] /\ p9[8] = p7[8] /\ p9[9] = p8[1]
    BY <2>3, <2>4
  <2> QED  BY <1>13, <1>6, <2>3, <2>5
<1>15. /\ Anys(p11) /\ Len(p11) = 13 /\ p11[1] = <<8250, 22088>>
      /\ p11[2] = <<"cpuid", <<16384, 0>>, "ebx">> /\ p11[3] = <<"cpuid", <<16384, 0>>, "ecx">>
      /\ p11[4] = <<"cpuid", <<16384, 0>>, "edx">> /\ p11[5] = <<8250, 19722>>
      /\ p11[6] = <<"cpuid", W(0), "ebx">> /\ p11[7] = <<"cpuid", W(0), "edx">>
      /\ p11[8] = <<"cpuid", W(0), "ecx">> /\ p11[9] = <<8250, 20490>>
      /\ p11[10] = <<"cpuid", <<32768, 2>>, "eax">>
      /\ p11[11] = <<"cpuid", <<32768, 2>>, "ebx">>
      /\ p11[12] = <<"cpuid", <<32768, 2>>, "ecx">>
      /\ p11[13] = <<"cpuid", <<32768, 2>>, "edx">>
  <2>1. Anys(p9) /\ Anys(p10)
    BY <1>14, <1>7
  <2>2. /\ Anys(p9 \o p10) /\ Len(p9 \o p10) = Len(p9) + Len(p10)
        /\ \A k \in 1 .. Len(p9) : (p9 \o p10)[k] = p9[k]
        /\ \A k \in 1 .. Len(p10) : (p9 \o p10)[Len(p9) + k] = p10[k]
    BY <2>1, Joining
  <2>3. /\ Anys(p11) /\ Len(p11) = Len(p9) + Len(p10)
        /\ \A k \in 1 .. Len(p9) : p11[k] = p9[k]
        /\ \A k \in 1 .. Len(p10) : p11[Len(p9) + k] = p10[k]
    BY <2>2 DEF p11
  <2>4. Len(p9) = 9 /\ Len(p10) = 4
    BY <1>14, <1>7
  <2>5. /\ Len(p11) = 13 /\ p11[1] = p9[1] /\ p11[2] = p9[2] /\ p11[3] = p9[3]
        /\ p11[4] = p9[4] /\ p11[5] = p9[5] /\ p11[6] = p9[6] /\ p11[7] = p9[7]
        /\ p11[8] = p9[8] /\ p11[9] = p9[9] /\ p11[10] = p10[1] /\ p11[11] = p10[2]
        /\ p11[12] = p10[3] /\ p11[13] = p10[4]
    BY <2>3, <2>4
  <2> QED  BY <1>14, <1>7, <2>3, <2>5
<1>16. /\ Anys(p13) /\ Len(p13) = 17 /\ p13[1] = <<8250, 22088>>
      /\ p13[2] = <<"cpuid", <<16384, 0>>, "ebx">> /\ p13[3] = <<"cpuid", <<16384, 0>>, "ecx">>
      /\ p13[4] = <<"cpuid", <<16384, 0>>, "edx">> /\ p13[5] = <<8250, 19722>>
      /\ p13[6] = <<"cpuid", W(0), "ebx">> /\ p13[7] = <<"cpuid", W(0), "edx">>
      /\ p13[8] = <<"cpuid", W(0), "ecx">> /\ p13[9] = <<8250, 20490>>
      /\ p13[10] = <<"cpuid", <<32768, 2>>, "eax">>
      /\ p13[11] = <<"cpuid", <<32768, 2>>, "ebx">>
      /\ p13[12] = <<"cpuid", <<32768, 2>>, "ecx">>
      /\ p13[13] = <<"cpuid", <<32768, 2>>, "edx">>
      /\ p13[14] = <<"cpuid", <<32768, 3>>, "eax">>
      /\ p13[15] = <<"cpuid", <<32768, 3>>, "ebx">>
      /\ p13[16] = <<"cpuid", <<32768, 3>>, "ecx">>
      /\ p13[17] = <<"cpuid", <<32768, 3>>, "edx">>
  <2>1. Anys(p11) /\ Anys(p12)
    BY <1>15, <1>8
  <2>2. /\ Anys(p11 \o p12) /\ Len(p11 \o p12) = Len(p11) + Len(p12)
        /\ \A k \in 1 .. Len(p11) : (p11 \o p12)[k] = p11[k]
        /\ \A k \in 1 .. Len(p12) : (p11 \o p12)[Len(p11) + k] = p12[k]
    BY <2>1, Joining
  <2>3. /\ Anys(p13) /\ Len(p13) = Len(p11) + Len(p12)
        /\ \A k \in 1 .. Len(p11) : p13[k] = p11[k]
        /\ \A k \in 1 .. Len(p12) : p13[Len(p11) + k] = p12[k]
    BY <2>2 DEF p13
  <2>4. Len(p11) = 13 /\ Len(p12) = 4
    BY <1>15, <1>8
  <2>5. /\ Len(p13) = 17 /\ p13[1] = p11[1] /\ p13[2] = p11[2] /\ p13[3] = p11[3]
        /\ p13[4] = p11[4] /\ p13[5] = p11[5] /\ p13[6] = p11[6] /\ p13[7] = p11[7]
        /\ p13[8] = p11[8] /\ p13[9] = p11[9] /\ p13[10] = p11[10] /\ p13[11] = p11[11]
        /\ p13[12] = p11[12] /\ p13[13] = p11[13] /\ p13[14] = p12[1] /\ p13[15] = p12[2]
        /\ p13[16] = p12[3] /\ p13[17] = p12[4]
    BY <2>3, <2>4
  <2> QED  BY <1>15, <1>8, <2>3, <2>5
<1>17. /\ Anys(p15) /\ Len(p15) = 21 /\ p15[1] = <<8250, 22088>>
      /\ p15[2] = <<"cpuid", <<16384, 0>>, "ebx">> /\ p15[3] = <<"cpuid", <<16384, 0>>, "ecx">>
      /\ p15[4] = <<"cpuid", <<16384, 0>>, "edx">> /\ p15[5] = <<8250, 19722>>
      /\ p15[6] = <<"cpuid", W(0), "ebx">> /\ p15[7] = <<"cpuid", W(0), "edx">>
      /\ p15[8] = <<"cpuid", W(0), "ecx">> /\ p15[9] = <<8250, 20490>>
      /\ p15[10] = <<"cpuid", <<32768, 2>>, "eax">>
      /\ p15[11] = <<"cpuid", <<32768, 2>>, "ebx">>
      /\ p15[12] = <<"cpuid", <<32768, 2>>, "ecx">>
      /\ p15[13] = <<"cpuid", <<32768, 2>>, "edx">>
      /\ p15[14] = <<"cpuid", <<32768, 3>>, "eax">>
      /\ p15[15] = <<"cpuid", <<32768, 3>>, "ebx">>
      /\ p15[16] = <<"cpuid", <<32768, 3>>, "ecx">>
      /\ p15[17] = <<"cpuid", <<32768, 3>>, "edx">>
      /\ p15[18] = <<"cpuid", <<32768, 4>>, "eax">>
      /\ p15[19] = <<"cpuid", <<32768, 4>>, "ebx">>
      /\ p15[20] = <<"cpuid", <<32768, 4>>, "ecx">>
      /\ p15[21] = <<"cpuid", <<32768, 4>>, "edx">>
  <2>1. Anys(p13) /\ Anys(p14)
    BY <1>16, <1>9
  <2>2. /\ Anys(p13 \o p14) /\ Len(p13 \o p14) = Len(p13) + Len(p14)
        /\ \A k \in 1 .. Len(p13) : (p13 \o p14)[k] = p13[k]
        /\ \A k \in 1 .. Len(p14) : (p13 \o p14)[Len(p13) + k] = p14[k]
    BY <2>1, Joining
  <2>3. /\ Anys(p15) /\ Len(p15) = Len(p13) + Len(p14)
        /\ \A k \in 1 .. Len(p13) : p15[k] = p13[k]
        /\ \A k \in 1 .. Len(p14) : p15[Len(p13) + k] = p14[k]
    BY <2>2 DEF p15
  <2>4. Len(p13) = 17 /\ Len(p14) = 4
    BY <1>16, <1>9
  <2>5. /\ Len(p15) = 21 /\ p15[1] = p13[1] /\ p15[2] = p13[2] /\ p15[3] = p13[3]
        /\ p15[4] = p13[4] /\ p15[5] = p13[5] /\ p15[6] = p13[6] /\ p15[7] = p13[7]
        /\ p15[8] = p13[8] /\ p15[9] = p13[9] /\ p15[10] = p13[10] /\ p15[11] = p13[11]
        /\ p15[12] = p13[12] /\ p15[13] = p13[13] /\ p15[14] = p13[14] /\ p15[15] = p13[15]
        /\ p15[16] = p13[16] /\ p15[17] = p13[17] /\ p15[18] = p14[1] /\ p15[19] = p14[2]
        /\ p15[20] = p14[3] /\ p15[21] = p14[4]
    BY <2>3, <2>4
  <2> QED  BY <1>16, <1>9, <2>3, <2>5
<1>18. /\ Anys(p17) /\ Len(p17) = 22 /\ p17[1] = <<8250, 22088>>
      /\ p17[2] = <<"cpuid", <<16384, 0>>, "ebx">> /\ p17[3] = <<"cpuid", <<16384, 0>>, "ecx">>
      /\ p17[4] = <<"cpuid", <<16384, 0>>, "edx">> /\ p17[5] = <<8250, 19722>>
      /\ p17[6] = <<"cpuid", W(0), "ebx">> /\ p17[7] = <<"cpuid", W(0), "edx">>
      /\ p17[8] = <<"cpuid", W(0), "ecx">> /\ p17[9] = <<8250, 20490>>
      /\ p17[10] = <<"cpuid", <<32768, 2>>, "eax">>
      /\ p17[11] = <<"cpuid", <<32768, 2>>, "ebx">>
      /\ p17[12] = <<"cpuid", <<32768, 2>>, "ecx">>
      /\ p17[13] = <<"cpuid", <<32768, 2>>, "edx">>
      /\ p17[14] = <<"cpuid", <<32768, 3>>, "eax">>
      /\ p17[15] = <<"cpuid", <<32768, 3>>, "ebx">>
      /\ p17[16] = <<"cpuid", <<32768, 3>>, "ecx">>
      /\ p17[17] = <<"cpuid", <<32768, 3>>, "edx">>
      /\ p17[18] = <<"cpuid", <<32768, 4>>, "eax">>
      /\ p17[19] = <<"cpuid", <<32768, 4>>, "ebx">>
      /\ p17[20] = <<"cpuid", <<32768, 4>>, "ecx">>
      /\ p17[21] = <<"cpuid", <<32768, 4>>, "edx">> /\ p17[22] = W(10)
  <2>1. Anys(p15) /\ Anys(p16)
    BY <1>17, <1>10
  <2>2. /\ Anys(p15 \o p16) /\ Len(p15 \o p16) = Len(p15) + Len(p16)
        /\ \A k \in 1 .. Len(p15) : (p15 \o p16)[k] = p15[k]
        /\ \A k \in 1 .. Len(p16) : (p15 \o p16)[Len(p15) + k] = p16[k]
    BY <2>1, Joining
  <2>3. /\ Anys(p17) /\ Len(p17) = Len(p15) + Len(p16)
        /\ \A k \in 1 .. Len(p15) : p17[k] = p15[k]
        /\ \A k \in 1 .. Len(p16) : p17[Len(p15) + k] = p16[k]
    BY <2>2 DEF p17
  <2>4. Len(p15) = 21 /\ Len(p16) = 1
    BY <1>17, <1>10
  <2>5. /\ Len(p17) = 22 /\ p17[1] = p15[1] /\ p17[2] = p15[2] /\ p17[3] = p15[3]
        /\ p17[4] = p15[4] /\ p17[5] = p15[5] /\ p17[6] = p15[6] /\ p17[7] = p15[7]
        /\ p17[8] = p15[8] /\ p17[9] = p15[9] /\ p17[10] = p15[10] /\ p17[11] = p15[11]
        /\ p17[12] = p15[12] /\ p17[13] = p15[13] /\ p17[14] = p15[14] /\ p17[15] = p15[15]
        /\ p17[16] = p15[16] /\ p17[17] = p15[17] /\ p17[18] = p15[18] /\ p17[19] = p15[19]
        /\ p17[20] = p15[20] /\ p17[21] = p15[21] /\ p17[22] = p16[1]
    BY <2>3, <2>4
  <2> QED  BY <1>17, <1>10, <2>3, <2>5
<1> QED  BY <1>1, <1>18

Cpuid5Code ==
  /\ Len(code) = 38
  /\ code[1] = <<"push", W(10), 0>> /\ code[2] = <<"li", <<32768, 4>>, "esi">>
  /\ code[3] = <<"mov", "esi", "eax">> /\ code[4] = <<"cpuid", 0, 0>>
  /\ code[5] = <<"pushr", "edx", 0>> /\ code[6] = <<"pushr", "ecx", 0>>
  /\ code[7] = <<"pushr", "ebx", 0>> /\ code[8] = <<"pushr", "eax", 0>>
  /\ code[9] = <<"dec", "esi", 0>> /\ code[10] = <<"jg1", "esi", -7>>
  /\ code[11] = <<"li", <<8250, 20490>>, "edi">> /\ code[12] = <<"pushr", "edi", 0>>
  /\ code[13] = <<"xor", "eax", 0>> /\ code[14] = <<"cpuid", 0, 0>>
  /\ code[15] = <<"pushr", "ecx", 0>> /\ code[16] = <<"pushr", "edx", 0>>
  /\ code[17] = <<"pushr", "ebx", 0>> /\ code[18] = <<"li16", 19722, "edi">>
  /\ code[19] = <<"pushr", "edi", 0>> /\ code[20] = <<"mov", "esi", "eax">>
  /\ code[21] = <<"shr", "eax", 0>> /\ code[22] = <<"cpuid", 0, 0>>
  /\ code[23] = <<"pushr", "edx", 0>> /\ code[24] = <<"pushr", "ecx", 0>>
  /\ code[25] = <<"pushr", "ebx", 0>> /\ code[26] = <<"li16", 22088, "edi">>
  /\ code[27] = <<"pushr", "edi", 0>> /\ code[28] = <<"sp", "ecx", 0>>
  /\ code[29] = <<"push", W(4), 0>> /\ code[30] = <<"pop", "eax", 0>>
  /\ code[31] = <<"push", W(1), 0>> /\ code[32] = <<"pop", "ebx", 0>>
  /\ code[33] = <<"push", W(85), 0>> /\ code[34] = <<"pop", "edx", 0>> /\ code[35] = SYSCALL
  /\ code[36] = <<"xchg", "ebx", "eax">> /\ code[37] = <<"xor", "ebx", 0>> /\ code[38] = SYSCALL
LEMMA Cpuid5Is ==
  ASSUME code = cpuid5
  PROVE  Cpuid5Code
<1> DEFINE p1 == <<<<"push", W(10), 0>>, <<"li", <<32768, 4>>, "esi">>,
                   <<"mov", "esi", "eax">>, <<"cpuid", 0, 0>>>>
<1> DEFINE p2 == pushes(<<"edx", "ecx", "ebx", "eax">>)
<1> DEFINE p3 == p1 \o p2
<1> DEFINE p4 == <<<<"dec", "esi", 0>>, <<"jg1", "esi", -7>>,
                   <<"li", <<8250, 20490>>, "edi">>, <<"pushr", "edi", 0>>,
                   <<"xor", "eax", 0>>, <<"cpuid", 0, 0>>>>
<1> DEFINE p5 == p3 \o p4
<1> DEFINE p6 == pushes(<<"ecx", "edx", "ebx">>)
<1> DEFINE p7 == p5 \o p6
<1> DEFINE p8 == <<<<"li16", 19722, "edi">>, <<"pushr", "edi", 0>>, <<"mov", "esi", "eax">>,
                   <<"shr", "eax", 0>>, <<"cpuid", 0, 0>>>>
<1> DEFINE p9 == p7 \o p8
<1> DEFINE p10 == pushes(<<"edx", "ecx", "ebx">>)
<1> DEFINE p11 == p9 \o p10
<1> DEFINE p12 == <<<<"li16", 22088, "edi">>, <<"pushr", "edi", 0>>, <<"sp", "ecx", 0>>>>
<1> DEFINE p13 == p11 \o p12
<1> DEFINE p14 == Load(4, "eax")
<1> DEFINE p15 == p13 \o p14
<1> DEFINE p16 == Load(1, "ebx")
<1> DEFINE p17 == p15 \o p16
<1> DEFINE p18 == Load(85, "edx")
<1> DEFINE p19 == p17 \o p18
<1> DEFINE p20 == leave0
<1> DEFINE p21 == p19 \o p20
<1>1. code = p21
  BY DEF cpuid5, push
<1>2. /\ Anys(p1) /\ Len(p1) = 4 /\ p1[1] = <<"push", W(10), 0>>
      /\ p1[2] = <<"li", <<32768, 4>>, "esi">> /\ p1[3] = <<"mov", "esi", "eax">>
      /\ p1[4] = <<"cpuid", 0, 0>>
  BY Literals
<1>3. /\ Anys(p2) /\ Len(p2) = 4 /\ p2[1] = <<"pushr", "edx", 0>>
      /\ p2[2] = <<"pushr", "ecx", 0>> /\ p2[3] = <<"pushr", "ebx", 0>>
      /\ p2[4] = <<"pushr", "eax", 0>>
  BY Pushes4
<1>4. /\ Anys(p4) /\ Len(p4) = 6 /\ p4[1] = <<"dec", "esi", 0>> /\ p4[2] = <<"jg1", "esi", -7>>
      /\ p4[3] = <<"li", <<8250, 20490>>, "edi">> /\ p4[4] = <<"pushr", "edi", 0>>
      /\ p4[5] = <<"xor", "eax", 0>> /\ p4[6] = <<"cpuid", 0, 0>>
  BY MoreLiterals
<1>5. /\ Anys(p6) /\ Len(p6) = 3 /\ p6[1] = <<"pushr", "ecx", 0>>
      /\ p6[2] = <<"pushr", "edx", 0>> /\ p6[3] = <<"pushr", "ebx", 0>>
  BY Pushes3
<1>6. /\ Anys(p8) /\ Len(p8) = 5 /\ p8[1] = <<"li16", 19722, "edi">>
      /\ p8[2] = <<"pushr", "edi", 0>> /\ p8[3] = <<"mov", "esi", "eax">>
      /\ p8[4] = <<"shr", "eax", 0>> /\ p8[5] = <<"cpuid", 0, 0>>
  BY MoreLiterals
<1>7. /\ Anys(p10) /\ Len(p10) = 3 /\ p10[1] = <<"pushr", "edx", 0>>
      /\ p10[2] = <<"pushr", "ecx", 0>> /\ p10[3] = <<"pushr", "ebx", 0>>
  BY Pushes3
<1>8. /\ Anys(p12) /\ Len(p12) = 3 /\ p12[1] = <<"li16", 22088, "edi">>
      /\ p12[2] = <<"pushr", "edi", 0>> /\ p12[3] = <<"sp", "ecx", 0>>
  BY Literals
<1>9. /\ Anys(p14) /\ Len(p14) = 2 /\ p14[1] = <<"push", W(4), 0>>
      /\ p14[2] = <<"pop", "eax", 0>>
  BY Literals DEF Load, push, pop
<1>10. /\ Anys(p16) /\ Len(p16) = 2 /\ p16[1] = <<"push", W(1), 0>>
      /\ p16[2] = <<"pop", "ebx", 0>>
  BY Literals DEF Load, push, pop
<1>11. /\ Anys(p18) /\ Len(p18) = 2 /\ p18[1] = <<"push", W(85), 0>>
      /\ p18[2] = <<"pop", "edx", 0>>
  BY Literals DEF Load, push, pop
<1>12. /\ Anys(p20) /\ Len(p20) = 4 /\ p20[1] = SYSCALL /\ p20[2] = <<"xchg", "ebx", "eax">>
      /\ p20[3] = <<"xor", "ebx", 0>> /\ p20[4] = SYSCALL
  BY Literals DEF leave0
<1> HIDE DEF p1, p2, p3, p4, p5, p6, p7, p8, p9, p10, p11, p12, p13, p14, p15, p16, p17, p18, p19, p20, p21
<1>13. /\ Anys(p3) /\ Len(p3) = 8 /\ p3[1] = <<"push", W(10), 0>>
      /\ p3[2] = <<"li", <<32768, 4>>, "esi">> /\ p3[3] = <<"mov", "esi", "eax">>
      /\ p3[4] = <<"cpuid", 0, 0>> /\ p3[5] = <<"pushr", "edx", 0>>
      /\ p3[6] = <<"pushr", "ecx", 0>> /\ p3[7] = <<"pushr", "ebx", 0>>
      /\ p3[8] = <<"pushr", "eax", 0>>
  <2>1. Anys(p1) /\ Anys(p2)
    BY <1>2, <1>3
  <2>2. /\ Anys(p1 \o p2) /\ Len(p1 \o p2) = Len(p1) + Len(p2)
        /\ \A k \in 1 .. Len(p1) : (p1 \o p2)[k] = p1[k]
        /\ \A k \in 1 .. Len(p2) : (p1 \o p2)[Len(p1) + k] = p2[k]
    BY <2>1, Joining
  <2>3. /\ Anys(p3) /\ Len(p3) = Len(p1) + Len(p2)
        /\ \A k \in 1 .. Len(p1) : p3[k] = p1[k]
        /\ \A k \in 1 .. Len(p2) : p3[Len(p1) + k] = p2[k]
    BY <2>2 DEF p3
  <2>4. Len(p1) = 4 /\ Len(p2) = 4
    BY <1>2, <1>3
  <2>5. /\ Len(p3) = 8 /\ p3[1] = p1[1] /\ p3[2] = p1[2] /\ p3[3] = p1[3] /\ p3[4] = p1[4]
        /\ p3[5] = p2[1] /\ p3[6] = p2[2] /\ p3[7] = p2[3] /\ p3[8] = p2[4]
    BY <2>3, <2>4
  <2> QED  BY <1>2, <1>3, <2>3, <2>5
<1>14. /\ Anys(p5) /\ Len(p5) = 14 /\ p5[1] = <<"push", W(10), 0>>
      /\ p5[2] = <<"li", <<32768, 4>>, "esi">> /\ p5[3] = <<"mov", "esi", "eax">>
      /\ p5[4] = <<"cpuid", 0, 0>> /\ p5[5] = <<"pushr", "edx", 0>>
      /\ p5[6] = <<"pushr", "ecx", 0>> /\ p5[7] = <<"pushr", "ebx", 0>>
      /\ p5[8] = <<"pushr", "eax", 0>> /\ p5[9] = <<"dec", "esi", 0>>
      /\ p5[10] = <<"jg1", "esi", -7>> /\ p5[11] = <<"li", <<8250, 20490>>, "edi">>
      /\ p5[12] = <<"pushr", "edi", 0>> /\ p5[13] = <<"xor", "eax", 0>>
      /\ p5[14] = <<"cpuid", 0, 0>>
  <2>1. Anys(p3) /\ Anys(p4)
    BY <1>13, <1>4
  <2>2. /\ Anys(p3 \o p4) /\ Len(p3 \o p4) = Len(p3) + Len(p4)
        /\ \A k \in 1 .. Len(p3) : (p3 \o p4)[k] = p3[k]
        /\ \A k \in 1 .. Len(p4) : (p3 \o p4)[Len(p3) + k] = p4[k]
    BY <2>1, Joining
  <2>3. /\ Anys(p5) /\ Len(p5) = Len(p3) + Len(p4)
        /\ \A k \in 1 .. Len(p3) : p5[k] = p3[k]
        /\ \A k \in 1 .. Len(p4) : p5[Len(p3) + k] = p4[k]
    BY <2>2 DEF p5
  <2>4. Len(p3) = 8 /\ Len(p4) = 6
    BY <1>13, <1>4
  <2>5. /\ Len(p5) = 14 /\ p5[1] = p3[1] /\ p5[2] = p3[2] /\ p5[3] = p3[3] /\ p5[4] = p3[4]
        /\ p5[5] = p3[5] /\ p5[6] = p3[6] /\ p5[7] = p3[7] /\ p5[8] = p3[8] /\ p5[9] = p4[1]
        /\ p5[10] = p4[2] /\ p5[11] = p4[3] /\ p5[12] = p4[4] /\ p5[13] = p4[5]
        /\ p5[14] = p4[6]
    BY <2>3, <2>4
  <2> QED  BY <1>13, <1>4, <2>3, <2>5
<1>15. /\ Anys(p7) /\ Len(p7) = 17 /\ p7[1] = <<"push", W(10), 0>>
      /\ p7[2] = <<"li", <<32768, 4>>, "esi">> /\ p7[3] = <<"mov", "esi", "eax">>
      /\ p7[4] = <<"cpuid", 0, 0>> /\ p7[5] = <<"pushr", "edx", 0>>
      /\ p7[6] = <<"pushr", "ecx", 0>> /\ p7[7] = <<"pushr", "ebx", 0>>
      /\ p7[8] = <<"pushr", "eax", 0>> /\ p7[9] = <<"dec", "esi", 0>>
      /\ p7[10] = <<"jg1", "esi", -7>> /\ p7[11] = <<"li", <<8250, 20490>>, "edi">>
      /\ p7[12] = <<"pushr", "edi", 0>> /\ p7[13] = <<"xor", "eax", 0>>
      /\ p7[14] = <<"cpuid", 0, 0>> /\ p7[15] = <<"pushr", "ecx", 0>>
      /\ p7[16] = <<"pushr", "edx", 0>> /\ p7[17] = <<"pushr", "ebx", 0>>
  <2>1. Anys(p5) /\ Anys(p6)
    BY <1>14, <1>5
  <2>2. /\ Anys(p5 \o p6) /\ Len(p5 \o p6) = Len(p5) + Len(p6)
        /\ \A k \in 1 .. Len(p5) : (p5 \o p6)[k] = p5[k]
        /\ \A k \in 1 .. Len(p6) : (p5 \o p6)[Len(p5) + k] = p6[k]
    BY <2>1, Joining
  <2>3. /\ Anys(p7) /\ Len(p7) = Len(p5) + Len(p6)
        /\ \A k \in 1 .. Len(p5) : p7[k] = p5[k]
        /\ \A k \in 1 .. Len(p6) : p7[Len(p5) + k] = p6[k]
    BY <2>2 DEF p7
  <2>4. Len(p5) = 14 /\ Len(p6) = 3
    BY <1>14, <1>5
  <2>5. /\ Len(p7) = 17 /\ p7[1] = p5[1] /\ p7[2] = p5[2] /\ p7[3] = p5[3] /\ p7[4] = p5[4]
        /\ p7[5] = p5[5] /\ p7[6] = p5[6] /\ p7[7] = p5[7] /\ p7[8] = p5[8] /\ p7[9] = p5[9]
        /\ p7[10] = p5[10] /\ p7[11] = p5[11] /\ p7[12] = p5[12] /\ p7[13] = p5[13]
        /\ p7[14] = p5[14] /\ p7[15] = p6[1] /\ p7[16] = p6[2] /\ p7[17] = p6[3]
    BY <2>3, <2>4
  <2> QED  BY <1>14, <1>5, <2>3, <2>5
<1>16. /\ Anys(p9) /\ Len(p9) = 22 /\ p9[1] = <<"push", W(10), 0>>
      /\ p9[2] = <<"li", <<32768, 4>>, "esi">> /\ p9[3] = <<"mov", "esi", "eax">>
      /\ p9[4] = <<"cpuid", 0, 0>> /\ p9[5] = <<"pushr", "edx", 0>>
      /\ p9[6] = <<"pushr", "ecx", 0>> /\ p9[7] = <<"pushr", "ebx", 0>>
      /\ p9[8] = <<"pushr", "eax", 0>> /\ p9[9] = <<"dec", "esi", 0>>
      /\ p9[10] = <<"jg1", "esi", -7>> /\ p9[11] = <<"li", <<8250, 20490>>, "edi">>
      /\ p9[12] = <<"pushr", "edi", 0>> /\ p9[13] = <<"xor", "eax", 0>>
      /\ p9[14] = <<"cpuid", 0, 0>> /\ p9[15] = <<"pushr", "ecx", 0>>
      /\ p9[16] = <<"pushr", "edx", 0>> /\ p9[17] = <<"pushr", "ebx", 0>>
      /\ p9[18] = <<"li16", 19722, "edi">> /\ p9[19] = <<"pushr", "edi", 0>>
      /\ p9[20] = <<"mov", "esi", "eax">> /\ p9[21] = <<"shr", "eax", 0>>
      /\ p9[22] = <<"cpuid", 0, 0>>
  <2>1. Anys(p7) /\ Anys(p8)
    BY <1>15, <1>6
  <2>2. /\ Anys(p7 \o p8) /\ Len(p7 \o p8) = Len(p7) + Len(p8)
        /\ \A k \in 1 .. Len(p7) : (p7 \o p8)[k] = p7[k]
        /\ \A k \in 1 .. Len(p8) : (p7 \o p8)[Len(p7) + k] = p8[k]
    BY <2>1, Joining
  <2>3. /\ Anys(p9) /\ Len(p9) = Len(p7) + Len(p8)
        /\ \A k \in 1 .. Len(p7) : p9[k] = p7[k]
        /\ \A k \in 1 .. Len(p8) : p9[Len(p7) + k] = p8[k]
    BY <2>2 DEF p9
  <2>4. Len(p7) = 17 /\ Len(p8) = 5
    BY <1>15, <1>6
  <2>5. /\ Len(p9) = 22 /\ p9[1] = p7[1] /\ p9[2] = p7[2] /\ p9[3] = p7[3] /\ p9[4] = p7[4]
        /\ p9[5] = p7[5] /\ p9[6] = p7[6] /\ p9[7] = p7[7] /\ p9[8] = p7[8] /\ p9[9] = p7[9]
        /\ p9[10] = p7[10] /\ p9[11] = p7[11] /\ p9[12] = p7[12] /\ p9[13] = p7[13]
        /\ p9[14] = p7[14] /\ p9[15] = p7[15] /\ p9[16] = p7[16] /\ p9[17] = p7[17]
        /\ p9[18] = p8[1] /\ p9[19] = p8[2] /\ p9[20] = p8[3] /\ p9[21] = p8[4]
        /\ p9[22] = p8[5]
    BY <2>3, <2>4
  <2> QED  BY <1>15, <1>6, <2>3, <2>5
<1>17. /\ Anys(p11) /\ Len(p11) = 25 /\ p11[1] = <<"push", W(10), 0>>
      /\ p11[2] = <<"li", <<32768, 4>>, "esi">> /\ p11[3] = <<"mov", "esi", "eax">>
      /\ p11[4] = <<"cpuid", 0, 0>> /\ p11[5] = <<"pushr", "edx", 0>>
      /\ p11[6] = <<"pushr", "ecx", 0>> /\ p11[7] = <<"pushr", "ebx", 0>>
      /\ p11[8] = <<"pushr", "eax", 0>> /\ p11[9] = <<"dec", "esi", 0>>
      /\ p11[10] = <<"jg1", "esi", -7>> /\ p11[11] = <<"li", <<8250, 20490>>, "edi">>
      /\ p11[12] = <<"pushr", "edi", 0>> /\ p11[13] = <<"xor", "eax", 0>>
      /\ p11[14] = <<"cpuid", 0, 0>> /\ p11[15] = <<"pushr", "ecx", 0>>
      /\ p11[16] = <<"pushr", "edx", 0>> /\ p11[17] = <<"pushr", "ebx", 0>>
      /\ p11[18] = <<"li16", 19722, "edi">> /\ p11[19] = <<"pushr", "edi", 0>>
      /\ p11[20] = <<"mov", "esi", "eax">> /\ p11[21] = <<"shr", "eax", 0>>
      /\ p11[22] = <<"cpuid", 0, 0>> /\ p11[23] = <<"pushr", "edx", 0>>
      /\ p11[24] = <<"pushr", "ecx", 0>> /\ p11[25] = <<"pushr", "ebx", 0>>
  <2>1. Anys(p9) /\ Anys(p10)
    BY <1>16, <1>7
  <2>2. /\ Anys(p9 \o p10) /\ Len(p9 \o p10) = Len(p9) + Len(p10)
        /\ \A k \in 1 .. Len(p9) : (p9 \o p10)[k] = p9[k]
        /\ \A k \in 1 .. Len(p10) : (p9 \o p10)[Len(p9) + k] = p10[k]
    BY <2>1, Joining
  <2>3. /\ Anys(p11) /\ Len(p11) = Len(p9) + Len(p10)
        /\ \A k \in 1 .. Len(p9) : p11[k] = p9[k]
        /\ \A k \in 1 .. Len(p10) : p11[Len(p9) + k] = p10[k]
    BY <2>2 DEF p11
  <2>4. Len(p9) = 22 /\ Len(p10) = 3
    BY <1>16, <1>7
  <2>5. /\ Len(p11) = 25 /\ p11[1] = p9[1] /\ p11[2] = p9[2] /\ p11[3] = p9[3]
        /\ p11[4] = p9[4] /\ p11[5] = p9[5] /\ p11[6] = p9[6] /\ p11[7] = p9[7]
        /\ p11[8] = p9[8] /\ p11[9] = p9[9] /\ p11[10] = p9[10] /\ p11[11] = p9[11]
        /\ p11[12] = p9[12] /\ p11[13] = p9[13] /\ p11[14] = p9[14] /\ p11[15] = p9[15]
        /\ p11[16] = p9[16] /\ p11[17] = p9[17] /\ p11[18] = p9[18] /\ p11[19] = p9[19]
        /\ p11[20] = p9[20] /\ p11[21] = p9[21] /\ p11[22] = p9[22] /\ p11[23] = p10[1]
        /\ p11[24] = p10[2] /\ p11[25] = p10[3]
    BY <2>3, <2>4
  <2> QED  BY <1>16, <1>7, <2>3, <2>5
<1>18. /\ Anys(p13) /\ Len(p13) = 28 /\ p13[1] = <<"push", W(10), 0>>
      /\ p13[2] = <<"li", <<32768, 4>>, "esi">> /\ p13[3] = <<"mov", "esi", "eax">>
      /\ p13[4] = <<"cpuid", 0, 0>> /\ p13[5] = <<"pushr", "edx", 0>>
      /\ p13[6] = <<"pushr", "ecx", 0>> /\ p13[7] = <<"pushr", "ebx", 0>>
      /\ p13[8] = <<"pushr", "eax", 0>> /\ p13[9] = <<"dec", "esi", 0>>
      /\ p13[10] = <<"jg1", "esi", -7>> /\ p13[11] = <<"li", <<8250, 20490>>, "edi">>
      /\ p13[12] = <<"pushr", "edi", 0>> /\ p13[13] = <<"xor", "eax", 0>>
      /\ p13[14] = <<"cpuid", 0, 0>> /\ p13[15] = <<"pushr", "ecx", 0>>
      /\ p13[16] = <<"pushr", "edx", 0>> /\ p13[17] = <<"pushr", "ebx", 0>>
      /\ p13[18] = <<"li16", 19722, "edi">> /\ p13[19] = <<"pushr", "edi", 0>>
      /\ p13[20] = <<"mov", "esi", "eax">> /\ p13[21] = <<"shr", "eax", 0>>
      /\ p13[22] = <<"cpuid", 0, 0>> /\ p13[23] = <<"pushr", "edx", 0>>
      /\ p13[24] = <<"pushr", "ecx", 0>> /\ p13[25] = <<"pushr", "ebx", 0>>
      /\ p13[26] = <<"li16", 22088, "edi">> /\ p13[27] = <<"pushr", "edi", 0>>
      /\ p13[28] = <<"sp", "ecx", 0>>
  <2>1. Anys(p11) /\ Anys(p12)
    BY <1>17, <1>8
  <2>2. /\ Anys(p11 \o p12) /\ Len(p11 \o p12) = Len(p11) + Len(p12)
        /\ \A k \in 1 .. Len(p11) : (p11 \o p12)[k] = p11[k]
        /\ \A k \in 1 .. Len(p12) : (p11 \o p12)[Len(p11) + k] = p12[k]
    BY <2>1, Joining
  <2>3. /\ Anys(p13) /\ Len(p13) = Len(p11) + Len(p12)
        /\ \A k \in 1 .. Len(p11) : p13[k] = p11[k]
        /\ \A k \in 1 .. Len(p12) : p13[Len(p11) + k] = p12[k]
    BY <2>2 DEF p13
  <2>4. Len(p11) = 25 /\ Len(p12) = 3
    BY <1>17, <1>8
  <2>5. /\ Len(p13) = 28 /\ p13[1] = p11[1] /\ p13[2] = p11[2] /\ p13[3] = p11[3]
        /\ p13[4] = p11[4] /\ p13[5] = p11[5] /\ p13[6] = p11[6] /\ p13[7] = p11[7]
        /\ p13[8] = p11[8] /\ p13[9] = p11[9] /\ p13[10] = p11[10] /\ p13[11] = p11[11]
        /\ p13[12] = p11[12] /\ p13[13] = p11[13] /\ p13[14] = p11[14] /\ p13[15] = p11[15]
        /\ p13[16] = p11[16] /\ p13[17] = p11[17] /\ p13[18] = p11[18] /\ p13[19] = p11[19]
        /\ p13[20] = p11[20] /\ p13[21] = p11[21] /\ p13[22] = p11[22] /\ p13[23] = p11[23]
        /\ p13[24] = p11[24] /\ p13[25] = p11[25] /\ p13[26] = p12[1] /\ p13[27] = p12[2]
        /\ p13[28] = p12[3]
    BY <2>3, <2>4
  <2> QED  BY <1>17, <1>8, <2>3, <2>5
<1>19. /\ Anys(p15) /\ Len(p15) = 30 /\ p15[1] = <<"push", W(10), 0>>
      /\ p15[2] = <<"li", <<32768, 4>>, "esi">> /\ p15[3] = <<"mov", "esi", "eax">>
      /\ p15[4] = <<"cpuid", 0, 0>> /\ p15[5] = <<"pushr", "edx", 0>>
      /\ p15[6] = <<"pushr", "ecx", 0>> /\ p15[7] = <<"pushr", "ebx", 0>>
      /\ p15[8] = <<"pushr", "eax", 0>> /\ p15[9] = <<"dec", "esi", 0>>
      /\ p15[10] = <<"jg1", "esi", -7>> /\ p15[11] = <<"li", <<8250, 20490>>, "edi">>
      /\ p15[12] = <<"pushr", "edi", 0>> /\ p15[13] = <<"xor", "eax", 0>>
      /\ p15[14] = <<"cpuid", 0, 0>> /\ p15[15] = <<"pushr", "ecx", 0>>
      /\ p15[16] = <<"pushr", "edx", 0>> /\ p15[17] = <<"pushr", "ebx", 0>>
      /\ p15[18] = <<"li16", 19722, "edi">> /\ p15[19] = <<"pushr", "edi", 0>>
      /\ p15[20] = <<"mov", "esi", "eax">> /\ p15[21] = <<"shr", "eax", 0>>
      /\ p15[22] = <<"cpuid", 0, 0>> /\ p15[23] = <<"pushr", "edx", 0>>
      /\ p15[24] = <<"pushr", "ecx", 0>> /\ p15[25] = <<"pushr", "ebx", 0>>
      /\ p15[26] = <<"li16", 22088, "edi">> /\ p15[27] = <<"pushr", "edi", 0>>
      /\ p15[28] = <<"sp", "ecx", 0>> /\ p15[29] = <<"push", W(4), 0>>
      /\ p15[30] = <<"pop", "eax", 0>>
  <2>1. Anys(p13) /\ Anys(p14)
    BY <1>18, <1>9
  <2>2. /\ Anys(p13 \o p14) /\ Len(p13 \o p14) = Len(p13) + Len(p14)
        /\ \A k \in 1 .. Len(p13) : (p13 \o p14)[k] = p13[k]
        /\ \A k \in 1 .. Len(p14) : (p13 \o p14)[Len(p13) + k] = p14[k]
    BY <2>1, Joining
  <2>3. /\ Anys(p15) /\ Len(p15) = Len(p13) + Len(p14)
        /\ \A k \in 1 .. Len(p13) : p15[k] = p13[k]
        /\ \A k \in 1 .. Len(p14) : p15[Len(p13) + k] = p14[k]
    BY <2>2 DEF p15
  <2>4. Len(p13) = 28 /\ Len(p14) = 2
    BY <1>18, <1>9
  <2>5. /\ Len(p15) = 30 /\ p15[1] = p13[1] /\ p15[2] = p13[2] /\ p15[3] = p13[3]
        /\ p15[4] = p13[4] /\ p15[5] = p13[5] /\ p15[6] = p13[6] /\ p15[7] = p13[7]
        /\ p15[8] = p13[8] /\ p15[9] = p13[9] /\ p15[10] = p13[10] /\ p15[11] = p13[11]
        /\ p15[12] = p13[12] /\ p15[13] = p13[13] /\ p15[14] = p13[14] /\ p15[15] = p13[15]
        /\ p15[16] = p13[16] /\ p15[17] = p13[17] /\ p15[18] = p13[18] /\ p15[19] = p13[19]
        /\ p15[20] = p13[20] /\ p15[21] = p13[21] /\ p15[22] = p13[22] /\ p15[23] = p13[23]
        /\ p15[24] = p13[24] /\ p15[25] = p13[25] /\ p15[26] = p13[26] /\ p15[27] = p13[27]
        /\ p15[28] = p13[28] /\ p15[29] = p14[1] /\ p15[30] = p14[2]
    BY <2>3, <2>4
  <2> QED  BY <1>18, <1>9, <2>3, <2>5
<1>20. /\ Anys(p17) /\ Len(p17) = 32 /\ p17[1] = <<"push", W(10), 0>>
      /\ p17[2] = <<"li", <<32768, 4>>, "esi">> /\ p17[3] = <<"mov", "esi", "eax">>
      /\ p17[4] = <<"cpuid", 0, 0>> /\ p17[5] = <<"pushr", "edx", 0>>
      /\ p17[6] = <<"pushr", "ecx", 0>> /\ p17[7] = <<"pushr", "ebx", 0>>
      /\ p17[8] = <<"pushr", "eax", 0>> /\ p17[9] = <<"dec", "esi", 0>>
      /\ p17[10] = <<"jg1", "esi", -7>> /\ p17[11] = <<"li", <<8250, 20490>>, "edi">>
      /\ p17[12] = <<"pushr", "edi", 0>> /\ p17[13] = <<"xor", "eax", 0>>
      /\ p17[14] = <<"cpuid", 0, 0>> /\ p17[15] = <<"pushr", "ecx", 0>>
      /\ p17[16] = <<"pushr", "edx", 0>> /\ p17[17] = <<"pushr", "ebx", 0>>
      /\ p17[18] = <<"li16", 19722, "edi">> /\ p17[19] = <<"pushr", "edi", 0>>
      /\ p17[20] = <<"mov", "esi", "eax">> /\ p17[21] = <<"shr", "eax", 0>>
      /\ p17[22] = <<"cpuid", 0, 0>> /\ p17[23] = <<"pushr", "edx", 0>>
      /\ p17[24] = <<"pushr", "ecx", 0>> /\ p17[25] = <<"pushr", "ebx", 0>>
      /\ p17[26] = <<"li16", 22088, "edi">> /\ p17[27] = <<"pushr", "edi", 0>>
      /\ p17[28] = <<"sp", "ecx", 0>> /\ p17[29] = <<"push", W(4), 0>>
      /\ p17[30] = <<"pop", "eax", 0>> /\ p17[31] = <<"push", W(1), 0>>
      /\ p17[32] = <<"pop", "ebx", 0>>
  <2>1. Anys(p15) /\ Anys(p16)
    BY <1>19, <1>10
  <2>2. /\ Anys(p15 \o p16) /\ Len(p15 \o p16) = Len(p15) + Len(p16)
        /\ \A k \in 1 .. Len(p15) : (p15 \o p16)[k] = p15[k]
        /\ \A k \in 1 .. Len(p16) : (p15 \o p16)[Len(p15) + k] = p16[k]
    BY <2>1, Joining
  <2>3. /\ Anys(p17) /\ Len(p17) = Len(p15) + Len(p16)
        /\ \A k \in 1 .. Len(p15) : p17[k] = p15[k]
        /\ \A k \in 1 .. Len(p16) : p17[Len(p15) + k] = p16[k]
    BY <2>2 DEF p17
  <2>4. Len(p15) = 30 /\ Len(p16) = 2
    BY <1>19, <1>10
  <2>5. /\ Len(p17) = 32 /\ p17[1] = p15[1] /\ p17[2] = p15[2] /\ p17[3] = p15[3]
        /\ p17[4] = p15[4] /\ p17[5] = p15[5] /\ p17[6] = p15[6] /\ p17[7] = p15[7]
        /\ p17[8] = p15[8] /\ p17[9] = p15[9] /\ p17[10] = p15[10] /\ p17[11] = p15[11]
        /\ p17[12] = p15[12] /\ p17[13] = p15[13] /\ p17[14] = p15[14] /\ p17[15] = p15[15]
        /\ p17[16] = p15[16] /\ p17[17] = p15[17] /\ p17[18] = p15[18] /\ p17[19] = p15[19]
        /\ p17[20] = p15[20] /\ p17[21] = p15[21] /\ p17[22] = p15[22] /\ p17[23] = p15[23]
        /\ p17[24] = p15[24] /\ p17[25] = p15[25] /\ p17[26] = p15[26] /\ p17[27] = p15[27]
        /\ p17[28] = p15[28] /\ p17[29] = p15[29] /\ p17[30] = p15[30] /\ p17[31] = p16[1]
        /\ p17[32] = p16[2]
    BY <2>3, <2>4
  <2> QED  BY <1>19, <1>10, <2>3, <2>5
<1>21. /\ Anys(p19) /\ Len(p19) = 34 /\ p19[1] = <<"push", W(10), 0>>
      /\ p19[2] = <<"li", <<32768, 4>>, "esi">> /\ p19[3] = <<"mov", "esi", "eax">>
      /\ p19[4] = <<"cpuid", 0, 0>> /\ p19[5] = <<"pushr", "edx", 0>>
      /\ p19[6] = <<"pushr", "ecx", 0>> /\ p19[7] = <<"pushr", "ebx", 0>>
      /\ p19[8] = <<"pushr", "eax", 0>> /\ p19[9] = <<"dec", "esi", 0>>
      /\ p19[10] = <<"jg1", "esi", -7>> /\ p19[11] = <<"li", <<8250, 20490>>, "edi">>
      /\ p19[12] = <<"pushr", "edi", 0>> /\ p19[13] = <<"xor", "eax", 0>>
      /\ p19[14] = <<"cpuid", 0, 0>> /\ p19[15] = <<"pushr", "ecx", 0>>
      /\ p19[16] = <<"pushr", "edx", 0>> /\ p19[17] = <<"pushr", "ebx", 0>>
      /\ p19[18] = <<"li16", 19722, "edi">> /\ p19[19] = <<"pushr", "edi", 0>>
      /\ p19[20] = <<"mov", "esi", "eax">> /\ p19[21] = <<"shr", "eax", 0>>
      /\ p19[22] = <<"cpuid", 0, 0>> /\ p19[23] = <<"pushr", "edx", 0>>
      /\ p19[24] = <<"pushr", "ecx", 0>> /\ p19[25] = <<"pushr", "ebx", 0>>
      /\ p19[26] = <<"li16", 22088, "edi">> /\ p19[27] = <<"pushr", "edi", 0>>
      /\ p19[28] = <<"sp", "ecx", 0>> /\ p19[29] = <<"push", W(4), 0>>
      /\ p19[30] = <<"pop", "eax", 0>> /\ p19[31] = <<"push", W(1), 0>>
      /\ p19[32] = <<"pop", "ebx", 0>> /\ p19[33] = <<"push", W(85), 0>>
      /\ p19[34] = <<"pop", "edx", 0>>
  <2>1. Anys(p17) /\ Anys(p18)
    BY <1>20, <1>11
  <2>2. /\ Anys(p17 \o p18) /\ Len(p17 \o p18) = Len(p17) + Len(p18)
        /\ \A k \in 1 .. Len(p17) : (p17 \o p18)[k] = p17[k]
        /\ \A k \in 1 .. Len(p18) : (p17 \o p18)[Len(p17) + k] = p18[k]
    BY <2>1, Joining
  <2>3. /\ Anys(p19) /\ Len(p19) = Len(p17) + Len(p18)
        /\ \A k \in 1 .. Len(p17) : p19[k] = p17[k]
        /\ \A k \in 1 .. Len(p18) : p19[Len(p17) + k] = p18[k]
    BY <2>2 DEF p19
  <2>4. Len(p17) = 32 /\ Len(p18) = 2
    BY <1>20, <1>11
  <2>5. /\ Len(p19) = 34 /\ p19[1] = p17[1] /\ p19[2] = p17[2] /\ p19[3] = p17[3]
        /\ p19[4] = p17[4] /\ p19[5] = p17[5] /\ p19[6] = p17[6] /\ p19[7] = p17[7]
        /\ p19[8] = p17[8] /\ p19[9] = p17[9] /\ p19[10] = p17[10] /\ p19[11] = p17[11]
        /\ p19[12] = p17[12] /\ p19[13] = p17[13] /\ p19[14] = p17[14] /\ p19[15] = p17[15]
        /\ p19[16] = p17[16] /\ p19[17] = p17[17] /\ p19[18] = p17[18] /\ p19[19] = p17[19]
        /\ p19[20] = p17[20] /\ p19[21] = p17[21] /\ p19[22] = p17[22] /\ p19[23] = p17[23]
        /\ p19[24] = p17[24] /\ p19[25] = p17[25] /\ p19[26] = p17[26] /\ p19[27] = p17[27]
        /\ p19[28] = p17[28] /\ p19[29] = p17[29] /\ p19[30] = p17[30] /\ p19[31] = p17[31]
        /\ p19[32] = p17[32] /\ p19[33] = p18[1] /\ p19[34] = p18[2]
    BY <2>3, <2>4
  <2> QED  BY <1>20, <1>11, <2>3, <2>5
<1>22. /\ Anys(p21) /\ Len(p21) = 38 /\ p21[1] = <<"push", W(10), 0>>
      /\ p21[2] = <<"li", <<32768, 4>>, "esi">> /\ p21[3] = <<"mov", "esi", "eax">>
      /\ p21[4] = <<"cpuid", 0, 0>> /\ p21[5] = <<"pushr", "edx", 0>>
      /\ p21[6] = <<"pushr", "ecx", 0>> /\ p21[7] = <<"pushr", "ebx", 0>>
      /\ p21[8] = <<"pushr", "eax", 0>> /\ p21[9] = <<"dec", "esi", 0>>
      /\ p21[10] = <<"jg1", "esi", -7>> /\ p21[11] = <<"li", <<8250, 20490>>, "edi">>
      /\ p21[12] = <<"pushr", "edi", 0>> /\ p21[13] = <<"xor", "eax", 0>>
      /\ p21[14] = <<"cpuid", 0, 0>> /\ p21[15] = <<"pushr", "ecx", 0>>
      /\ p21[16] = <<"pushr", "edx", 0>> /\ p21[17] = <<"pushr", "ebx", 0>>
      /\ p21[18] = <<"li16", 19722, "edi">> /\ p21[19] = <<"pushr", "edi", 0>>
      /\ p21[20] = <<"mov", "esi", "eax">> /\ p21[21] = <<"shr", "eax", 0>>
      /\ p21[22] = <<"cpuid", 0, 0>> /\ p21[23] = <<"pushr", "edx", 0>>
      /\ p21[24] = <<"pushr", "ecx", 0>> /\ p21[25] = <<"pushr", "ebx", 0>>
      /\ p21[26] = <<"li16", 22088, "edi">> /\ p21[27] = <<"pushr", "edi", 0>>
      /\ p21[28] = <<"sp", "ecx", 0>> /\ p21[29] = <<"push", W(4), 0>>
      /\ p21[30] = <<"pop", "eax", 0>> /\ p21[31] = <<"push", W(1), 0>>
      /\ p21[32] = <<"pop", "ebx", 0>> /\ p21[33] = <<"push", W(85), 0>>
      /\ p21[34] = <<"pop", "edx", 0>> /\ p21[35] = SYSCALL
      /\ p21[36] = <<"xchg", "ebx", "eax">> /\ p21[37] = <<"xor", "ebx", 0>>
      /\ p21[38] = SYSCALL
  <2>1. Anys(p19) /\ Anys(p20)
    BY <1>21, <1>12
  <2>2. /\ Anys(p19 \o p20) /\ Len(p19 \o p20) = Len(p19) + Len(p20)
        /\ \A k \in 1 .. Len(p19) : (p19 \o p20)[k] = p19[k]
        /\ \A k \in 1 .. Len(p20) : (p19 \o p20)[Len(p19) + k] = p20[k]
    BY <2>1, Joining
  <2>3. /\ Anys(p21) /\ Len(p21) = Len(p19) + Len(p20)
        /\ \A k \in 1 .. Len(p19) : p21[k] = p19[k]
        /\ \A k \in 1 .. Len(p20) : p21[Len(p19) + k] = p20[k]
    BY <2>2 DEF p21
  <2>4. Len(p19) = 34 /\ Len(p20) = 4
    BY <1>21, <1>12
  <2>5. /\ Len(p21) = 38 /\ p21[1] = p19[1] /\ p21[2] = p19[2] /\ p21[3] = p19[3]
        /\ p21[4] = p19[4] /\ p21[5] = p19[5] /\ p21[6] = p19[6] /\ p21[7] = p19[7]
        /\ p21[8] = p19[8] /\ p21[9] = p19[9] /\ p21[10] = p19[10] /\ p21[11] = p19[11]
        /\ p21[12] = p19[12] /\ p21[13] = p19[13] /\ p21[14] = p19[14] /\ p21[15] = p19[15]
        /\ p21[16] = p19[16] /\ p21[17] = p19[17] /\ p21[18] = p19[18] /\ p21[19] = p19[19]
        /\ p21[20] = p19[20] /\ p21[21] = p19[21] /\ p21[22] = p19[22] /\ p21[23] = p19[23]
        /\ p21[24] = p19[24] /\ p21[25] = p19[25] /\ p21[26] = p19[26] /\ p21[27] = p19[27]
        /\ p21[28] = p19[28] /\ p21[29] = p19[29] /\ p21[30] = p19[30] /\ p21[31] = p19[31]
        /\ p21[32] = p19[32] /\ p21[33] = p19[33] /\ p21[34] = p19[34] /\ p21[35] = p20[1]
        /\ p21[36] = p20[2] /\ p21[37] = p20[3] /\ p21[38] = p20[4]
    BY <2>3, <2>4
  <2> QED  BY <1>21, <1>12, <2>3, <2>5
<1> QED  BY <1>1, <1>22 DEF Cpuid5Code

\* The words down to the n-th are those that Banner ends with.
Built(n)   == \A q \in 2 .. n : stack[q] = Banner[24 - q]
Stacked(n) == Len(stack) = n /\ Built(n)

LEMMA BuiltOn ==
  ASSUME NEW n \in Nat, Built(n), \A j \in 1 .. n : stack'[j] = stack[j]
  PROVE  Built(n)'
BY DEF Built

LEMMA Keeping ==
  ASSUME NEW n \in Nat, Stacked(n), stack' = stack
  PROVE  Stacked(n)'
BY DEF Built, Stacked

LEMMA Stacking ==
  ASSUME NEW n \in Nat, NEW m, m = n + 1, Stacked(n), Len(stack') = Len(stack) + 1,
         stack'[Len(stack) + 1] = Banner[23 - n],
         \A j \in 1 .. Len(stack) : stack'[j] = stack[j]
  PROVE  Stacked(m)'
<1>1. Len(stack) = n /\ Built(n) /\ Len(stack') = m /\ stack'[m] = Banner[23 - n] /\ m \in Nat
  BY DEF Stacked
<1>2. ASSUME NEW q \in 2 .. m  PROVE stack'[q] = Banner[24 - q]
  <2>1. CASE q = m
    <3>1. 24 - m = 23 - n
      OBVIOUS
    <3> QED  BY <1>1, <2>1, <3>1
  <2>2. CASE q # m
    <3>1. q \in 2 .. n /\ q \in 1 .. n
      BY <1>1, <2>2
    <3> QED  BY <1>1, <3>1 DEF Built
  <2> QED  BY <2>1, <2>2
<1> QED  BY <1>1, <1>2 DEF Stacked, Built

\* A round of the loop: leaf <<32768, k>>, on b words.
Round(k, b) ==
  /\ regs["esi"] = <<32768, k>>
  /\ pc \in {3, 4, 5} => Stacked(b)
  /\ pc = 4 => regs["eax"] = <<32768, k>>
  /\ pc \in {5, 6, 7, 8} => \A r \in {"eax", "ebx", "ecx", "edx"} : regs[r] = <<"cpuid", <<32768, k>>, r>>
  /\ pc = 6 => Stacked(b + 1)
  /\ pc = 7 => Stacked(b + 2)
  /\ pc = 8 => Stacked(b + 3)
  /\ pc = 9 => Stacked(b + 4)
Branded(k, b) ==
  /\ Banner[23 - b] = <<"cpuid", <<32768, k>>, "edx">>
  /\ Banner[23 - (b + 1)] = <<"cpuid", <<32768, k>>, "ecx">>
  /\ Banner[23 - (b + 2)] = <<"cpuid", <<32768, k>>, "ebx">>
  /\ Banner[23 - (b + 3)] = <<"cpuid", <<32768, k>>, "eax">>

LEMMA Brands == Branded(4, 2) /\ Branded(3, 6) /\ Branded(2, 10)
<1>1. /\ 23 - 2 = 21 /\ 23 - (2 + 1) = 20 /\ 23 - (2 + 2) = 19 /\ 23 - (2 + 3) = 18
      /\ 23 - 6 = 17 /\ 23 - (6 + 1) = 16 /\ 23 - (6 + 2) = 15 /\ 23 - (6 + 3) = 14
      /\ 23 - 10 = 13 /\ 23 - (10 + 1) = 12 /\ 23 - (10 + 2) = 11 /\ 23 - (10 + 3) = 10
  OBVIOUS
<1>2. /\ Banner[21] = <<"cpuid", <<32768, 4>>, "edx">>
      /\ Banner[20] = <<"cpuid", <<32768, 4>>, "ecx">>
      /\ Banner[19] = <<"cpuid", <<32768, 4>>, "ebx">>
      /\ Banner[18] = <<"cpuid", <<32768, 4>>, "eax">>
      /\ Banner[17] = <<"cpuid", <<32768, 3>>, "edx">>
      /\ Banner[16] = <<"cpuid", <<32768, 3>>, "ecx">>
      /\ Banner[15] = <<"cpuid", <<32768, 3>>, "ebx">>
      /\ Banner[14] = <<"cpuid", <<32768, 3>>, "eax">>
      /\ Banner[13] = <<"cpuid", <<32768, 2>>, "edx">>
      /\ Banner[12] = <<"cpuid", <<32768, 2>>, "ecx">>
      /\ Banner[11] = <<"cpuid", <<32768, 2>>, "ebx">>
      /\ Banner[10] = <<"cpuid", <<32768, 2>>, "eax">>
  BY BannerIs
<1> QED  BY <1>1, <1>2 DEF Branded

LEMMA RoundStep ==
  ASSUME Frame, how = << >>, Next, Cpuid5Code, pc \in {3, 4, 5, 6, 7, 8},
         NEW k, NEW b \in Nat, Branded(k, b), Round(k, b)
  PROVE  Fine /\ how' = << >> /\ pc' = pc + 1 /\ Round(k, b)'
<1>a. /\ how = << >> /\ DOMAIN regs = Reg /\ Anys(stack) /\ Len(code) = 38 /\ Len(code) \in Nat
      /\ regs["esi"] = <<32768, k>>
  BY DEF Frame, Cpuid5Code, Round
<1>b. /\ b + 1 \in Nat /\ b + 2 \in Nat /\ b + 3 \in Nat /\ b + 4 \in Nat
      /\ b + 2 = (b + 1) + 1 /\ b + 3 = (b + 2) + 1 /\ b + 4 = (b + 3) + 1
  OBVIOUS
<1>3. CASE pc = 3
  <2>1. Ins(<<"mov", "esi", "eax">>)
    BY <1>a, <1>3 DEF Ins, Cpuid5Code
  <2>2. Stepped /\ UNCHANGED <<stack, sf>> /\ regs' = [regs EXCEPT !["eax"] = regs["esi"]]
    BY <2>1, DoMov
  <2>3. pc' = 4 /\ regs'["esi"] = <<32768, k>> /\ regs'["eax"] = <<32768, k>> /\ DOMAIN regs' = Reg
    BY <1>a, <1>3, <2>2 DEF Stepped, Reg
  <2>4. Stacked(b)'
    BY <1>3, <2>2, Keeping DEF Round
  <2>5. Round(k, b)'
    BY <2>3, <2>4 DEF Round
  <2> QED  BY <1>a, <1>3, <2>2, <2>3, <2>5, Onward
<1>4. CASE pc = 4
  <2>1. Ins(<<"cpuid", 0, 0>>)
    BY <1>a, <1>4 DEF Ins, Cpuid5Code
  <2>2. /\ Stepped /\ UNCHANGED <<stack, sf>> /\ DOMAIN regs' = Reg
        /\ \A r \in {"eax", "ebx", "ecx", "edx"} : regs'[r] = <<"cpuid", regs["eax"], r>>
        /\ regs'["esi"] = regs["esi"]
    BY <2>1, DoCpuid
  <2>3. regs["eax"] = <<32768, k>>
    BY <1>4 DEF Round
  <2>4. /\ pc' = 5 /\ regs'["esi"] = <<32768, k>>
        /\ \A r \in {"eax", "ebx", "ecx", "edx"} : regs'[r] = <<"cpuid", <<32768, k>>, r>>
    BY <1>a, <1>4, <2>2, <2>3 DEF Stepped
  <2>5. Stacked(b)'
    BY <1>4, <2>2, Keeping DEF Round
  <2>6. Round(k, b)'
    BY <2>4, <2>5 DEF Round
  <2> QED  BY <1>a, <1>4, <2>2, <2>4, <2>6, Onward
<1>5. CASE pc = 5
  <2>1. Ins(<<"pushr", "edx", 0>>)
    BY <1>a, <1>5 DEF Ins, Cpuid5Code
  <2>2. /\ Fine /\ how' = << >> /\ pc' = pc + 1 /\ regs' = regs
        /\ Len(stack') = Len(stack) + 1 /\ stack'[Len(stack) + 1] = regs["edx"]
        /\ \A j \in 1 .. Len(stack) : stack'[j] = stack[j]
    BY <2>1, PushRAt
  <2>3. Stacked(b) /\ \A r \in {"eax", "ebx", "ecx", "edx"} : regs[r] = <<"cpuid", <<32768, k>>, r>>
    BY <1>5 DEF Round
  <2>4. regs["edx"] = Banner[23 - b]
    BY <2>3 DEF Branded
  <2>5. Stacked(b + 1)'
    <3> DEFINE n == b
    <3> DEFINE m == b + 1
    <3>1. n \in Nat /\ m = n + 1
      BY <1>b
    <3>2. Stacked(n) /\ Len(stack') = Len(stack) + 1 /\ stack'[Len(stack) + 1] = Banner[23 - n]
      BY <2>2, <2>3, <2>4
    <3>3. Stacked(m)'
      <4> HIDE DEF n, m
      <4> QED  BY <2>2, <3>1, <3>2, Stacking
    <3> QED  BY <3>3
  <2>6. pc' = 6
    BY <1>5, <2>2
  <2>7. Round(k, b)'
    BY <1>a, <2>2, <2>3, <2>5, <2>6 DEF Round
  <2> QED  BY <2>2, <2>7
<1>6. CASE pc = 6
  <2>1. Ins(<<"pushr", "ecx", 0>>)
    BY <1>a, <1>6 DEF Ins, Cpuid5Code
  <2>2. /\ Fine /\ how' = << >> /\ pc' = pc + 1 /\ regs' = regs
        /\ Len(stack') = Len(stack) + 1 /\ stack'[Len(stack) + 1] = regs["ecx"]
        /\ \A j \in 1 .. Len(stack) : stack'[j] = stack[j]
    BY <2>1, PushRAt
  <2>3. /\ Stacked(b + 1)
        /\ \A r \in {"eax", "ebx", "ecx", "edx"} : regs[r] = <<"cpuid", <<32768, k>>, r>>
    BY <1>6 DEF Round
  <2>4. regs["ecx"] = Banner[23 - (b + 1)]
    BY <2>3 DEF Branded
  <2>5. Stacked(b + 2)'
    <3> DEFINE n == b + 1
    <3> DEFINE m == b + 2
    <3>1. n \in Nat /\ m = n + 1
      BY <1>b
    <3>2. Stacked(n) /\ Len(stack') = Len(stack) + 1 /\ stack'[Len(stack) + 1] = Banner[23 - n]
      BY <2>2, <2>3, <2>4
    <3>3. Stacked(m)'
      <4> HIDE DEF n, m
      <4> QED  BY <2>2, <3>1, <3>2, Stacking
    <3> QED  BY <3>3
  <2>6. pc' = 7
    BY <1>6, <2>2
  <2>7. Round(k, b)'
    BY <1>a, <2>2, <2>3, <2>5, <2>6 DEF Round
  <2> QED  BY <2>2, <2>7
<1>7. CASE pc = 7
  <2>1. Ins(<<"pushr", "ebx", 0>>)
    BY <1>a, <1>7 DEF Ins, Cpuid5Code
  <2>2. /\ Fine /\ how' = << >> /\ pc' = pc + 1 /\ regs' = regs
        /\ Len(stack') = Len(stack) + 1 /\ stack'[Len(stack) + 1] = regs["ebx"]
        /\ \A j \in 1 .. Len(stack) : stack'[j] = stack[j]
    BY <2>1, PushRAt
  <2>3. /\ Stacked(b + 2)
        /\ \A r \in {"eax", "ebx", "ecx", "edx"} : regs[r] = <<"cpuid", <<32768, k>>, r>>
    BY <1>7 DEF Round
  <2>4. regs["ebx"] = Banner[23 - (b + 2)]
    BY <2>3 DEF Branded
  <2>5. Stacked(b + 3)'
    <3> DEFINE n == b + 2
    <3> DEFINE m == b + 3
    <3>1. n \in Nat /\ m = n + 1
      BY <1>b
    <3>2. Stacked(n) /\ Len(stack') = Len(stack) + 1 /\ stack'[Len(stack) + 1] = Banner[23 - n]
      BY <2>2, <2>3, <2>4
    <3>3. Stacked(m)'
      <4> HIDE DEF n, m
      <4> QED  BY <2>2, <3>1, <3>2, Stacking
    <3> QED  BY <3>3
  <2>6. pc' = 8
    BY <1>7, <2>2
  <2>7. Round(k, b)'
    BY <1>a, <2>2, <2>3, <2>5, <2>6 DEF Round
  <2> QED  BY <2>2, <2>7
<1>8. CASE pc = 8
  <2>1. Ins(<<"pushr", "eax", 0>>)
    BY <1>a, <1>8 DEF Ins, Cpuid5Code
  <2>2. /\ Fine /\ how' = << >> /\ pc' = pc + 1 /\ regs' = regs
        /\ Len(stack') = Len(stack) + 1 /\ stack'[Len(stack) + 1] = regs["eax"]
        /\ \A j \in 1 .. Len(stack) : stack'[j] = stack[j]
    BY <2>1, PushRAt
  <2>3. /\ Stacked(b + 3)
        /\ \A r \in {"eax", "ebx", "ecx", "edx"} : regs[r] = <<"cpuid", <<32768, k>>, r>>
    BY <1>8 DEF Round
  <2>4. regs["eax"] = Banner[23 - (b + 3)]
    BY <2>3 DEF Branded
  <2>5. Stacked(b + 4)'
    <3> DEFINE n == b + 3
    <3> DEFINE m == b + 4
    <3>1. n \in Nat /\ m = n + 1
      BY <1>b
    <3>2. Stacked(n) /\ Len(stack') = Len(stack) + 1 /\ stack'[Len(stack) + 1] = Banner[23 - n]
      BY <2>2, <2>3, <2>4
    <3>3. Stacked(m)'
      <4> HIDE DEF n, m
      <4> QED  BY <2>2, <3>1, <3>2, Stacking
    <3> QED  BY <3>3
  <2>6. pc' = 9
    BY <1>8, <2>2
  <2>7. Round(k, b)'
    BY <1>a, <2>2, <2>3, <2>5, <2>6 DEF Round
  <2> QED  BY <2>2, <2>7
<1> QED  BY <1>3, <1>4, <1>5, <1>6, <1>7, <1>8

LEMMA BannerWords ==
  ASSUME Built(23)
  PROVE  Words(23, 22) = Banner /\ \A j \in 1 .. 22 : Words(23, 22)[j] # Junk("stack")
<1>1. Anys(Banner) /\ Len(Banner) = 22
  BY BannerIs
<1>2. Banner = [j \in 1 .. 22 |-> Banner[j]]
  <2>1. PICK S : Banner \in Seq(S)
    BY <1>1 DEF Anys
  <2>2. Banner = [j \in 1 .. Len(Banner) |-> Banner[j]]
    BY <2>1
  <2> QED  BY <1>1, <2>2
<1>3. ASSUME NEW j \in 1 .. 22  PROVE stack[23 + 1 - j] = Banner[j]
  <2>1. 23 + 1 - j \in 2 .. 23 /\ 24 - (23 + 1 - j) = j
    OBVIOUS
  <2> QED  BY <2>1 DEF Built
<1>4. Words(23, 22) = [j \in 1 .. 22 |-> Banner[j]]
  BY <1>3 DEF Words
<1>5. ASSUME NEW j \in 1 .. 22  PROVE Banner[j] # Junk("stack")
  <2>1. \A a, b : <<a, b>> # Junk("stack")
    BY DEF Junk
  <2>2. \A a, b : <<"cpuid", a, b>> # Junk("stack")
    BY DEF Junk
  <2>3. Banner[j] \in {<<a, b>> : a \in {0, 8250}, b \in {10, 19722, 20490, 22088}} \/ Banner[j][1] = "cpuid"
    <3>1. \/ j = 1 \/ j = 2 \/ j = 3 \/ j = 4 \/ j = 5 \/ j = 6 \/ j = 7 \/ j = 8 \/ j = 9 \/ j = 10
          \/ j = 11 \/ j = 12 \/ j = 13 \/ j = 14 \/ j = 15 \/ j = 16 \/ j = 17 \/ j = 18 \/ j = 19
          \/ j = 20 \/ j = 21 \/ j = 22
      OBVIOUS
    <3>2. CASE j \in {1, 5, 9, 22}
      BY <3>2, BannerIs DEF W
    <3>3. CASE j \notin {1, 5, 9, 22}
      BY <3>1, <3>3, BannerIs
    <3> QED  BY <3>2, <3>3
  <2> QED  BY <2>1, <2>3 DEF Junk
<1> QED  BY <1>2, <1>4, <1>5

Cpuid5Table ==
  /\ pc \in {1, 2, 3, 4, 5, 6, 7, 8, 9, 10, 11, 12, 13, 14, 15, 16, 17, 18, 19,
             20, 21, 22, 23, 24, 25, 26, 27, 28, 29, 30, 31, 32, 33, 34, 35, 36, 37, 38}
  /\ pc = 1 => Len(stack) = 1
  /\ pc = 2 => Stacked(2)
  /\ pc \in {3, 4, 5, 6, 7, 8, 9} => Round(4, 2) \/ Round(3, 6) \/ Round(2, 10)
  /\ pc = 10 => \/ Stacked(6) /\ regs["esi"] = <<32768, 3>>
                \/ Stacked(10) /\ regs["esi"] = <<32768, 2>>
                \/ Stacked(14) /\ regs["esi"] = <<32768, 1>>
  /\ pc = 11 => Stacked(14) /\ regs["esi"] = <<32768, 1>>
  /\ pc = 12 => Stacked(14) /\ regs["esi"] = <<32768, 1>> /\ regs["edi"] = <<8250, 20490>>
  /\ pc = 13 => Stacked(15) /\ regs["esi"] = <<32768, 1>> /\ regs["edi"] = <<8250, 20490>>
  /\ pc = 14 => /\ Stacked(15) /\ regs["esi"] = <<32768, 1>>
                /\ regs["edi"] = <<8250, 20490>> /\ regs["eax"] = W(0)
  /\ pc = 15 => /\ Stacked(15) /\ regs["esi"] = <<32768, 1>>
                /\ regs["edi"] = <<8250, 20490>>
                /\ \A r \in {"eax", "ebx", "ecx", "edx"} : regs[r] = <<"cpuid", W(0), r>>
  /\ pc = 16 => /\ Stacked(16) /\ regs["esi"] = <<32768, 1>>
                /\ regs["edi"] = <<8250, 20490>>
                /\ \A r \in {"eax", "ebx", "ecx", "edx"} : regs[r] = <<"cpuid", W(0), r>>
  /\ pc = 17 => /\ Stacked(17) /\ regs["esi"] = <<32768, 1>>
                /\ regs["edi"] = <<8250, 20490>>
                /\ \A r \in {"eax", "ebx", "ecx", "edx"} : regs[r] = <<"cpuid", W(0), r>>
  /\ pc = 18 => Stacked(18) /\ regs["esi"] = <<32768, 1>> /\ regs["edi"] = <<8250, 20490>>
  /\ pc = 19 => Stacked(18) /\ regs["esi"] = <<32768, 1>> /\ regs["edi"] = <<8250, 19722>>
  /\ pc = 20 => Stacked(19) /\ regs["esi"] = <<32768, 1>> /\ regs["edi"] = <<8250, 19722>>
  /\ pc = 21 => Stacked(19) /\ regs["edi"] = <<8250, 19722>> /\ regs["eax"] = <<32768, 1>>
  /\ pc = 22 => Stacked(19) /\ regs["edi"] = <<8250, 19722>> /\ regs["eax"] = <<16384, 0>>
  /\ pc = 23 => /\ Stacked(19) /\ regs["edi"] = <<8250, 19722>>
                /\ \A r \in {"eax", "ebx", "ecx", "edx"} : regs[r] = <<"cpuid", <<16384, 0>>, r>>
  /\ pc = 24 => /\ Stacked(20) /\ regs["edi"] = <<8250, 19722>>
                /\ \A r \in {"eax", "ebx", "ecx", "edx"} : regs[r] = <<"cpuid", <<16384, 0>>, r>>
  /\ pc = 25 => /\ Stacked(21) /\ regs["edi"] = <<8250, 19722>>
                /\ \A r \in {"eax", "ebx", "ecx", "edx"} : regs[r] = <<"cpuid", <<16384, 0>>, r>>
  /\ pc = 26 => Stacked(22) /\ regs["edi"] = <<8250, 19722>>
  /\ pc = 27 => Stacked(22) /\ regs["edi"] = <<8250, 22088>>
  /\ pc = 28 => Stacked(23)
  /\ pc = 29 => Stacked(23) /\ regs["ecx"] = <<"esp", 23, 0>>
  /\ pc = 30 => Len(stack) = 24 /\ Built(23) /\ stack[24] = W(4) /\ regs["ecx"] = <<"esp", 23, 0>>
  /\ pc = 31 => Stacked(23) /\ regs["ecx"] = <<"esp", 23, 0>> /\ regs["eax"] = W(4)
  /\ pc = 32 => /\ Len(stack) = 24 /\ Built(23) /\ stack[24] = W(1)
                /\ regs["ecx"] = <<"esp", 23, 0>> /\ regs["eax"] = W(4)
  /\ pc = 33 => /\ Stacked(23) /\ regs["ecx"] = <<"esp", 23, 0>> /\ regs["eax"] = W(4)
                /\ regs["ebx"] = W(1)
  /\ pc = 34 => /\ Len(stack) = 24 /\ Built(23) /\ stack[24] = W(85)
                /\ regs["ecx"] = <<"esp", 23, 0>> /\ regs["eax"] = W(4)
                /\ regs["ebx"] = W(1)
  /\ pc = 35 => /\ Stacked(23) /\ regs["ecx"] = <<"esp", 23, 0>> /\ regs["eax"] = W(4)
                /\ regs["ebx"] = W(1) /\ regs["edx"] = W(85)
  /\ pc = 36 => regs["ebx"] = W(1)
  /\ pc = 37 => regs["eax"] = W(1)
  /\ pc = 38 => regs["eax"] = W(1) /\ regs["ebx"] = W(0)
LEMMA Cpuid5Step ==
  ASSUME Frame, how = << >>, Next, prog = "cpuid5", arch = "i386", Cpuid5Code, Cpuid5Table
  PROVE  Leads(Cpuid5Table')
<1>a. /\ how = << >> /\ DOMAIN regs = Reg /\ Anys(stack) /\ Anys(out)
      /\ Len(code) \in Nat /\ Len(code) = 38 /\ Cpuid5Table
  BY DEF Frame, Cpuid5Code
<1>1. CASE pc = 1
  <2>1. Ins(<<"push", W(10), 0>>)
    BY <1>a, <1>1 DEF Ins, Cpuid5Code
  <2>2. Len(stack) = 1
    BY <1>a, <1>1 DEF Cpuid5Table
  <2>3. Stacked(1)
    BY <2>2 DEF Stacked, Built
  <2>4. /\ Fine /\ how' = << >> /\ pc' = pc + 1 /\ regs' = regs
        /\ Len(stack') = Len(stack) + 1 /\ stack'[Len(stack) + 1] = W(10)
        /\ \A j \in 1 .. Len(stack) : stack'[j] = stack[j]
    BY <2>1, PushAt
  <2>5. W(10) = Banner[23 - 1]
    <3>1. 23 - 1 = 22
      OBVIOUS
    <3>2. W(10) = W(10)
      BY <2>2
    <3>3. Banner[22] = W(10)
      BY BannerIs
    <3> QED  BY <3>1, <3>2, <3>3
  <2>6. Stacked(2)'
    <3> DEFINE n == 1
    <3> DEFINE m == 2
    <3>1. n \in Nat /\ m = n + 1
      OBVIOUS
    <3>2. Stacked(n) /\ Len(stack') = Len(stack) + 1 /\ stack'[Len(stack) + 1] = Banner[23 - n]
      BY <2>3, <2>4, <2>5
    <3>3. Stacked(m)'
      <4> HIDE DEF n, m
      <4> QED  BY <2>3, <2>4, <3>1, <3>2, Stacking
    <3> QED  BY <3>3
  <2>7. pc' = 2
    BY <1>1, <2>4
  <2>8. Cpuid5Table'
    BY <2>2, <2>4, <2>6, <2>7 DEF Cpuid5Table
  <2> QED  BY <2>4, <2>8 DEF Leads
<1>2. CASE pc = 2
  <2>1. Ins(<<"li", <<32768, 4>>, "esi">>)
    BY <1>a, <1>2 DEF Ins, Cpuid5Code
  <2>2. Stacked(2)
    BY <1>a, <1>2 DEF Cpuid5Table
  <2>3. Stepped /\ UNCHANGED <<stack, sf>> /\ regs' = [regs EXCEPT !["esi"] = <<32768, 4>>]
    BY <2>1, DoLi
  <2>4. pc' = 3 /\ stack' = stack /\ regs'["esi"] = <<32768, 4>>
    BY <1>a, <1>2, <2>3 DEF Stepped, Reg
  <2>5. Stacked(2)'
    BY <2>2, <2>4, Keeping
  <2>6. Round(4, 2)'
    BY <2>4, <2>5 DEF Round
  <2>7. Cpuid5Table'
    BY <2>4, <2>6 DEF Cpuid5Table
  <2> QED  BY <1>a, <2>3, <2>7, Onward DEF Leads
<1>3. CASE pc \in {3, 4, 5, 6, 7, 8}
  <2>1. Round(4, 2) \/ Round(3, 6) \/ Round(2, 10)
    BY <1>a, <1>3 DEF Cpuid5Table
  <2>2. /\ Fine /\ how' = << >> /\ pc' = pc + 1
        /\ Round(4, 2)' \/ Round(3, 6)' \/ Round(2, 10)'
    <3>1. CASE Round(4, 2)
      BY <1>3, <3>1, Brands, RoundStep
    <3>2. CASE Round(3, 6)
      BY <1>3, <3>2, Brands, RoundStep
    <3>3. CASE Round(2, 10)
      BY <1>3, <3>3, Brands, RoundStep
    <3> QED  BY <2>1, <3>1, <3>2, <3>3
  <2>3. pc' \in {4, 5, 6, 7, 8, 9}
    BY <1>3, <2>2
  <2>4. Cpuid5Table'
    BY <2>2, <2>3 DEF Cpuid5Table
  <2> QED  BY <2>2, <2>4 DEF Leads
<1>9. CASE pc = 9
  <2>1. Ins(<<"dec", "esi", 0>>)
    BY <1>a, <1>9 DEF Ins, Cpuid5Code
  <2>2. \/ Stacked(6) /\ regs["esi"] = <<32768, 4>>
        \/ Stacked(10) /\ regs["esi"] = <<32768, 3>>
        \/ Stacked(14) /\ regs["esi"] = <<32768, 2>>
    <3>1. Round(4, 2) \/ Round(3, 6) \/ Round(2, 10)
      BY <1>a, <1>9 DEF Cpuid5Table
    <3>2. 2 + 4 = 6 /\ 6 + 4 = 10 /\ 10 + 4 = 14
      OBVIOUS
    <3> QED  BY <1>9, <3>1, <3>2 DEF Round
  <2>3. /\ Stepped /\ UNCHANGED <<stack, sf>>
        /\ regs' = [regs EXCEPT !["esi"] = <<regs["esi"][1], regs["esi"][2] - 1>>]
    BY <2>1, DoDec
  <2>4. /\ pc' = 10 /\ stack' = stack /\ DOMAIN regs' = Reg
        /\ regs'["esi"] = <<regs["esi"][1], regs["esi"][2] - 1>>
    BY <1>a, <1>9, <2>3 DEF Stepped, Reg
  <2>5. \/ Stacked(6)' /\ regs'["esi"] = <<32768, 3>>
        \/ Stacked(10)' /\ regs'["esi"] = <<32768, 2>>
        \/ Stacked(14)' /\ regs'["esi"] = <<32768, 1>>
    <3>1. CASE Stacked(6) /\ regs["esi"] = <<32768, 4>>
      <4>1. regs["esi"][1] = 32768 /\ regs["esi"][2] = 4 /\ 4 - 1 = 3
        BY <3>1
      <4>2. Stacked(6)'
        BY <2>4, <3>1, Keeping
      <4> QED  BY <2>4, <4>1, <4>2
    <3>2. CASE Stacked(10) /\ regs["esi"] = <<32768, 3>>
      <4>1. regs["esi"][1] = 32768 /\ regs["esi"][2] = 3 /\ 3 - 1 = 2
        BY <3>2
      <4>2. Stacked(10)'
        BY <2>4, <3>2, Keeping
      <4> QED  BY <2>4, <4>1, <4>2
    <3>3. CASE Stacked(14) /\ regs["esi"] = <<32768, 2>>
      <4>1. regs["esi"][1] = 32768 /\ regs["esi"][2] = 2 /\ 2 - 1 = 1
        BY <3>3
      <4>2. Stacked(14)'
        BY <2>4, <3>3, Keeping
      <4> QED  BY <2>4, <4>1, <4>2
    <3> QED  BY <2>2, <3>1, <3>2, <3>3
  <2>6. Cpuid5Table'
    BY <2>4, <2>5 DEF Cpuid5Table
  <2> QED  BY <1>a, <2>3, <2>4, <2>6, Onward DEF Leads
<1>10. CASE pc = 10
  <2>1. Ins(<<"jg1", "esi", -7>>)
    BY <1>a, <1>10 DEF Ins, Cpuid5Code
  <2>2. \/ Stacked(6) /\ regs["esi"] = <<32768, 3>>
        \/ Stacked(10) /\ regs["esi"] = <<32768, 2>>
        \/ Stacked(14) /\ regs["esi"] = <<32768, 1>>
    BY <1>a, <1>10 DEF Cpuid5Table
  <2>3. /\ UNCHANGED <<prog, text, vm, arch, code, entry, out, how, regs, stack, sf>>
        /\ pc' = pc + (IF above(regs["esi"][2], 1) THEN -7 ELSE 1)
    BY <2>1, DoJg1
  <2>4. above(3, 1) /\ above(2, 1) /\ ~above(1, 1) /\ 10 + (-7) = 3 /\ 10 + 1 = 11
    BY DEF above
  <2>5. Cpuid5Table'
    <3>1. CASE Stacked(6) /\ regs["esi"] = <<32768, 3>>
      <4>1. regs["esi"][2] = 3
        BY <3>1
      <4>2. pc' = 3
        BY <1>10, <2>3, <2>4, <4>1
      <4>3. Stacked(6)' /\ regs'["esi"] = <<32768, 3>>
        BY <2>3, <3>1, Keeping
      <4>4. Round(3, 6)'
        BY <4>2, <4>3 DEF Round
      <4> QED  BY <4>2, <4>4 DEF Cpuid5Table
    <3>2. CASE Stacked(10) /\ regs["esi"] = <<32768, 2>>
      <4>1. regs["esi"][2] = 2
        BY <3>2
      <4>2. pc' = 3
        BY <1>10, <2>3, <2>4, <4>1
      <4>3. Stacked(10)' /\ regs'["esi"] = <<32768, 2>>
        BY <2>3, <3>2, Keeping
      <4>4. Round(2, 10)'
        BY <4>2, <4>3 DEF Round
      <4> QED  BY <4>2, <4>4 DEF Cpuid5Table
    <3>3. CASE Stacked(14) /\ regs["esi"] = <<32768, 1>>
      <4>1. regs["esi"][2] = 1
        BY <3>3
      <4>2. pc' = 11
        BY <1>10, <2>3, <2>4, <4>1
      <4>3. Stacked(14)' /\ regs'["esi"] = <<32768, 1>>
        BY <2>3, <3>3, Keeping
      <4> QED  BY <4>2, <4>3 DEF Cpuid5Table
    <3> QED  BY <2>2, <3>1, <3>2, <3>3
  <2>6. Fine /\ how' = << >>
    BY <1>a, <2>3 DEF Fine, Same, Proper, Quiet
  <2> QED  BY <2>5, <2>6 DEF Leads
<1>11. CASE pc = 11
  <2>1. Ins(<<"li", <<8250, 20490>>, "edi">>)
    BY <1>a, <1>11 DEF Ins, Cpuid5Code
  <2>2. /\ Stacked(14)
        /\ regs["esi"] = <<32768, 1>>
    BY <1>a, <1>11 DEF Cpuid5Table
  <2>3. Stepped /\ UNCHANGED <<stack, sf>> /\ regs' = [regs EXCEPT !["edi"] = <<8250, 20490>>]
    BY <2>1, DoLi
  <2>4. /\ pc' = 12 /\ stack' = stack /\ DOMAIN regs' = Reg /\ regs'["esi"] = <<32768, 1>>
        /\ regs'["edi"] = <<8250, 20490>>
    BY <1>a, <1>11, <2>2, <2>3 DEF Stepped, Reg
  <2>5. Stacked(14)'
    BY <2>2, <2>4, Keeping
  <2>6. Cpuid5Table'
    BY <2>4, <2>5 DEF Cpuid5Table
  <2> QED  BY <1>a, <2>3, <2>4, <2>6, Onward DEF Leads
<1>12. CASE pc = 12
  <2>1. Ins(<<"pushr", "edi", 0>>)
    BY <1>a, <1>12 DEF Ins, Cpuid5Code
  <2>2. /\ Stacked(14)
        /\ regs["esi"] = <<32768, 1>>
        /\ regs["edi"] = <<8250, 20490>>
    BY <1>a, <1>12 DEF Cpuid5Table
  <2>3. /\ Fine /\ how' = << >> /\ pc' = pc + 1 /\ regs' = regs
        /\ Len(stack') = Len(stack) + 1 /\ stack'[Len(stack) + 1] = regs["edi"]
        /\ \A j \in 1 .. Len(stack) : stack'[j] = stack[j]
    BY <2>1, PushRAt
  <2>4. regs["edi"] = Banner[23 - 14]
    <3>1. 23 - 14 = 9
      OBVIOUS
    <3>2. regs["edi"] = <<8250, 20490>>
      BY <2>2
    <3>3. Banner[9] = <<8250, 20490>>
      BY BannerIs
    <3> QED  BY <3>1, <3>2, <3>3
  <2>5. Stacked(15)'
    <3> DEFINE n == 14
    <3> DEFINE m == 15
    <3>1. n \in Nat /\ m = n + 1
      OBVIOUS
    <3>2. Stacked(n) /\ Len(stack') = Len(stack) + 1 /\ stack'[Len(stack) + 1] = Banner[23 - n]
      BY <2>2, <2>3, <2>4
    <3>3. Stacked(m)'
      <4> HIDE DEF n, m
      <4> QED  BY <2>2, <2>3, <3>1, <3>2, Stacking
    <3> QED  BY <3>3
  <2>6. pc' = 13
    BY <1>12, <2>3
  <2>7. Cpuid5Table'
    BY <2>2, <2>3, <2>5, <2>6 DEF Cpuid5Table
  <2> QED  BY <2>3, <2>7 DEF Leads
<1>13. CASE pc = 13
  <2>1. Ins(<<"xor", "eax", 0>>)
    BY <1>a, <1>13 DEF Ins, Cpuid5Code
  <2>2. /\ Stacked(15)
        /\ regs["esi"] = <<32768, 1>>
        /\ regs["edi"] = <<8250, 20490>>
    BY <1>a, <1>13 DEF Cpuid5Table
  <2>3. Stepped /\ UNCHANGED <<stack, sf>> /\ regs' = [regs EXCEPT !["eax"] = W(0)]
    BY <2>1, DoXor
  <2>4. /\ pc' = 14 /\ stack' = stack /\ DOMAIN regs' = Reg /\ regs'["esi"] = <<32768, 1>>
        /\ regs'["edi"] = <<8250, 20490>> /\ regs'["eax"] = W(0)
    BY <1>a, <1>13, <2>2, <2>3 DEF Stepped, Reg
  <2>5. Stacked(15)'
    BY <2>2, <2>4, Keeping
  <2>6. Cpuid5Table'
    BY <2>4, <2>5 DEF Cpuid5Table
  <2> QED  BY <1>a, <2>3, <2>4, <2>6, Onward DEF Leads
<1>14. CASE pc = 14
  <2>1. Ins(<<"cpuid", 0, 0>>)
    BY <1>a, <1>14 DEF Ins, Cpuid5Code
  <2>2. /\ Stacked(15)
        /\ regs["esi"] = <<32768, 1>>
        /\ regs["edi"] = <<8250, 20490>>
        /\ regs["eax"] = W(0)
    BY <1>a, <1>14 DEF Cpuid5Table
  <2>3. /\ Stepped /\ UNCHANGED <<stack, sf>> /\ DOMAIN regs' = Reg
        /\ \A r \in {"eax", "ebx", "ecx", "edx"} : regs'[r] = <<"cpuid", regs["eax"], r>>
        /\ regs'["esi"] = regs["esi"] /\ regs'["edi"] = regs["edi"]
    BY <2>1, DoCpuid
  <2>4. /\ pc' = 15 /\ stack' = stack /\ DOMAIN regs' = Reg /\ regs'["esi"] = <<32768, 1>>
        /\ regs'["edi"] = <<8250, 20490>>
        /\ \A r \in {"eax", "ebx", "ecx", "edx"} : regs'[r] = <<"cpuid", W(0), r>>
    BY <1>a, <1>14, <2>2, <2>3 DEF Stepped, Reg
  <2>5. Stacked(15)'
    BY <2>2, <2>4, Keeping
  <2>6. Cpuid5Table'
    BY <2>4, <2>5 DEF Cpuid5Table
  <2> QED  BY <1>a, <2>3, <2>4, <2>6, Onward DEF Leads
<1>15. CASE pc = 15
  <2>1. Ins(<<"pushr", "ecx", 0>>)
    BY <1>a, <1>15 DEF Ins, Cpuid5Code
  <2>2. /\ Stacked(15)
        /\ regs["esi"] = <<32768, 1>>
        /\ regs["edi"] = <<8250, 20490>>
        /\ \A r \in {"eax", "ebx", "ecx", "edx"} : regs[r] = <<"cpuid", W(0), r>>
    BY <1>a, <1>15 DEF Cpuid5Table
  <2>3. /\ Fine /\ how' = << >> /\ pc' = pc + 1 /\ regs' = regs
        /\ Len(stack') = Len(stack) + 1 /\ stack'[Len(stack) + 1] = regs["ecx"]
        /\ \A j \in 1 .. Len(stack) : stack'[j] = stack[j]
    BY <2>1, PushRAt
  <2>4. regs["ecx"] = Banner[23 - 15]
    <3>1. 23 - 15 = 8
      OBVIOUS
    <3>2. regs["ecx"] = <<"cpuid", W(0), "ecx">>
      BY <2>2
    <3>3. Banner[8] = <<"cpuid", W(0), "ecx">>
      BY BannerIs
    <3> QED  BY <3>1, <3>2, <3>3
  <2>5. Stacked(16)'
    <3> DEFINE n == 15
    <3> DEFINE m == 16
    <3>1. n \in Nat /\ m = n + 1
      OBVIOUS
    <3>2. Stacked(n) /\ Len(stack') = Len(stack) + 1 /\ stack'[Len(stack) + 1] = Banner[23 - n]
      BY <2>2, <2>3, <2>4
    <3>3. Stacked(m)'
      <4> HIDE DEF n, m
      <4> QED  BY <2>2, <2>3, <3>1, <3>2, Stacking
    <3> QED  BY <3>3
  <2>6. pc' = 16
    BY <1>15, <2>3
  <2>7. Cpuid5Table'
    BY <2>2, <2>3, <2>5, <2>6 DEF Cpuid5Table
  <2> QED  BY <2>3, <2>7 DEF Leads
<1>16. CASE pc = 16
  <2>1. Ins(<<"pushr", "edx", 0>>)
    BY <1>a, <1>16 DEF Ins, Cpuid5Code
  <2>2. /\ Stacked(16)
        /\ regs["esi"] = <<32768, 1>>
        /\ regs["edi"] = <<8250, 20490>>
        /\ \A r \in {"eax", "ebx", "ecx", "edx"} : regs[r] = <<"cpuid", W(0), r>>
    BY <1>a, <1>16 DEF Cpuid5Table
  <2>3. /\ Fine /\ how' = << >> /\ pc' = pc + 1 /\ regs' = regs
        /\ Len(stack') = Len(stack) + 1 /\ stack'[Len(stack) + 1] = regs["edx"]
        /\ \A j \in 1 .. Len(stack) : stack'[j] = stack[j]
    BY <2>1, PushRAt
  <2>4. regs["edx"] = Banner[23 - 16]
    <3>1. 23 - 16 = 7
      OBVIOUS
    <3>2. regs["edx"] = <<"cpuid", W(0), "edx">>
      BY <2>2
    <3>3. Banner[7] = <<"cpuid", W(0), "edx">>
      BY BannerIs
    <3> QED  BY <3>1, <3>2, <3>3
  <2>5. Stacked(17)'
    <3> DEFINE n == 16
    <3> DEFINE m == 17
    <3>1. n \in Nat /\ m = n + 1
      OBVIOUS
    <3>2. Stacked(n) /\ Len(stack') = Len(stack) + 1 /\ stack'[Len(stack) + 1] = Banner[23 - n]
      BY <2>2, <2>3, <2>4
    <3>3. Stacked(m)'
      <4> HIDE DEF n, m
      <4> QED  BY <2>2, <2>3, <3>1, <3>2, Stacking
    <3> QED  BY <3>3
  <2>6. pc' = 17
    BY <1>16, <2>3
  <2>7. Cpuid5Table'
    BY <2>2, <2>3, <2>5, <2>6 DEF Cpuid5Table
  <2> QED  BY <2>3, <2>7 DEF Leads
<1>17. CASE pc = 17
  <2>1. Ins(<<"pushr", "ebx", 0>>)
    BY <1>a, <1>17 DEF Ins, Cpuid5Code
  <2>2. /\ Stacked(17)
        /\ regs["esi"] = <<32768, 1>>
        /\ regs["edi"] = <<8250, 20490>>
        /\ \A r \in {"eax", "ebx", "ecx", "edx"} : regs[r] = <<"cpuid", W(0), r>>
    BY <1>a, <1>17 DEF Cpuid5Table
  <2>3. /\ Fine /\ how' = << >> /\ pc' = pc + 1 /\ regs' = regs
        /\ Len(stack') = Len(stack) + 1 /\ stack'[Len(stack) + 1] = regs["ebx"]
        /\ \A j \in 1 .. Len(stack) : stack'[j] = stack[j]
    BY <2>1, PushRAt
  <2>4. regs["ebx"] = Banner[23 - 17]
    <3>1. 23 - 17 = 6
      OBVIOUS
    <3>2. regs["ebx"] = <<"cpuid", W(0), "ebx">>
      BY <2>2
    <3>3. Banner[6] = <<"cpuid", W(0), "ebx">>
      BY BannerIs
    <3> QED  BY <3>1, <3>2, <3>3
  <2>5. Stacked(18)'
    <3> DEFINE n == 17
    <3> DEFINE m == 18
    <3>1. n \in Nat /\ m = n + 1
      OBVIOUS
    <3>2. Stacked(n) /\ Len(stack') = Len(stack) + 1 /\ stack'[Len(stack) + 1] = Banner[23 - n]
      BY <2>2, <2>3, <2>4
    <3>3. Stacked(m)'
      <4> HIDE DEF n, m
      <4> QED  BY <2>2, <2>3, <3>1, <3>2, Stacking
    <3> QED  BY <3>3
  <2>6. pc' = 18
    BY <1>17, <2>3
  <2>7. Cpuid5Table'
    BY <2>2, <2>3, <2>5, <2>6 DEF Cpuid5Table
  <2> QED  BY <2>3, <2>7 DEF Leads
<1>18. CASE pc = 18
  <2>1. Ins(<<"li16", 19722, "edi">>)
    BY <1>a, <1>18 DEF Ins, Cpuid5Code
  <2>2. /\ Stacked(18)
        /\ regs["esi"] = <<32768, 1>>
        /\ regs["edi"] = <<8250, 20490>>
    BY <1>a, <1>18 DEF Cpuid5Table
  <2>3. regs["edi"][1] = 8250
    BY <2>2
  <2>4. /\ Stepped /\ UNCHANGED <<stack, sf>>
        /\ regs' = [regs EXCEPT !["edi"] = <<regs["edi"][1], 19722>>]
    BY <2>1, DoLi16
  <2>5. /\ pc' = 19 /\ stack' = stack /\ DOMAIN regs' = Reg /\ regs'["esi"] = <<32768, 1>>
        /\ regs'["edi"] = <<8250, 19722>>
    BY <1>a, <1>18, <2>2, <2>3, <2>4 DEF Stepped, Reg
  <2>6. Stacked(18)'
    BY <2>2, <2>5, Keeping
  <2>7. Cpuid5Table'
    BY <2>5, <2>6 DEF Cpuid5Table
  <2> QED  BY <1>a, <2>4, <2>5, <2>7, Onward DEF Leads
<1>19. CASE pc = 19
  <2>1. Ins(<<"pushr", "edi", 0>>)
    BY <1>a, <1>19 DEF Ins, Cpuid5Code
  <2>2. /\ Stacked(18)
        /\ regs["esi"] = <<32768, 1>>
        /\ regs["edi"] = <<8250, 19722>>
    BY <1>a, <1>19 DEF Cpuid5Table
  <2>3. /\ Fine /\ how' = << >> /\ pc' = pc + 1 /\ regs' = regs
        /\ Len(stack') = Len(stack) + 1 /\ stack'[Len(stack) + 1] = regs["edi"]
        /\ \A j \in 1 .. Len(stack) : stack'[j] = stack[j]
    BY <2>1, PushRAt
  <2>4. regs["edi"] = Banner[23 - 18]
    <3>1. 23 - 18 = 5
      OBVIOUS
    <3>2. regs["edi"] = <<8250, 19722>>
      BY <2>2
    <3>3. Banner[5] = <<8250, 19722>>
      BY BannerIs
    <3> QED  BY <3>1, <3>2, <3>3
  <2>5. Stacked(19)'
    <3> DEFINE n == 18
    <3> DEFINE m == 19
    <3>1. n \in Nat /\ m = n + 1
      OBVIOUS
    <3>2. Stacked(n) /\ Len(stack') = Len(stack) + 1 /\ stack'[Len(stack) + 1] = Banner[23 - n]
      BY <2>2, <2>3, <2>4
    <3>3. Stacked(m)'
      <4> HIDE DEF n, m
      <4> QED  BY <2>2, <2>3, <3>1, <3>2, Stacking
    <3> QED  BY <3>3
  <2>6. pc' = 20
    BY <1>19, <2>3
  <2>7. Cpuid5Table'
    BY <2>2, <2>3, <2>5, <2>6 DEF Cpuid5Table
  <2> QED  BY <2>3, <2>7 DEF Leads
<1>20. CASE pc = 20
  <2>1. Ins(<<"mov", "esi", "eax">>)
    BY <1>a, <1>20 DEF Ins, Cpuid5Code
  <2>2. /\ Stacked(19)
        /\ regs["esi"] = <<32768, 1>>
        /\ regs["edi"] = <<8250, 19722>>
    BY <1>a, <1>20 DEF Cpuid5Table
  <2>3. Stepped /\ UNCHANGED <<stack, sf>> /\ regs' = [regs EXCEPT !["eax"] = regs["esi"]]
    BY <2>1, DoMov
  <2>4. /\ pc' = 21 /\ stack' = stack /\ DOMAIN regs' = Reg /\ regs'["edi"] = <<8250, 19722>>
        /\ regs'["eax"] = <<32768, 1>>
    BY <1>a, <1>20, <2>2, <2>3 DEF Stepped, Reg
  <2>5. Stacked(19)'
    BY <2>2, <2>4, Keeping
  <2>6. Cpuid5Table'
    BY <2>4, <2>5 DEF Cpuid5Table
  <2> QED  BY <1>a, <2>3, <2>4, <2>6, Onward DEF Leads
<1>21. CASE pc = 21
  <2>1. Ins(<<"shr", "eax", 0>>)
    BY <1>a, <1>21 DEF Ins, Cpuid5Code
  <2>2. /\ Stacked(19)
        /\ regs["edi"] = <<8250, 19722>>
        /\ regs["eax"] = <<32768, 1>>
    BY <1>a, <1>21 DEF Cpuid5Table
  <2>3. /\ regs["eax"][1] = 32768 /\ regs["eax"][2] = 1 /\ 32768 \div 2 = 16384
        /\ 1 \div 2 + (32768 % 2) * 32768 = 0
    BY <2>2
  <2>4. /\ Stepped /\ UNCHANGED <<stack, sf>>
        /\ regs' = [regs EXCEPT !["eax"] =
              <<regs["eax"][1] \div 2, regs["eax"][2] \div 2 + (regs["eax"][1] % 2) * 32768>>]
    BY <2>1, DoShr
  <2>5. /\ pc' = 22 /\ stack' = stack /\ DOMAIN regs' = Reg /\ regs'["edi"] = <<8250, 19722>>
        /\ regs'["eax"] = <<16384, 0>>
    BY <1>a, <1>21, <2>2, <2>3, <2>4 DEF Stepped, Reg
  <2>6. Stacked(19)'
    BY <2>2, <2>5, Keeping
  <2>7. Cpuid5Table'
    BY <2>5, <2>6 DEF Cpuid5Table
  <2> QED  BY <1>a, <2>4, <2>5, <2>7, Onward DEF Leads
<1>22. CASE pc = 22
  <2>1. Ins(<<"cpuid", 0, 0>>)
    BY <1>a, <1>22 DEF Ins, Cpuid5Code
  <2>2. /\ Stacked(19)
        /\ regs["edi"] = <<8250, 19722>>
        /\ regs["eax"] = <<16384, 0>>
    BY <1>a, <1>22 DEF Cpuid5Table
  <2>3. /\ Stepped /\ UNCHANGED <<stack, sf>> /\ DOMAIN regs' = Reg
        /\ \A r \in {"eax", "ebx", "ecx", "edx"} : regs'[r] = <<"cpuid", regs["eax"], r>>
        /\ regs'["esi"] = regs["esi"] /\ regs'["edi"] = regs["edi"]
    BY <2>1, DoCpuid
  <2>4. /\ pc' = 23 /\ stack' = stack /\ DOMAIN regs' = Reg /\ regs'["edi"] = <<8250, 19722>>
        /\ \A r \in {"eax", "ebx", "ecx", "edx"} : regs'[r] = <<"cpuid", <<16384, 0>>, r>>
    BY <1>a, <1>22, <2>2, <2>3 DEF Stepped, Reg
  <2>5. Stacked(19)'
    BY <2>2, <2>4, Keeping
  <2>6. Cpuid5Table'
    BY <2>4, <2>5 DEF Cpuid5Table
  <2> QED  BY <1>a, <2>3, <2>4, <2>6, Onward DEF Leads
<1>23. CASE pc = 23
  <2>1. Ins(<<"pushr", "edx", 0>>)
    BY <1>a, <1>23 DEF Ins, Cpuid5Code
  <2>2. /\ Stacked(19)
        /\ regs["edi"] = <<8250, 19722>>
        /\ \A r \in {"eax", "ebx", "ecx", "edx"} : regs[r] = <<"cpuid", <<16384, 0>>, r>>
    BY <1>a, <1>23 DEF Cpuid5Table
  <2>3. /\ Fine /\ how' = << >> /\ pc' = pc + 1 /\ regs' = regs
        /\ Len(stack') = Len(stack) + 1 /\ stack'[Len(stack) + 1] = regs["edx"]
        /\ \A j \in 1 .. Len(stack) : stack'[j] = stack[j]
    BY <2>1, PushRAt
  <2>4. regs["edx"] = Banner[23 - 19]
    <3>1. 23 - 19 = 4
      OBVIOUS
    <3>2. regs["edx"] = <<"cpuid", <<16384, 0>>, "edx">>
      BY <2>2
    <3>3. Banner[4] = <<"cpuid", <<16384, 0>>, "edx">>
      BY BannerIs
    <3> QED  BY <3>1, <3>2, <3>3
  <2>5. Stacked(20)'
    <3> DEFINE n == 19
    <3> DEFINE m == 20
    <3>1. n \in Nat /\ m = n + 1
      OBVIOUS
    <3>2. Stacked(n) /\ Len(stack') = Len(stack) + 1 /\ stack'[Len(stack) + 1] = Banner[23 - n]
      BY <2>2, <2>3, <2>4
    <3>3. Stacked(m)'
      <4> HIDE DEF n, m
      <4> QED  BY <2>2, <2>3, <3>1, <3>2, Stacking
    <3> QED  BY <3>3
  <2>6. pc' = 24
    BY <1>23, <2>3
  <2>7. Cpuid5Table'
    BY <2>2, <2>3, <2>5, <2>6 DEF Cpuid5Table
  <2> QED  BY <2>3, <2>7 DEF Leads
<1>24. CASE pc = 24
  <2>1. Ins(<<"pushr", "ecx", 0>>)
    BY <1>a, <1>24 DEF Ins, Cpuid5Code
  <2>2. /\ Stacked(20)
        /\ regs["edi"] = <<8250, 19722>>
        /\ \A r \in {"eax", "ebx", "ecx", "edx"} : regs[r] = <<"cpuid", <<16384, 0>>, r>>
    BY <1>a, <1>24 DEF Cpuid5Table
  <2>3. /\ Fine /\ how' = << >> /\ pc' = pc + 1 /\ regs' = regs
        /\ Len(stack') = Len(stack) + 1 /\ stack'[Len(stack) + 1] = regs["ecx"]
        /\ \A j \in 1 .. Len(stack) : stack'[j] = stack[j]
    BY <2>1, PushRAt
  <2>4. regs["ecx"] = Banner[23 - 20]
    <3>1. 23 - 20 = 3
      OBVIOUS
    <3>2. regs["ecx"] = <<"cpuid", <<16384, 0>>, "ecx">>
      BY <2>2
    <3>3. Banner[3] = <<"cpuid", <<16384, 0>>, "ecx">>
      BY BannerIs
    <3> QED  BY <3>1, <3>2, <3>3
  <2>5. Stacked(21)'
    <3> DEFINE n == 20
    <3> DEFINE m == 21
    <3>1. n \in Nat /\ m = n + 1
      OBVIOUS
    <3>2. Stacked(n) /\ Len(stack') = Len(stack) + 1 /\ stack'[Len(stack) + 1] = Banner[23 - n]
      BY <2>2, <2>3, <2>4
    <3>3. Stacked(m)'
      <4> HIDE DEF n, m
      <4> QED  BY <2>2, <2>3, <3>1, <3>2, Stacking
    <3> QED  BY <3>3
  <2>6. pc' = 25
    BY <1>24, <2>3
  <2>7. Cpuid5Table'
    BY <2>2, <2>3, <2>5, <2>6 DEF Cpuid5Table
  <2> QED  BY <2>3, <2>7 DEF Leads
<1>25. CASE pc = 25
  <2>1. Ins(<<"pushr", "ebx", 0>>)
    BY <1>a, <1>25 DEF Ins, Cpuid5Code
  <2>2. /\ Stacked(21)
        /\ regs["edi"] = <<8250, 19722>>
        /\ \A r \in {"eax", "ebx", "ecx", "edx"} : regs[r] = <<"cpuid", <<16384, 0>>, r>>
    BY <1>a, <1>25 DEF Cpuid5Table
  <2>3. /\ Fine /\ how' = << >> /\ pc' = pc + 1 /\ regs' = regs
        /\ Len(stack') = Len(stack) + 1 /\ stack'[Len(stack) + 1] = regs["ebx"]
        /\ \A j \in 1 .. Len(stack) : stack'[j] = stack[j]
    BY <2>1, PushRAt
  <2>4. regs["ebx"] = Banner[23 - 21]
    <3>1. 23 - 21 = 2
      OBVIOUS
    <3>2. regs["ebx"] = <<"cpuid", <<16384, 0>>, "ebx">>
      BY <2>2
    <3>3. Banner[2] = <<"cpuid", <<16384, 0>>, "ebx">>
      BY BannerIs
    <3> QED  BY <3>1, <3>2, <3>3
  <2>5. Stacked(22)'
    <3> DEFINE n == 21
    <3> DEFINE m == 22
    <3>1. n \in Nat /\ m = n + 1
      OBVIOUS
    <3>2. Stacked(n) /\ Len(stack') = Len(stack) + 1 /\ stack'[Len(stack) + 1] = Banner[23 - n]
      BY <2>2, <2>3, <2>4
    <3>3. Stacked(m)'
      <4> HIDE DEF n, m
      <4> QED  BY <2>2, <2>3, <3>1, <3>2, Stacking
    <3> QED  BY <3>3
  <2>6. pc' = 26
    BY <1>25, <2>3
  <2>7. Cpuid5Table'
    BY <2>2, <2>3, <2>5, <2>6 DEF Cpuid5Table
  <2> QED  BY <2>3, <2>7 DEF Leads
<1>26. CASE pc = 26
  <2>1. Ins(<<"li16", 22088, "edi">>)
    BY <1>a, <1>26 DEF Ins, Cpuid5Code
  <2>2. /\ Stacked(22)
        /\ regs["edi"] = <<8250, 19722>>
    BY <1>a, <1>26 DEF Cpuid5Table
  <2>3. regs["edi"][1] = 8250
    BY <2>2
  <2>4. /\ Stepped /\ UNCHANGED <<stack, sf>>
        /\ regs' = [regs EXCEPT !["edi"] = <<regs["edi"][1], 22088>>]
    BY <2>1, DoLi16
  <2>5. /\ pc' = 27 /\ stack' = stack /\ DOMAIN regs' = Reg /\ regs'["edi"] = <<8250, 22088>>
    BY <1>a, <1>26, <2>2, <2>3, <2>4 DEF Stepped, Reg
  <2>6. Stacked(22)'
    BY <2>2, <2>5, Keeping
  <2>7. Cpuid5Table'
    BY <2>5, <2>6 DEF Cpuid5Table
  <2> QED  BY <1>a, <2>4, <2>5, <2>7, Onward DEF Leads
<1>27. CASE pc = 27
  <2>1. Ins(<<"pushr", "edi", 0>>)
    BY <1>a, <1>27 DEF Ins, Cpuid5Code
  <2>2. /\ Stacked(22)
        /\ regs["edi"] = <<8250, 22088>>
    BY <1>a, <1>27 DEF Cpuid5Table
  <2>3. /\ Fine /\ how' = << >> /\ pc' = pc + 1 /\ regs' = regs
        /\ Len(stack') = Len(stack) + 1 /\ stack'[Len(stack) + 1] = regs["edi"]
        /\ \A j \in 1 .. Len(stack) : stack'[j] = stack[j]
    BY <2>1, PushRAt
  <2>4. regs["edi"] = Banner[23 - 22]
    <3>1. 23 - 22 = 1
      OBVIOUS
    <3>2. regs["edi"] = <<8250, 22088>>
      BY <2>2
    <3>3. Banner[1] = <<8250, 22088>>
      BY BannerIs
    <3> QED  BY <3>1, <3>2, <3>3
  <2>5. Stacked(23)'
    <3> DEFINE n == 22
    <3> DEFINE m == 23
    <3>1. n \in Nat /\ m = n + 1
      OBVIOUS
    <3>2. Stacked(n) /\ Len(stack') = Len(stack) + 1 /\ stack'[Len(stack) + 1] = Banner[23 - n]
      BY <2>2, <2>3, <2>4
    <3>3. Stacked(m)'
      <4> HIDE DEF n, m
      <4> QED  BY <2>2, <2>3, <3>1, <3>2, Stacking
    <3> QED  BY <3>3
  <2>6. pc' = 28
    BY <1>27, <2>3
  <2>7. Cpuid5Table'
    BY <2>2, <2>3, <2>5, <2>6 DEF Cpuid5Table
  <2> QED  BY <2>3, <2>7 DEF Leads
<1>28. CASE pc = 28
  <2>1. Ins(<<"sp", "ecx", 0>>)
    BY <1>a, <1>28 DEF Ins, Cpuid5Code
  <2>2. Stacked(23)
    BY <1>a, <1>28 DEF Cpuid5Table
  <2>3. Len(stack) = 23
    BY <2>2 DEF Stacked
  <2>4. /\ Stepped /\ UNCHANGED <<stack, sf>>
        /\ regs' = [regs EXCEPT !["ecx"] = <<"esp", Len(stack), 0>>]
    BY <2>1, DoSp
  <2>5. /\ pc' = 29 /\ stack' = stack /\ DOMAIN regs' = Reg /\ regs'["ecx"] = <<"esp", 23, 0>>
    BY <1>a, <1>28, <2>2, <2>3, <2>4 DEF Stepped, Reg
  <2>6. Stacked(23)'
    BY <2>2, <2>5, Keeping
  <2>7. Cpuid5Table'
    BY <2>5, <2>6 DEF Cpuid5Table
  <2> QED  BY <1>a, <2>4, <2>5, <2>7, Onward DEF Leads
<1>29. CASE pc = 29
  <2>1. Ins(<<"push", W(4), 0>>)
    BY <1>a, <1>29 DEF Ins, Cpuid5Code
  <2>2. /\ Stacked(23)
        /\ regs["ecx"] = <<"esp", 23, 0>>
    BY <1>a, <1>29 DEF Cpuid5Table
  <2>3. /\ Fine /\ how' = << >> /\ pc' = pc + 1 /\ regs' = regs
        /\ Len(stack') = Len(stack) + 1 /\ stack'[Len(stack) + 1] = W(4)
        /\ \A j \in 1 .. Len(stack) : stack'[j] = stack[j]
    BY <2>1, PushAt
  <2>4. Len(stack) = 23 /\ Built(23)
    BY <2>2 DEF Stacked
  <2>5. pc' = 30 /\ Len(stack') = 24 /\ stack'[24] = W(4) /\ \A j \in 1 .. 23 : stack'[j] = stack[j]
    BY <1>29, <2>3, <2>4
  <2>6. Built(23)'
    BY <2>4, <2>5, BuiltOn
  <2>7. regs'["ecx"] = <<"esp", 23, 0>>
    BY <2>2, <2>3
  <2>8. Cpuid5Table'
    BY <2>5, <2>6, <2>7 DEF Cpuid5Table
  <2> QED  BY <2>3, <2>8 DEF Leads
<1>30. CASE pc = 30
  <2>1. Ins(<<"pop", "eax", 0>>)
    BY <1>a, <1>30 DEF Ins, Cpuid5Code
  <2>2. /\ Len(stack) = 24
        /\ Built(23)
        /\ stack[24] = W(4)
        /\ regs["ecx"] = <<"esp", 23, 0>>
    BY <1>a, <1>30 DEF Cpuid5Table
  <2>3. /\ Fine /\ how' = << >> /\ pc' = pc + 1
        /\ Len(stack') = Len(stack) - 1 /\ regs' = [regs EXCEPT !["eax"] = stack[Len(stack)]]
        /\ \A j \in 1 .. Len(stack) - 1 : stack'[j] = stack[j]
    BY <2>1, <2>2, PopAt, SMTT(30)
  <2>4. pc' = 31 /\ Len(stack') = 23 /\ \A j \in 1 .. 23 : stack'[j] = stack[j]
    BY <1>30, <2>2, <2>3
  <2>5. /\ regs'["ecx"] = <<"esp", 23, 0>>
        /\ regs'["eax"] = W(4)
    BY <1>a, <2>2, <2>3 DEF Reg
  <2>6. Stacked(23)'
    <3>1. Built(23)'
      BY <2>2, <2>4, BuiltOn
    <3> QED  BY <2>4, <3>1 DEF Stacked
  <2>7. Cpuid5Table'
    BY <2>4, <2>5, <2>6 DEF Cpuid5Table
  <2> QED  BY <2>3, <2>7 DEF Leads
<1>31. CASE pc = 31
  <2>1. Ins(<<"push", W(1), 0>>)
    BY <1>a, <1>31 DEF Ins, Cpuid5Code
  <2>2. /\ Stacked(23)
        /\ regs["ecx"] = <<"esp", 23, 0>>
        /\ regs["eax"] = W(4)
    BY <1>a, <1>31 DEF Cpuid5Table
  <2>3. /\ Fine /\ how' = << >> /\ pc' = pc + 1 /\ regs' = regs
        /\ Len(stack') = Len(stack) + 1 /\ stack'[Len(stack) + 1] = W(1)
        /\ \A j \in 1 .. Len(stack) : stack'[j] = stack[j]
    BY <2>1, PushAt
  <2>4. Len(stack) = 23 /\ Built(23)
    BY <2>2 DEF Stacked
  <2>5. pc' = 32 /\ Len(stack') = 24 /\ stack'[24] = W(1) /\ \A j \in 1 .. 23 : stack'[j] = stack[j]
    BY <1>31, <2>3, <2>4
  <2>6. Built(23)'
    BY <2>4, <2>5, BuiltOn
  <2>7. /\ regs'["ecx"] = <<"esp", 23, 0>>
        /\ regs'["eax"] = W(4)
    BY <2>2, <2>3
  <2>8. Cpuid5Table'
    BY <2>5, <2>6, <2>7 DEF Cpuid5Table
  <2> QED  BY <2>3, <2>8 DEF Leads
<1>32. CASE pc = 32
  <2>1. Ins(<<"pop", "ebx", 0>>)
    BY <1>a, <1>32 DEF Ins, Cpuid5Code
  <2>2. /\ Len(stack) = 24
        /\ Built(23)
        /\ stack[24] = W(1)
        /\ regs["ecx"] = <<"esp", 23, 0>>
        /\ regs["eax"] = W(4)
    BY <1>a, <1>32 DEF Cpuid5Table
  <2>3. /\ Fine /\ how' = << >> /\ pc' = pc + 1
        /\ Len(stack') = Len(stack) - 1 /\ regs' = [regs EXCEPT !["ebx"] = stack[Len(stack)]]
        /\ \A j \in 1 .. Len(stack) - 1 : stack'[j] = stack[j]
    BY <2>1, <2>2, PopAt, SMTT(30)
  <2>4. pc' = 33 /\ Len(stack') = 23 /\ \A j \in 1 .. 23 : stack'[j] = stack[j]
    BY <1>32, <2>2, <2>3
  <2>5. /\ regs'["ecx"] = <<"esp", 23, 0>>
        /\ regs'["eax"] = W(4)
        /\ regs'["ebx"] = W(1)
    BY <1>a, <2>2, <2>3 DEF Reg
  <2>6. Stacked(23)'
    <3>1. Built(23)'
      BY <2>2, <2>4, BuiltOn
    <3> QED  BY <2>4, <3>1 DEF Stacked
  <2>7. Cpuid5Table'
    BY <2>4, <2>5, <2>6 DEF Cpuid5Table
  <2> QED  BY <2>3, <2>7 DEF Leads
<1>33. CASE pc = 33
  <2>1. Ins(<<"push", W(85), 0>>)
    BY <1>a, <1>33 DEF Ins, Cpuid5Code
  <2>2. /\ Stacked(23)
        /\ regs["ecx"] = <<"esp", 23, 0>>
        /\ regs["eax"] = W(4)
        /\ regs["ebx"] = W(1)
    BY <1>a, <1>33 DEF Cpuid5Table
  <2>3. /\ Fine /\ how' = << >> /\ pc' = pc + 1 /\ regs' = regs
        /\ Len(stack') = Len(stack) + 1 /\ stack'[Len(stack) + 1] = W(85)
        /\ \A j \in 1 .. Len(stack) : stack'[j] = stack[j]
    BY <2>1, PushAt
  <2>4. Len(stack) = 23 /\ Built(23)
    BY <2>2 DEF Stacked
  <2>5. /\ pc' = 34 /\ Len(stack') = 24 /\ stack'[24] = W(85)
        /\ \A j \in 1 .. 23 : stack'[j] = stack[j]
    BY <1>33, <2>3, <2>4
  <2>6. Built(23)'
    BY <2>4, <2>5, BuiltOn
  <2>7. /\ regs'["ecx"] = <<"esp", 23, 0>>
        /\ regs'["eax"] = W(4)
        /\ regs'["ebx"] = W(1)
    BY <2>2, <2>3
  <2>8. Cpuid5Table'
    BY <2>5, <2>6, <2>7 DEF Cpuid5Table
  <2> QED  BY <2>3, <2>8 DEF Leads
<1>34. CASE pc = 34
  <2>1. Ins(<<"pop", "edx", 0>>)
    BY <1>a, <1>34 DEF Ins, Cpuid5Code
  <2>2. /\ Len(stack) = 24
        /\ Built(23)
        /\ stack[24] = W(85)
        /\ regs["ecx"] = <<"esp", 23, 0>>
        /\ regs["eax"] = W(4)
        /\ regs["ebx"] = W(1)
    BY <1>a, <1>34 DEF Cpuid5Table
  <2>3. /\ Fine /\ how' = << >> /\ pc' = pc + 1
        /\ Len(stack') = Len(stack) - 1 /\ regs' = [regs EXCEPT !["edx"] = stack[Len(stack)]]
        /\ \A j \in 1 .. Len(stack) - 1 : stack'[j] = stack[j]
    BY <2>1, <2>2, PopAt, SMTT(30)
  <2>4. pc' = 35 /\ Len(stack') = 23 /\ \A j \in 1 .. 23 : stack'[j] = stack[j]
    BY <1>34, <2>2, <2>3
  <2>5. /\ regs'["ecx"] = <<"esp", 23, 0>>
        /\ regs'["eax"] = W(4)
        /\ regs'["ebx"] = W(1)
        /\ regs'["edx"] = W(85)
    BY <1>a, <2>2, <2>3 DEF Reg
  <2>6. Stacked(23)'
    <3>1. Built(23)'
      BY <2>2, <2>4, BuiltOn
    <3> QED  BY <2>4, <3>1 DEF Stacked
  <2>7. Cpuid5Table'
    BY <2>4, <2>5, <2>6 DEF Cpuid5Table
  <2> QED  BY <2>3, <2>7 DEF Leads
<1>35. CASE pc = 35
  <2>1. Ins(SYSCALL)
    BY <1>a, <1>35 DEF Ins, Cpuid5Code
  <2>2. /\ Stacked(23) /\ regs[ARG(arch, 1)] = W(1) /\ regs[ARG(arch, 2)] = <<"esp", 23, 0>>
        /\ regs[ARG(arch, 3)] = W(85) /\ regs["eax"] = NR_write(arch)
    BY <1>a, <1>35 DEF Cpuid5Table, ARG, NR_write
  <2> DEFINE e == 23
  <2> DEFINE m == 22
  <2> DEFINE n == 85
  <2>3. Words(e, m) = Banner /\ \A j \in 1 .. m : Words(e, m)[j] # Junk("stack")
    BY <2>2, BannerWords DEF Stacked
  <2>4. ASSUME NEW r, r.what = Words(e, m), r.n = n  PROVE Ids(r)
    BY <2>3, <2>4 DEF Ids
  <2>5. m = (n + 3) \div 4
    OBVIOUS
  <2>6. regs[ARG(arch, 2)] = <<"esp", e, 0>> /\ regs[ARG(arch, 3)] = W(n)
    BY <2>2
  <2> HIDE DEF e, m, n
  <2>7. /\ Fine /\ how' = << >> /\ pc' = pc + 1
        /\ \A r \in Reg \ ({"eax"} \cup Lost) : regs'[r] = regs[r]
    BY <2>1, <2>2, <2>3, <2>4, <2>5, <2>6, SaysWords
  <2>8. pc' = 36 /\ regs'["ebx"] = W(1)
    BY <1>35, <2>2, <2>7 DEF Reg, Lost, ARG
  <2>9. Cpuid5Table'
    BY <2>8 DEF Cpuid5Table
  <2> QED  BY <2>7, <2>9 DEF Leads
<1>36. CASE pc = 36
  <2>1. Ins(<<"xchg", "ebx", "eax">>)
    BY <1>a, <1>36 DEF Ins, Cpuid5Code
  <2>2. regs["ebx"] = W(1)
    BY <1>a, <1>36 DEF Cpuid5Table
  <2>3. /\ Stepped /\ UNCHANGED <<stack, sf>>
        /\ regs' = [regs EXCEPT !["ebx"] = regs["eax"], !["eax"] = regs["ebx"]]
    BY <2>1, DoXchg
  <2>4. /\ pc' = 37 /\ DOMAIN regs' = Reg /\ regs'["eax"] = W(1)
    BY <1>a, <1>36, <2>2, <2>3 DEF Stepped, Reg, W
  <2>5. Cpuid5Table'
    BY <2>4 DEF Cpuid5Table
  <2> QED  BY <1>a, <2>3, <2>4, <2>5, Onward DEF Leads
<1>37. CASE pc = 37
  <2>1. Ins(<<"xor", "ebx", 0>>)
    BY <1>a, <1>37 DEF Ins, Cpuid5Code
  <2>2. regs["eax"] = W(1)
    BY <1>a, <1>37 DEF Cpuid5Table
  <2>3. Stepped /\ UNCHANGED <<stack, sf>> /\ regs' = [regs EXCEPT !["ebx"] = W(0)]
    BY <2>1, DoXor
  <2>4. /\ pc' = 38 /\ DOMAIN regs' = Reg /\ regs'["eax"] = W(1) /\ regs'["ebx"] = W(0)
    BY <1>a, <1>37, <2>2, <2>3 DEF Stepped, Reg, W
  <2>5. Cpuid5Table'
    BY <2>4 DEF Cpuid5Table
  <2> QED  BY <1>a, <2>3, <2>4, <2>5, Onward DEF Leads
<1>38. CASE pc = 38
  <2>1. Ins(SYSCALL)
    BY <1>a, <1>38 DEF Ins, Cpuid5Code
  <2>2. regs["eax"] = NR_exit(arch) /\ regs[ARG(arch, 1)] = W(0)
    BY <1>a, <1>38 DEF Cpuid5Table, NR_exit, ARG
  <2>3. /\ how' = <<"exit", regs[ARG(arch, 1)]>>
        /\ UNCHANGED <<prog, text, vm, arch, code, entry, pc, regs, stack, sf, out>>
    BY <2>1, <2>2, DoExit
  <2>4. how' = <<"exit", W(0)>> /\ Same /\ Quiet /\ UNCHANGED stack /\ DOMAIN regs' = Reg
    BY <1>a, <2>2, <2>3 DEF Same, Quiet
  <2>5. Fine /\ Ending
    BY <2>4, Leaving
  <2> QED  BY <2>5 DEF Leads
<1>d. pc \in {1, 2, 3, 4, 5, 6, 7, 8, 9, 10, 11, 12, 13, 14, 15, 16, 17, 18, 19,
             20, 21, 22, 23, 24, 25, 26, 27, 28, 29, 30, 31, 32, 33, 34, 35, 36, 37, 38}
  BY <1>a DEF Cpuid5Table
<1> QED  BY <1>d, <1>1, <1>2, <1>3, <1>9, <1>10, <1>11, <1>12, <1>13, <1>14, <1>15, <1>16,
       <1>17, <1>18, <1>19, <1>20, <1>21, <1>22, <1>23, <1>24, <1>25, <1>26, <1>27, <1>28,
       <1>29, <1>30, <1>31, <1>32, <1>33, <1>34, <1>35, <1>36, <1>37, <1>38

-----------------------------------------------------------------------------
(* The programs together: what holds of one while it runs.                 *)

Running ==
  /\ prog = "MAIN"          => TwoTable(1, hello, 13)
  /\ prog = "clang_main"    => TwoTable(2, hello, mystrlen(hello))
  /\ prog = "exit_nonzero"  => NonzeroTable
  /\ prog = "exit_zero"     => ZeroTable
  /\ prog = "exit_dontcare" => DontcareTable
  /\ prog = "end_process"   => pc = 1
  /\ prog = "stderr_write"  => \A s \in {text} : OneTable(2, s, mystrlen(s))
  /\ prog = "puts_inline"   => \A s \in {text} : OneTable(1, Line(s), DBG_LEN(s))
  /\ prog = "dbg_inline"    => \A s \in {text} : OneTable(2, Line(s), DBG_LEN(s))
  /\ prog = "clang_zero"    => ClangZeroTable
  /\ prog = "M2write"       => \A s \in {text} : M2Table(s)
  /\ prog = "isvm"          => IsvmTable
  /\ prog = "cpuid"         => CpuidTable
  /\ prog = "cpuid2"        => AskTable(W(0), "ecx", "edx")
  /\ prog = "cpuid3"        => AskTable(<<16384, 0>>, "edx", "ecx")
  /\ prog = "cpuid4"        => Cpuid4Table(<<32768, 2>>)
  /\ prog = "cpuid5"        => Cpuid5Table
  /\ prog = "cpuid6"        => Cpuid6Table
  /\ prog = "dbg2"          => \A s \in {text} : Dbg2Table(s)
  /\ prog = "dbg3"          => \A s \in {text} : Dbg3Table(s)
  /\ prog = "dbg4"          => \A s \in {text} : Dbg4Table(s)
  /\ prog = "sputs"         => \A s \in {text} : SputsTable(s)
  /\ prog = "abort"         => Dbg2Table(aborted)

\* What each program is made of.
LEMMA CodeIs ==
  ASSUME Given
  PROVE  /\ prog = "MAIN" => code = write(arch, 1, Str(hello), 13) \o exit_syscall(arch, 0)
         /\ prog = "clang_main" =>
              code = write(arch, 2, Str(hello), mystrlen(hello)) \o exit_syscall(arch, 0)
         /\ prog = "exit_nonzero"  => code = exit_nonzero(arch)
         /\ prog = "exit_zero"     => code = exit_zero_syscall(arch)
         /\ prog = "exit_dontcare" => code = exit_dontcare_syscall(arch)
         /\ prog = "end_process"   => code = end_process
         /\ prog = "stderr_write"  => code = write(arch, 2, Str(text), mystrlen(text))
         /\ prog = "puts_inline"   => code = write(arch, 1, Str(Line(text)), DBG_LEN(text))
         /\ prog = "dbg_inline"    => code = write(arch, 2, Str(Line(text)), DBG_LEN(text))
         /\ prog = "clang_zero"    => code = clang_exit_zero
         /\ prog = "M2write"       => code = M2write(1, Str(text), mystrlen(text))
         /\ prog = "isvm"          => code = isvm
         /\ prog = "cpuid5"        => code = cpuid5
         /\ prog = "dbg2"          => code = dbg2(text)
         /\ prog = "dbg3"          => code = dbg3(text)
         /\ prog = "dbg4"          => code = dbg4(text)
         /\ prog = "sputs"         => code = sputs(text)
         /\ prog = "abort"         => code = abort
<1>1. code = Code(prog, arch, text)
  BY DEF Given
<1>2. prog = "MAIN" => code = write(arch, 1, Str(hello), 13) \o exit_syscall(arch, 0)
  BY <1>1 DEF Code, MAIN, exit_wrap
<1>3. prog = "clang_main" => code = write(arch, 2, Str(hello), mystrlen(hello)) \o exit_syscall(arch, 0)
  BY <1>1 DEF Code, clang_main, exit_zero, exit_wrap
<1>4. prog = "exit_nonzero" => code = exit_nonzero(arch)
  BY <1>1 DEF Code
<1>5. prog = "exit_zero" => code = exit_zero_syscall(arch)
  BY <1>1 DEF Code
<1>6. prog = "exit_dontcare" => code = exit_dontcare_syscall(arch)
  BY <1>1 DEF Code
<1>7. prog = "end_process" => code = end_process
  BY <1>1 DEF Code
<1>8. prog = "stderr_write" => code = write(arch, 2, Str(text), mystrlen(text))
  BY <1>1 DEF Code, stderr_write
<1>9. prog = "puts_inline" => code = write(arch, 1, Str(Line(text)), DBG_LEN(text))
  BY <1>1 DEF Code, inline
<1>10. prog = "dbg_inline" => code = write(arch, 2, Str(Line(text)), DBG_LEN(text))
  BY <1>1 DEF Code, inline
<1>11. prog = "clang_zero" => code = clang_exit_zero
  BY <1>1 DEF Code
<1>12. prog = "M2write" => code = M2write(1, Str(text), mystrlen(text))
  BY <1>1 DEF Code
<1>13. prog = "isvm" => code = isvm
  BY <1>1 DEF Code
<1>14. prog = "cpuid5" => code = cpuid5
  BY <1>1 DEF Code
<1>15. prog = "dbg2" => code = dbg2(text)
  BY <1>1 DEF Code
<1>16. prog = "dbg3" => code = dbg3(text)
  BY <1>1 DEF Code
<1>17. prog = "dbg4" => code = dbg4(text)
  BY <1>1 DEF Code
<1>18. prog = "sputs" => code = sputs(text)
  BY <1>1 DEF Code
<1>19. prog = "abort" => code = abort
  BY <1>1 DEF Code
<1> QED
  BY <1>2, <1>3, <1>4, <1>5, <1>6, <1>7, <1>8, <1>9, <1>10, <1>11, <1>12, <1>13, <1>14, <1>15,
     <1>16, <1>17, <1>18, <1>19

\* abort is dbg2 with an instruction behind it that ends the process.
LEMMA AbortCode ==
  ASSUME code = abort
  PROVE  Dbg2Code(aborted) /\ Len(code) = 10 /\ code[10] = hlt
<1> DEFINE c == dbg2(aborted)
<1> DEFINE e == <<hlt>>
<1>1. /\ Anys(c) /\ Len(c) = 9
      /\ c[1] = <<"push", W(2), 0>> /\ c[2] = <<"push", W(DBG_LEN(aborted)), 0>>
      /\ c[3] = <<"push", Str(Line(aborted)), 0>> /\ c[4] = <<"push", W(4), 0>>
      /\ c[5] = <<"pop", "eax", 0>> /\ c[6] = <<"pop", "ecx", 0>>
      /\ c[7] = <<"pop", "edx", 0>> /\ c[8] = <<"pop", "ebx", 0>> /\ c[9] = SYSCALL
  BY Dbg2Instrs
<1>2. Anys(e) /\ Len(e) = 1 /\ e[1] = hlt
  BY Literals
<1>3. code = c \o e
  BY DEF abort, aborted
<1> HIDE DEF c, e
<1>4. /\ Len(code) = Len(c) + Len(e)
      /\ \A k \in 1 .. Len(c) : code[k] = c[k]
      /\ \A k \in 1 .. Len(e) : code[Len(c) + k] = e[k]
  <2>1. Anys(c) /\ Anys(e)
    BY <1>1, <1>2
  <2> QED  BY <1>3, <2>1, Joined
<1>5. /\ Len(code) = 10 /\ code[10] = e[1] /\ code[1] = c[1] /\ code[2] = c[2]
      /\ code[3] = c[3] /\ code[4] = c[4] /\ code[5] = c[5] /\ code[6] = c[6]
      /\ code[7] = c[7] /\ code[8] = c[8] /\ code[9] = c[9]
  <2>1. Len(c) = 9 /\ Len(e) = 1
    BY <1>1, <1>2
  <2> QED  BY <1>4, <2>1
<1> QED  BY <1>1, <1>2, <1>5 DEF Dbg2Code

LEMMA Dbg2CodeIs ==
  ASSUME NEW s, code = dbg2(s)
  PROVE  Dbg2Code(s) /\ Len(code) = 9
<1>1. /\ Len(code) = 9
      /\ code[1] = <<"push", W(2), 0>> /\ code[2] = <<"push", W(DBG_LEN(s)), 0>>
      /\ code[3] = <<"push", Str(Line(s)), 0>> /\ code[4] = <<"push", W(4), 0>>
      /\ code[5] = <<"pop", "eax", 0>> /\ code[6] = <<"pop", "ecx", 0>>
      /\ code[7] = <<"pop", "edx", 0>> /\ code[8] = <<"pop", "ebx", 0>> /\ code[9] = SYSCALL
  BY Dbg2Instrs
<1>2. Len(code) >= 9
  BY <1>1
<1> QED  BY <1>1, <1>2 DEF Dbg2Code

\* Every program starts as its table says.
LEMMA Starting ==
  ASSUME Init
  PROVE  Running
<1>1. /\ pc = 1 /\ stack[1] = Junk("stack") /\ Len(stack) = 1 /\ regs = entry
  BY DEF Init
<1> USE <1>1
<1>2. \A fd, s, n : OneTable(fd, s, n) /\ TwoTable(fd, s, n)
  BY DEF OneTable, TwoTable, Bare, Spared, Writing, Exiting
<1>3. NonzeroTable /\ ZeroTable /\ DontcareTable /\ ClangZeroTable
  BY DEF NonzeroTable, ZeroTable, DontcareTable, ClangZeroTable
<1>4. \A s : M2Table(s) /\ Dbg2Table(s) /\ Dbg3Table(s) /\ Dbg4Table(s)
  BY DEF M2Table, Dbg2Table, Dbg3Table, Dbg4Table
<1>5. \A s : SputsTable(s)
  BY DEF SputsTable, Bare, Spared, Writing
<1>6. IsvmTable /\ CpuidTable /\ Cpuid6Table /\ Cpuid5Table
  BY DEF IsvmTable, CpuidTable, Cpuid6Table, Cpuid5Table
<1>7. \A v, q1, q2 : AskTable(v, q1, q2) /\ Cpuid4Table(v)
  BY DEF AskTable, Cpuid4Table
<1> QED  BY <1>2, <1>3, <1>4, <1>5, <1>6, <1>7 DEF Running

\* A step of a running program: it ends as it should, or goes on as its table says.
LEMMA Stepping ==
  ASSUME Frame, prog \in Portable \cup Snippets, how = << >>, Running, Next
  PROVE  Leads(Running')
<1>1. Given /\ arch \in {"i386", "amd64"} /\ (prog \in Portable \/ arch = "i386")
  BY DEF Frame, Given
<1>2. PICK s : s = text
  OBVIOUS
<1>3. Terminated(s)
  BY <1>1, <1>2, TextsAssumption DEF Given
<1>4. mystrlen(s) \in Nat /\ mystrlen(s) \in 0 .. mystrlen(s)
  BY <1>3, Strlen
<1>5. CASE prog = "MAIN"
  <2>1. code = write(arch, 1, Str(hello), 13) \o exit_syscall(arch, 0)
    BY <1>1, <1>5, CodeIs
  <2>2. Sound(hello, 13) /\ TwoTable(1, hello, 13)
    BY <1>5, SoundHello DEF Running
  <2>3. Leads(TwoTable(1, hello, 13)')
    BY <2>1, <2>2, <1>5, WriteExit
  <2> QED  BY <2>3, <1>5 DEF Leads, Fine, Same, Running
<1>6. CASE prog = "clang_main"
  <2> DEFINE n == mystrlen(hello)
  <2>1. code = write(arch, 2, Str(hello), n) \o exit_syscall(arch, 0)
    BY <1>1, <1>6, CodeIs
  <2>2. TwoTable(2, hello, n)
    BY <1>6 DEF Running
  <2>3. Sound(hello, n)
    <3>1. n \in 0 .. mystrlen(hello) /\ Terminated(hello)
      BY HelloIs
    <3> HIDE DEF n
    <3> QED  BY <3>1, <1>6, SoundPrefix DEF Pasted
  <2>4. Leads(TwoTable(2, hello, n)')
    <3> HIDE DEF n
    <3> QED  BY <2>1, <2>2, <2>3, <1>6, WriteExit
  <2> QED  BY <2>4, <1>6 DEF Leads, Fine, Same, Running
<1>7. CASE prog = "exit_nonzero"
  <2>1. code = exit_nonzero(arch) /\ NonzeroTable
    BY <1>1, <1>7, CodeIs DEF Running
  <2>2. Leads(NonzeroTable')
    BY <1>1, <2>1, <1>7, NonzeroStep
  <2> QED  BY <2>2, <1>7 DEF Leads, Fine, Same, Running
<1>8. CASE prog = "exit_zero"
  <2>1. code = exit_zero_syscall(arch) /\ ZeroTable
    BY <1>1, <1>8, CodeIs DEF Running
  <2>2. Leads(ZeroTable')
    BY <1>1, <2>1, <1>8, ZeroStep
  <2> QED  BY <2>2, <1>8 DEF Leads, Fine, Same, Running
<1>9. CASE prog = "exit_dontcare"
  <2>1. code = exit_dontcare_syscall(arch) /\ DontcareTable
    BY <1>1, <1>9, CodeIs DEF Running
  <2>2. Leads(DontcareTable')
    BY <1>1, <2>1, <1>9, DontcareStep
  <2> QED  BY <2>2, <1>9 DEF Leads, Fine, Same, Running
<1>10. CASE prog = "end_process"
  <2>1. code = end_process /\ pc = 1
    BY <1>1, <1>10, CodeIs DEF Running
  <2>2. Fine /\ Ending
    BY <2>1, EndStep
  <2> QED  BY <2>2, <1>10 DEF Leads, Fine, Same, Running
<1>11. CASE prog = "stderr_write"
  <2> DEFINE b == s
  <2> DEFINE n == mystrlen(s)
  <2>1. code = write(arch, 2, Str(b), n) /\ OneTable(2, b, n)
    BY <1>1, <1>2, <1>11, CodeIs DEF Running
  <2>2. Sound(b, n)
    BY <1>2, <1>3, <1>4, <1>11, SoundPrefix DEF Pasted
  <2>3. Leads(OneTable(2, b, n)')
    <3> HIDE DEF b, n
    <3> QED  BY <2>1, <2>2, <1>11, OneWrite
  <2> QED  BY <2>3, <1>2, <1>11 DEF Leads, Fine, Same, Running
<1>12. CASE prog = "puts_inline"
  <2> DEFINE b == Line(s)
  <2> DEFINE n == DBG_LEN(s)
  <2>1. code = write(arch, 1, Str(b), n) /\ OneTable(1, b, n)
    BY <1>1, <1>2, <1>12, CodeIs DEF Running
  <2>2. Sound(b, n)
    BY <1>2, <1>3, <1>4, <1>12, SoundLine DEF Pasted
  <2>3. Leads(OneTable(1, b, n)')
    <3> HIDE DEF b, n
    <3> QED  BY <2>1, <2>2, <1>12, OneWrite
  <2> QED  BY <2>3, <1>2, <1>12 DEF Leads, Fine, Same, Running
<1>13. CASE prog = "dbg_inline"
  <2> DEFINE b == Line(s)
  <2> DEFINE n == DBG_LEN(s)
  <2>1. code = write(arch, 2, Str(b), n) /\ OneTable(2, b, n)
    BY <1>1, <1>2, <1>13, CodeIs DEF Running
  <2>2. Sound(b, n)
    BY <1>2, <1>3, <1>4, <1>13, SoundLine DEF Pasted
  <2>3. Leads(OneTable(2, b, n)')
    <3> HIDE DEF b, n
    <3> QED  BY <2>1, <2>2, <1>13, OneWrite
  <2> QED  BY <2>3, <1>2, <1>13 DEF Leads, Fine, Same, Running
<1>14. CASE prog = "clang_zero"
  <2>1. arch = "i386"
    BY <1>1, <1>14 DEF Portable
  <2>2. code = clang_exit_zero /\ ClangZeroTable
    BY <1>1, <1>14, CodeIs DEF Running
  <2>3. Leads(ClangZeroTable')
    BY <2>1, <2>2, <1>14, ClangZeroStep
  <2> QED  BY <2>3, <1>14 DEF Leads, Fine, Same, Running
<1>15. CASE prog = "M2write"
  <2>1. arch = "i386"
    BY <1>1, <1>15 DEF Portable
  <2>2. code = M2write(1, Str(s), mystrlen(s)) /\ M2Table(s)
    BY <1>1, <1>2, <1>15, CodeIs DEF Running
  <2>3. M2Code(s)
    BY <2>2, M2CodeIs
  <2>4. Leads(M2Table(s)')
    BY <1>3, <2>1, <2>2, <2>3, <1>15, M2Step
  <2> QED  BY <2>4, <1>2, <1>15 DEF Leads, Fine, Same, Running
<1>16. CASE prog = "isvm"
  <2>1. arch = "i386"
    BY <1>1, <1>16 DEF Portable
  <2>2. code = isvm /\ IsvmTable
    BY <1>1, <1>16, CodeIs DEF Running
  <2>3. IsvmCode
    BY <2>2, IsvmCodeIs
  <2>4. Leads(IsvmTable')
    BY <2>1, <2>2, <2>3, <1>16, IsvmStep
  <2> QED  BY <2>4, <1>16 DEF Leads, Fine, Same, Running
<1>17. CASE prog = "cpuid"
  <2>1. arch = "i386"
    BY <1>1, <1>17 DEF Portable
  <2>2. code = Code("cpuid", "i386", text) /\ CpuidTable
    BY <1>1, <2>1, <1>17 DEF Given, Running
  <2>3. CpuidCode
    BY <2>2, CpuidIs
  <2>4. Len(code) \in Nat
    BY <2>3 DEF CpuidCode
  <2>5. Leads(CpuidTable')
    BY <2>1, <2>2, <2>3, <2>4, <1>17, CpuidStep
  <2> QED  BY <2>5, <1>17 DEF Leads, Fine, Same, Running
<1>18. CASE prog = "cpuid2"
  <2>1. arch = "i386"
    BY <1>1, <1>18 DEF Portable
  <2> DEFINE v == W(0)
  <2>2. code = Code("cpuid2", "i386", text) /\ AskTable(v, "ecx", "edx")
    BY <1>1, <2>1, <1>18 DEF Given, Running
  <2>3. AskCode(v, "ecx", "edx")
    BY <2>2, Cpuid2Is
  <2>4. Len(code) \in Nat
    BY <2>3 DEF AskCode
  <2>5. prog = "cpuid2" /\ v = W(0)
    BY <1>18
  <2>6. "ecx" \in {"eax", "ebx", "ecx", "edx"} /\ "edx" \in {"eax", "ebx", "ecx", "edx"}
    OBVIOUS
  <2>7. Leads(AskTable(v, "ecx", "edx")')
    <3> HIDE DEF v
    <3> QED  BY <2>1, <2>2, <2>3, <2>4, <2>5, <2>6, AskStep
  <2> QED  BY <2>7, <1>18 DEF Leads, Fine, Same, Running
<1>19. CASE prog = "cpuid3"
  <2>1. arch = "i386"
    BY <1>1, <1>19 DEF Portable
  <2> DEFINE v == <<16384, 0>>
  <2>2. code = Code("cpuid3", "i386", text) /\ AskTable(v, "edx", "ecx")
    BY <1>1, <2>1, <1>19 DEF Given, Running
  <2>3. AskCode(v, "edx", "ecx")
    BY <2>2, Cpuid3Is
  <2>4. Len(code) \in Nat
    BY <2>3 DEF AskCode
  <2>5. prog = "cpuid3" /\ v = <<16384, 0>>
    BY <1>19
  <2>6. "ecx" \in {"eax", "ebx", "ecx", "edx"} /\ "edx" \in {"eax", "ebx", "ecx", "edx"}
    OBVIOUS
  <2>7. Leads(AskTable(v, "edx", "ecx")')
    <3> HIDE DEF v
    <3> QED  BY <2>1, <2>2, <2>3, <2>4, <2>5, <2>6, AskStep
  <2> QED  BY <2>7, <1>19 DEF Leads, Fine, Same, Running
<1>20. CASE prog = "cpuid4"
  <2>1. arch = "i386"
    BY <1>1, <1>20 DEF Portable
  <2> DEFINE v == <<32768, 2>>
  <2>2. code = Code("cpuid4", "i386", text) /\ Cpuid4Table(v)
    BY <1>1, <2>1, <1>20 DEF Given, Running
  <2>3. Cpuid4Code(v)
    BY <2>2, Cpuid4Is
  <2>4. Len(code) \in Nat /\ v = <<32768, 2>>
    BY <2>3 DEF Cpuid4Code
  <2>5. Leads(Cpuid4Table(v)')
    <3> HIDE DEF v
    <3> QED  BY <2>1, <2>2, <2>3, <2>4, <1>20, Cpuid4Step
  <2> QED  BY <2>5, <1>20 DEF Leads, Fine, Same, Running
<1>21. CASE prog = "cpuid5"
  <2>1. arch = "i386"
    BY <1>1, <1>21 DEF Portable
  <2>2. code = cpuid5 /\ Cpuid5Table
    BY <1>1, <1>21, CodeIs DEF Running
  <2>3. Cpuid5Code
    BY <2>2, Cpuid5Is
  <2>4. Leads(Cpuid5Table')
    BY <2>1, <2>2, <2>3, <1>21, Cpuid5Step
  <2> QED  BY <2>4, <1>21 DEF Leads, Fine, Same, Running
<1>22. CASE prog = "cpuid6"
  <2>1. arch = "i386"
    BY <1>1, <1>22 DEF Portable
  <2>2. code = Code("cpuid6", "i386", text) /\ Cpuid6Table
    BY <1>1, <2>1, <1>22 DEF Given, Running
  <2>3. Cpuid6Code
    BY <2>2, Cpuid6Is
  <2>4. Len(code) \in Nat
    BY <2>3 DEF Cpuid6Code
  <2>5. Leads(Cpuid6Table')
    BY <2>1, <2>2, <2>3, <2>4, <1>22, Cpuid6Step
  <2> QED  BY <2>5, <1>22 DEF Leads, Fine, Same, Running
<1>23. CASE prog = "dbg2"
  <2>1. arch = "i386"
    BY <1>1, <1>23 DEF Portable
  <2>2. code = dbg2(s) /\ Dbg2Table(s)
    BY <1>1, <1>2, <1>23, CodeIs DEF Running
  <2>3. Dbg2Code(s) /\ Len(code) = 9
    BY <2>2, Dbg2CodeIs
  <2>4. Len(code) \in Nat
    BY <2>3
  <2>5. Leads(Dbg2Table(s)')
    <3>1. CASE pc = 10
      <4>1. Fine /\ Ending
        BY <2>1, <2>2, <2>3, <3>1, <1>23, Dbg2Done
      <4> QED  BY <4>1 DEF Leads
    <3>2. CASE pc # 10
      BY <1>2, <1>3, <2>1, <2>2, <2>3, <2>4, <3>2, <1>23, Dbg2Step
    <3> QED  BY <3>1, <3>2
  <2> QED  BY <2>5, <1>2, <1>23 DEF Leads, Fine, Same, Running
<1>24. CASE prog = "dbg3"
  <2>1. arch = "i386"
    BY <1>1, <1>24 DEF Portable
  <2>2. code = dbg3(s) /\ Dbg3Table(s)
    BY <1>1, <1>2, <1>24, CodeIs DEF Running
  <2>3. Dbg3Code(s)
    BY <2>2, Dbg3CodeIs
  <2>4. Leads(Dbg3Table(s)')
    BY <1>2, <1>3, <2>1, <2>2, <2>3, <1>24, Dbg3Step
  <2> QED  BY <2>4, <1>2, <1>24 DEF Leads, Fine, Same, Running
<1>25. CASE prog = "dbg4"
  <2>1. arch = "i386"
    BY <1>1, <1>25 DEF Portable
  <2>2. code = dbg4(s) /\ Dbg4Table(s)
    BY <1>1, <1>2, <1>25, CodeIs DEF Running
  <2>3. Leads(Dbg4Table(s)')
    BY <1>2, <1>3, <2>1, <2>2, <1>25, Dbg4Step
  <2> QED  BY <2>3, <1>2, <1>25 DEF Leads, Fine, Same, Running
<1>26. CASE prog = "sputs"
  <2>1. arch = "i386"
    BY <1>1, <1>26 DEF Portable
  <2>2. code = sputs(s) /\ SputsTable(s)
    BY <1>1, <1>2, <1>26, CodeIs DEF Running
  <2>3. Leads(SputsTable(s)')
    BY <1>3, <2>1, <2>2, <1>26, TwoWrites
  <2> QED  BY <2>3, <1>2, <1>26 DEF Leads, Fine, Same, Running
<1>27. CASE prog = "abort"
  <2>1. arch = "i386"
    BY <1>1, <1>27 DEF Portable
  <2> DEFINE a == aborted
  <2>2. code = abort /\ Dbg2Table(a)
    BY <1>1, <1>27, CodeIs DEF Running
  <2>3. Dbg2Code(a) /\ Len(code) = 10 /\ code[10] = hlt /\ Terminated(a)
    BY <2>2, AbortCode, AbortedIs
  <2>4. Len(code) \in Nat
    BY <2>3
  <2>5. Leads(Dbg2Table(a)')
    <3>1. CASE pc = 10
      <4>1. Fine /\ Ending
        BY <2>3, <3>1, AbortDone
      <4> QED  BY <4>1 DEF Leads
    <3>2. CASE pc # 10
      <4>1. prog \in {"dbg2", "abort"} /\ (prog = "dbg2" => a = text) /\ a = aborted
        BY <1>27
      <4> HIDE DEF a
      <4> QED  BY <2>1, <2>2, <2>3, <2>4, <3>2, <4>1, Dbg2Step
    <3> QED  BY <3>1, <3>2
  <2> QED  BY <2>5, <1>27 DEF Leads, Fine, Same, Running
<1> QED
  BY <1>5, <1>6, <1>7, <1>8, <1>9, <1>10, <1>11, <1>12, <1>13, <1>14,
     <1>15, <1>16, <1>17, <1>18, <1>19, <1>20, <1>21, <1>22, <1>23, <1>24,
     <1>25, <1>26, <1>27 DEF Portable, Snippets

-----------------------------------------------------------------------------
(* The invariant.                                                          *)

Inv == /\ Frame /\ prog \in Portable \cup Snippets
       /\ how = << >> => Running
       /\ PrintsIds /\ OwnBytes /\ Transparent /\ ExitTells

LEMMA Beginning == Init => Inv
<1> SUFFICES ASSUME Init  PROVE Inv
  OBVIOUS
<1>1. Running
  BY Starting
<1>2. Given
  BY DEF Init, Given
<1>3. DOMAIN regs = Reg
  BY DEF Init, EntryRegs
<1>4. Anys(stack) /\ Anys(out)
  BY Literals DEF Init
<1>5. how = << >> /\ DOMAIN out = {} /\ prog \in Portable \cup Snippets
  BY DEF Init
<1>6. PrintsIds /\ OwnBytes
  BY <1>5 DEF PrintsIds, OwnBytes
<1>7. Transparent /\ ExitTells
  BY <1>5 DEF Transparent, ExitTells
<1> QED  BY <1>1, <1>2, <1>3, <1>4, <1>5, <1>6, <1>7 DEF Inv, Frame

\* A program that has ended takes no step.
LEMMA Ended ==
  ASSUME Next
  PROVE  how = << >>
BY DEF Next, move, arith, and, stackOps, cpuidOp, jump, sysExit, sysWrite, trap, FallOut, Op

\* A write more, and all writes are still as they should be.
LEMMA StillOwn ==
  ASSUME Anys(out), Same, Proper, OwnBytes, PrintsIds
  PROVE  Anys(out') /\ OwnBytes' /\ PrintsIds'
<1>1. CASE Quiet
  BY <1>1 DEF Quiet, Same, OwnBytes, PrintsIds
<1>2. CASE Grown /\ Own(out'[Len(out) + 1]) /\ Ids(out'[Len(out) + 1])
  <2>1. DOMAIN out = 1 .. Len(out) /\ Len(out) \in Nat
    BY Lengths
  <2>2. Anys(out') /\ Len(out') = Len(out) + 1 /\ \A k \in 1 .. Len(out) : out'[k] = out[k]
    BY <1>2 DEF Grown
  <2>3. DOMAIN out' = 1 .. Len(out')
    BY <2>2, Lengths
  <2>4. ASSUME NEW k \in DOMAIN out'
        PROVE  Own(out'[k]) /\ Ids(out'[k])
    <3>1. CASE k = Len(out) + 1
      BY <1>2, <3>1
    <3>2. CASE k # Len(out) + 1
      <4>1. k \in DOMAIN out /\ out'[k] = out[k]
        BY <2>1, <2>2, <2>3, <3>2
      <4>2. Own(out[k])
        BY <4>1 DEF OwnBytes, Own
      <4>3. Ids(out[k])
        BY <4>1 DEF PrintsIds, Ids
      <4> QED  BY <4>1, <4>2, <4>3
    <3> QED  BY <3>1, <3>2
  <2>5. OwnBytes'
    BY <2>4 DEF OwnBytes, Own, Same
  <2>6. PrintsIds'
    BY <2>4 DEF PrintsIds, Ids, Same
  <2> QED  BY <2>2, <2>5, <2>6
<1> QED  BY <1>1, <1>2 DEF Proper

LEMMA Keeps == Inv /\ [Next]_vars => Inv'
<1> SUFFICES ASSUME Inv, [Next]_vars  PROVE Inv'
  OBVIOUS
<1>1. CASE Next
  <2>1. how = << >>
    BY <1>1, Ended
  <2>2. Leads(Running')
    BY <1>1, <2>1, Stepping DEF Inv
  <2>3. Fine /\ (Ending \/ (how' = << >> /\ Running'))
    BY <2>2 DEF Leads
  <2>4. Frame' /\ (prog \in Portable \cup Snippets)'
    <3>1. Given'
      BY <2>3 DEF Inv, Frame, Given, Fine, Same
    <3>2. Anys(out')
      BY <2>3, StillOwn DEF Inv, Frame, Fine
    <3> QED  BY <2>3, <3>1, <3>2 DEF Inv, Frame, Fine, Same
  <2>5. OwnBytes' /\ PrintsIds'
    BY <2>3, StillOwn DEF Inv, Frame, Fine
  <2>6. Transparent' /\ ExitTells'
    <3>1. CASE Ending
      BY <3>1 DEF Ending
    <3>2. CASE how' = << >>
      BY <3>2 DEF Transparent, ExitTells
    <3> QED  BY <2>3, <3>1, <3>2
  <2>7. (how = << >> => Running)'
    BY <2>3 DEF Ending
  <2> QED  BY <2>4, <2>5, <2>6, <2>7 DEF Inv
<1>2. CASE UNCHANGED vars
  <2>1. /\ UNCHANGED <<prog, text, vm, arch, code, entry>>
        /\ UNCHANGED <<pc, regs, stack, sf, out, how>>
    BY <1>2 DEF vars
  <2>2. Frame' /\ (prog \in Portable \cup Snippets)'
    BY <2>1 DEF Inv, Frame, Given
  <2>3. OwnBytes' /\ PrintsIds'
    BY <2>1 DEF Inv, OwnBytes, PrintsIds
  <2>4. Transparent' /\ ExitTells'
    BY <2>1 DEF Inv, Transparent, Told, Lost, ExitTells
  <2>5. (how = << >> => Running)'
    <3>1. PICK s : s = text
      OBVIOUS
    <3> DEFINE n == mystrlen(s)
    <3> DEFINE d == DBG_LEN(s)
    <3> DEFINE b == Line(s)
    <3> DEFINE h == mystrlen(hello)
    <3>2. /\ TwoTable(1, hello, 13) => TwoTable(1, hello, 13)'
          /\ TwoTable(2, hello, h) => TwoTable(2, hello, h)'
          /\ OneTable(2, s, n) => OneTable(2, s, n)'
          /\ OneTable(1, b, d) => OneTable(1, b, d)'
          /\ OneTable(2, b, d) => OneTable(2, b, d)'
      <4> HIDE DEF n, d, b, h
      <4> QED  BY <2>1 DEF OneTable, TwoTable, Bare, Spared, Telling, Lost, Writing, Exiting
    <3>3. /\ NonzeroTable => NonzeroTable'
          /\ ZeroTable => ZeroTable'
          /\ DontcareTable => DontcareTable'
          /\ ClangZeroTable => ClangZeroTable'
      BY <2>1 DEF NonzeroTable, ZeroTable, DontcareTable, ClangZeroTable
    <3>4. M2Table(s) => M2Table(s)'
      BY <2>1 DEF M2Table
    <3>5. Dbg2Table(s) => Dbg2Table(s)'
      BY <2>1 DEF Dbg2Table
    <3>6. Dbg3Table(s) => Dbg3Table(s)'
      BY <2>1 DEF Dbg3Table
    <3>7. Dbg4Table(s) => Dbg4Table(s)'
      BY <2>1 DEF Dbg4Table
    <3>8. SputsTable(s) => SputsTable(s)'
      BY <2>1 DEF SputsTable, Bare, Spared, Telling, Lost, Writing
    <3>9. Dbg2Table(aborted) => Dbg2Table(aborted)'
      BY <2>1 DEF Dbg2Table
    <3>10. /\ IsvmTable => IsvmTable'
           /\ CpuidTable => CpuidTable'
           /\ Cpuid6Table => Cpuid6Table'
      BY <2>1, SMTT(30) DEF IsvmTable, CpuidTable, Cpuid6Table
    <3>11. Cpuid5Table => Cpuid5Table'
      BY <2>1 DEF Cpuid5Table, Stacked, Built, Round, Branded
    <3>12. /\ AskTable(W(0), "ecx", "edx") => AskTable(W(0), "ecx", "edx")'
           /\ AskTable(<<16384, 0>>, "edx", "ecx") => AskTable(<<16384, 0>>, "edx", "ecx")'
      BY <2>1 DEF AskTable
    <3>13. Cpuid4Table(<<32768, 2>>) => Cpuid4Table(<<32768, 2>>)'
      BY <2>1 DEF Cpuid4Table
    <3> QED
      BY <2>1, <3>1, <3>2, <3>3, <3>4, <3>5, <3>6, <3>7, <3>8, <3>9, <3>10, <3>11, <3>12, <3>13
         DEF Inv, Running
  <2> QED  BY <2>2, <2>3, <2>4, <2>5 DEF Inv
<1> QED  BY <1>1, <1>2

\* Inv holds throughout, whatever the texts.
LEMMA Invariance == Spec => []Inv
<1>1. Init => Inv
  BY Beginning
<1>2. Inv /\ [Next]_vars => Inv'
  BY Keeps
<1> QED  BY <1>1, <1>2, PTL DEF Spec

\* Whatever the text, a cpuid snippet of hello3.c that writes from the stack writes the answers
\* of cpuid in the order in which they spell the name, and as many bytes as they have; cpuid5
\* with its loop over the brand writes the whole banner.
THEOREM IdsPrinted == Spec => []PrintsIds
<1>1. Inv => PrintsIds
  BY DEF Inv
<1> QED  BY <1>1, Invariance, PTL

\* Whatever the text, and whatever bytes have to be escaped, a write of any program or snippet
\* sends its own bytes and all of them: no NUL (but for hello3.c's MAIN) and no word of the stack
\* that the snippet did not push.  puts_inline, dbg_inline and dbg2 to dbg4 send the whole line
\* first, and behind it one byte of the code for each byte of the text that the literal escapes,
\* as strlen counts the literal: none if none is escaped.  The others send nothing of the code.
THEOREM TextsWhole == Spec => []OwnBytes
<1>1. Inv => OwnBytes
  BY DEF Inv
<1> QED  BY <1>1, Invariance, PTL

\* Whatever the text and the answers of the kernel, a snippet that returns to the C function
\* leaves the stack as it was (four cpuid snippets excepted), and changes no register but
\* those its asm statement declares and, on amd64, rcx; dbg3 of dbg.h changes none.
THEOREM Unnoticed == Spec => []Transparent
<1>1. Inv => Transparent
  BY DEF Inv
<1> QED  BY <1>1, Invariance, PTL

\* Whatever the text and the answers of the kernel, a program that exits does so with the
\* status its name promises, isvm with whether a hypervisor runs it.
THEOREM ExitsRight == Spec => []ExitTells
<1>1. Inv => ExitTells
  BY DEF Inv
<1> QED  BY <1>1, Invariance, PTL
=============================================================================
