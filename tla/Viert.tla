------------------------------- MODULE Viert -------------------------------
(***************************************************************************)
(* viert's inner interpreter and primitives (codewords.asm), at the level  *)
(* of the registers that live across a word and of the memory of the two   *)
(* stacks:                                                                 *)
(*   esi  FORTH_OFFSET, where the next word is                             *)
(*   esp  the data stack          ebp  RETURN_STACK, the return stack      *)
(*   eax  NEXT_WORD; NEXT loads only its low byte                          *)
(* ebx, ecx and edx are scratch: no word reads what another left in them.  *)
(* A step is NEXT and the primitive (or DOCOL) that it jumps to.           *)
(***************************************************************************)
EXTENDS ViertCode

CONSTANTS
  MaxFaults,    \* the number of times write may fail or fall short
  Claims        \* what Forth says of some programs: records of their code,
                \* what they leave, what they print and how they may end

VARIABLES
  prog,     \* the program that was assembled
  esi, esp, ebp, eax,
  mem,      \* the segment that holds both stacks
  out,      \* the bytes the kernel has written to stdout
  faults,   \* the number of writes that failed or fell short
  status    \* "run", "exited", "sigfpe", "sigsegv" or "wild"

vars == << prog, esi, esp, ebp, eax, mem, out, faults, status >>
registers == << esi, esp, ebp, eax, mem >>

Segment == StackEnd .. ReturnBase - 1

\* _start: enter pushes ebp, which is FORTH, and leaves Gap - 1 cells; the
\* EXIT it falls into pops FORTH into esi.  Linux starts a program with 0 in
\* eax and a stack nobody has written.
Init ==
  /\ prog \in Programs
  /\ esi = FORTH /\ esp = DataBase /\ ebp = ReturnBase /\ eax = 0
  /\ mem = [a \in Segment |-> IF a = ReturnBase - 1 THEN FORTH ELSE 0]
  /\ out = << >> /\ faults = 0 /\ status = "run"

-----------------------------------------------------------------------------
(* NEXT.                                                                   *)

\* lodsb loads al and leaves the rest of eax.
Low(r, byte) == (r - (r % 256)) + byte

InCode(a) == a \in 0 .. CodeEnd(prog) - 1

\* The token as NEXT looks it up: all of eax.
Token == Low(eax, CodeAt(prog, esi))

\* The table has the entry, and what the word reads behind its token is there.
Fetched ==
  /\ InCode(esi) /\ Token < Len(Names)
  /\ InCode(esi + Operands(Names[Token + 1]))

At(name) == status = "run" /\ Fetched /\ Names[Token + 1] = name

\* The byte that follows the word.
Inline == CodeAt(prog, esi + 1)

Die(how) == status' = how /\ UNCHANGED << prog, registers, out, faults >>

\* Otherwise viert goes on with whatever lies behind the table or the code.
Wild == status = "run" /\ ~Fetched /\ Die("wild")

-----------------------------------------------------------------------------
(* Pops and pushes.                                                        *)

\* n cells have been popped, then `cells' (the last one first) are pushed.
Fits(n, k) == esp + n - k \in StackEnd .. ReturnBase /\ esp + n <= ReturnBase

Push(memory, n, cells) ==
  LET top == esp + n - Len(cells)
  IN  [a \in Segment |-> IF a \in top .. top + Len(cells) - 1
                           THEN cells[a - top + 1] ELSE memory[a]]

\* Below StackEnd the kernel sends SIGSEGV; above ReturnBase lie the program's
\* arguments, and what comes of popping them is not modelled.
Fault(n) == Die(IF esp + n > ReturnBase THEN "wild" ELSE "sigsegv")

Replaced(n, cells) ==
  /\ mem' = Push(mem, n, cells)
  /\ esp' = esp + n - Len(cells)

\* A primitive that pops n cells, pushes others and goes to NEXT with r in
\* eax, having read `skip' bytes behind its token.
Primitive(n, cells, skip, r) ==
  IF Fits(n, Len(cells))
    THEN /\ Replaced(n, cells)
         /\ esi' = esi + 1 + skip
         /\ eax' = r
         /\ UNCHANGED << prog, ebp, out, faults, status >>
    ELSE Fault(n)

\* Mutant: eax is pushed first.
pusheaxedx(n, edx, r) == Primitive(n, << edx, r >>, 0, 0)
\* Mutant: eax is not cleared.
pusheaxKept(n, r, skip) == Primitive(n, << r >>, skip, r)

\* pushedxeax, pusheax: where many primitives end, clearing eax.
pushedxeax(n, edx, r) == Primitive(n, << r, edx >>, 0, 0)
pusheax(n, r, skip) == Primitive(n, << r >>, skip, 0)

First == mem[esp]
Second == mem[esp + 1]
Third == mem[esp + 2]

Swap == At("swap") /\ pushedxeax(2, First, Second)
Dup == At("dup") /\ Primitive(0, << First >>, 0, Token)
Over == At("over") /\ Primitive(0, << Second >>, 0, Token)
Drop == At("drop") /\ Primitive(1, << >>, 0, Token)

\* pop edx, ecx, eax; push ecx; pushedxeax
Rot == At("rot") /\ Primitive(3, << Third, First, Second >>, 0, 0)

ZeroNe ==    \* neg sets the carry that sbb spreads over eax
  At("0ne") /\ pusheax(1, IF First = 0 THEN 0 ELSE True, 0)

\* cdq spreads the sign over edx, which is pushed, and again as eax.
ZeroLt ==
  /\ At("0lt")
  /\ IF Fits(1, 2)
       THEN LET edx == IF First >= MaxInt THEN True ELSE 0
            IN  pushedxeax(1, edx, edx)
       ELSE Fault(1)

Nand == At("nand") /\ pusheax(2, Not(And(First, Second)), 0)
Nand2 == At("nand2") /\ pusheax(2, Not(And(First, Second)), 0)
Plus == At("plus") /\ Primitive(2, << (Second + First) % W >>, 0, Token)
NotWord == At("not") /\ Primitive(1, << Not(First) >>, 0, Token)
AndWord == At("and") /\ Primitive(2, << And(First, Second) >>, 0, Token)
OrWord == At("or") /\ Primitive(2, << Or(First, Second) >>, 0, Token)

\* nor falls into not2.
Nor == At("nor") /\ pusheax(2, Not(Or(First, Second)), 0)
Not2 == At("not2") /\ pusheax(1, Not(First), 0)

\* cdq makes edx the upper half of the dividend: the sign of eax, which NEXT
\* has left the token in.
DivMod ==
  /\ At("divmod")
  /\ LET edx == IF Token >= MaxInt THEN W - 1 ELSE 0
         ecx == First
     IN  IF ~Fits(2, 2) THEN Fault(2)
         ELSE IF ecx <= edx THEN Die("sigfpe")
         ELSE LET dividend == (edx * W) + Second
              IN  pushedxeax(2, dividend % ecx, dividend \div ecx)

-----------------------------------------------------------------------------
(* Literals and memory.                                                    *)

Lit8 == At("lit8") /\ pusheax(0, Low(Token, Inline), 1)
Lit32 == At("lit32") /\ pusheax(0, CodeCell(prog, esi + 1), 2)

\* string: its address, then its length, which stays in eax.
String2 ==
  /\ At("string")
  /\ LET length == Low(Token, Inline)
     IN  Primitive(0, << length, esi + 2 >>, 1 + length, length)

SpAt == At("sp_at") /\ Primitive(0, << esp >>, 0, Token)
RpAt == At("rp_at") /\ Primitive(0, << ebp >>, 0, Token)

\* push dword [edx]
Fetch ==
  /\ At("fetch")
  /\ IF ~Fits(1, 1) THEN Fault(1)
     ELSE IF First \in Segment THEN Primitive(1, << mem[First] >>, 0, Token)
     ELSE IF InCode(First) /\ InCode(First + 1)
       THEN Primitive(1, << CodeCell(prog, First) >>, 0, Token)
     ELSE Die("sigsegv")

\* pop dword [edx]: only the stacks are writable.
Store ==
  /\ At("store")
  /\ IF ~Fits(2, 0) THEN Fault(2)
     ELSE IF First \in Segment
       THEN /\ mem' = [mem EXCEPT ![First] = Second]
            /\ esp' = esp + 2 /\ esi' = esi + 1 /\ eax' = Token
            /\ UNCHANGED << prog, ebp, out, faults, status >>
     ELSE Die("sigsegv")

-----------------------------------------------------------------------------
(* Control.                                                                *)

Keep == UNCHANGED << prog, out, faults, status >>

\* A_DOCOL: rspush what lodsb has left in esi, go on at the word's code.
Docol ==
  /\ status = "run" /\ Fetched /\ Token >= BREAK
  /\ IF ebp - 1 \in Segment
       THEN /\ mem' = [mem EXCEPT ![ebp - 1] = esi + 1]
            /\ ebp' = ebp - 1
            /\ esi' = STATIC_TABLE(Token) /\ eax' = Token
            /\ UNCHANGED esp /\ Keep
       ELSE Die("sigsegv")

Exit ==
  /\ At("EXIT")
  /\ IF ebp \in Segment
       THEN /\ esi' = mem[ebp] /\ ebp' = ebp + 1 /\ eax' = Token
            /\ UNCHANGED << esp, mem >> /\ Keep
       ELSE Die("wild")

\* Mutant: without the lea, the counter replaces the return address.
RsPushOver ==
  /\ At("rspush")
  /\ IF ebp \in Segment /\ Fits(1, 0)
       THEN /\ mem' = [mem EXCEPT ![ebp] = First]
            /\ esp' = esp + 1 /\ esi' = esi + 1 /\ eax' = Token
            /\ UNCHANGED ebp /\ Keep
       ELSE Die("sigsegv")

\* lea ebp, [ebp-4]; pop dword [ebp]
RsPush ==
  /\ At("rspush")
  /\ IF ebp - 1 \in Segment /\ Fits(1, 0)
       THEN /\ mem' = [mem EXCEPT ![ebp - 1] = First]
            /\ ebp' = ebp - 1 /\ esp' = esp + 1
            /\ esi' = esi + 1 /\ eax' = Token
            /\ Keep
       ELSE Fault(1)

Branch ==
  /\ At("branch")
  /\ esi' = esi + 1 + Signed(Inline) /\ eax' = Token
  /\ UNCHANGED << esp, ebp, mem >> /\ Keep

\* Mutant: jumps when the flag is set.
ZBranchInverted ==
  /\ At("zbranch")
  /\ IF Fits(1, 0)
       THEN /\ esp' = esp + 1 /\ eax' = Token
            /\ esi' = IF First # 0 THEN esi + 1 + Signed(Inline) ELSE esi + 2
            /\ UNCHANGED << ebp, mem >> /\ Keep
       ELSE Fault(1)

\* jecxz A_branch
ZBranch ==
  /\ At("zbranch")
  /\ IF Fits(1, 0)
       THEN /\ esp' = esp + 1 /\ eax' = Token
            /\ esi' = IF First = 0 THEN esi + 1 + Signed(Inline) ELSE esi + 2
            /\ UNCHANGED << ebp, mem >> /\ Keep
       ELSE Fault(1)

\* Mutant: the loop ends without rdrop.
While2Unbalanced ==
  /\ At("while2")
  /\ LET count == (mem[ebp] + W - 1) % W
         distance == Low(Token, Inline)
     IN  IF ebp \in Segment
           THEN /\ mem' = [mem EXCEPT ![ebp] = count]
                /\ esi' = esi + 2 - IF count = 0 THEN 0 ELSE distance
                /\ eax' = distance
                /\ UNCHANGED << esp, ebp >> /\ Keep
           ELSE Die("wild")

\* Mutant: the decremented counter is not written back.
While2Forever ==
  /\ At("while2") /\ ebp \in Segment
  /\ LET distance == Low(Token, Inline)
         done == mem[ebp] = 1
     IN  /\ ebp' = IF done THEN ebp + 1 ELSE ebp
         /\ esi' = esi + 2 - IF done THEN 0 ELSE distance
         /\ eax' = distance
         /\ UNCHANGED << esp, mem >> /\ Keep

\* dec of the counter; at 0, rdrop; otherwise back by the byte in al.
While2 ==
  /\ At("while2")
  /\ LET count == (mem[ebp] + W - 1) % W
         distance == Low(Token, Inline)
     IN  IF ebp \in Segment
           THEN /\ mem' = [mem EXCEPT ![ebp] = count]
                /\ ebp' = IF count = 0 THEN ebp + 1 ELSE ebp
                /\ esi' = esi + 2 - IF count = 0 THEN 0 ELSE distance
                /\ eax' = distance
                /\ UNCHANGED esp /\ Keep
           ELSE Die("wild")

RDrop ==
  /\ At("rdrop")
  /\ ebp' = ebp + 1 /\ esi' = esi + 1 /\ eax' = Token
  /\ UNCHANGED << esp, mem >> /\ Keep

-----------------------------------------------------------------------------
(* System calls.                                                           *)

\* The byte at an address: one of the code, or a cell's low byte.
ByteAt(a) == IF a \in Segment THEN mem[a] % 256 ELSE CodeAt(prog, a)

\* What write(1, a, n) may do: all of it, less, or fail with an errno.
Write(a, n, result) ==
  /\ \E done \in 0 .. n :
       /\ result = done \/ (done = 0 /\ result = True)
       /\ out' = out \o [i \in 1 .. done |-> ByteAt(a + i - 1)]
  /\ result # n => faults < MaxFaults
  /\ faults' = IF result = n THEN faults ELSE faults + 1

\* pop eax, ebx, ecx, edx; int 0x80; pusheax.  1 is exit, 4 is write; the
\* words of the dictionary use no other call.
Syscall3 ==
  /\ At("syscall3")
  /\ IF ~Fits(4, 0) THEN Fault(4)
     ELSE IF First = 1 THEN Die("exited")
     ELSE LET length == mem[esp + 3]
          IN  \E result \in 0 .. length \cup {True} :
                /\ First = 4 /\ Write(Third, length, result)
                /\ Replaced(4, << result >>)
                /\ esi' = esi + 1 /\ eax' = 0
                /\ UNCHANGED << prog, ebp, status >>

\* write(1, esp, 1) without popping; its result stays in eax.
DupEmit ==
  /\ At("dupemit")
  /\ \E result \in {0, 1, True} :
       Write(esp, 1, result) /\ eax' = result
  /\ esi' = esi + 1
  /\ UNCHANGED << prog, esp, ebp, mem, status >>

Next ==
  \/ Swap \/ Dup \/ Over \/ Drop \/ Rot
  \/ ZeroNe \/ ZeroLt \/ Nand \/ Nand2
  \/ Plus \/ NotWord \/ AndWord \/ OrWord \/ Nor \/ Not2 \/ DivMod
  \/ Lit8 \/ Lit32 \/ String2 \/ SpAt \/ RpAt \/ Fetch \/ Store
  \/ Docol \/ Exit \/ RsPush \/ Branch \/ ZBranch \/ While2 \/ RDrop
  \/ Syscall3 \/ DupEmit \/ Wild

\* Nothing stops the processor; write returns.
Spec == Init /\ [][Next]_vars /\ WF_vars(Next)

-----------------------------------------------------------------------------
(* Correctness.                                                            *)

\* The ABI of codewords.asm: "eax: [...] Must be set =< 255 when returning
\* from primitive".  NEXT, lit8, string, while2 and divmod rely on it.  Only a
\* failed write of dupemit breaks it.
AbiHolds == status = "run" /\ faults = 0 => eax < 256

DataStack == [i \in 1 .. (IF esp > DataBase THEN 0 ELSE DataBase - esp) |->
                mem[esp + i - 1]]
ReturnStack == [i \in 1 .. ReturnBase - ebp |-> mem[ebp + i - 1]]

\* When a program comes to its exit, the words of the dictionary it called
\* have left what Forth says they leave, and nothing else, and (unless a write
\* failed) have printed what they should.
Delivers ==
  status = "run" /\ esi = CodeEnd(prog) - 1 =>
    \A claim \in Claims : claim.code = prog =>
      DataStack = claim.leaves /\ (faults = 0 => out = claim.prints)

\* A program stops in a way it is meant to, whatever the kernel does to its
\* writes: no word makes the interpreter run away or underflow.
EndsAsMeant ==
  status # "run" =>
    \A claim \in Claims : claim.code = prog => status \in claim.ends

\* EXIT returns behind the token of the very word it ends: on every path
\* through a word, loops have cleared their counters off the return stack.
Balanced ==
  [][Exit /\ status' = "run" =>
       esi' \in 1 .. CodeEnd(prog) /\ CodeAt(prog, esi' - 1) = WordAt(esi)]_vars

\* Every program comes to an end: loops count down to 0.
Terminates == <>(status # "run")

-----------------------------------------------------------------------------
(* The stacks in memory implement the Forth machine.                       *)

\* The cells a word finds on the data stack.
Uses(name) ==
  CASE name \in {"swap", "over", "store", "nand", "nand2", "plus", "and", "or",
                 "nor", "divmod"} -> 2
    [] name \in {"dup", "drop", "fetch", "0ne", "not", "not2", "rspush",
                 "zbranch", "dupemit", "syscall3"} -> 1
    [] name = "rot" -> 3
    [] OTHER -> 0

\* Code that keeps to what it was given: the next word is there with what it
\* reads, its operands are on the stacks, there is room for a return address, and
\* the text it writes is in the code or on the data stack.  (0lt is not what
\* Forth calls 0lt.)  A program owes this to the machine; the words of the
\* dictionary, their loops and branches keep it as long as it does.
Disciplined ==
  status = "run" /\ eax < 256 =>
    /\ Fetched
    /\ LET word == Names[Token + 1]
       IN  /\ word # "0lt"
           /\ esp + Uses(word) <= DataBase
           /\ word \in {"EXIT", "while2", "rdrop"} => ebp < ReturnBase
           /\ word = "rspush" \/ Token >= BREAK => ebp > DataBase
           /\ word = "syscall3" =>
                \/ First = 1
                \/ /\ First = 4 /\ esp + 4 <= DataBase
                   /\ \A a \in Third .. Third + mem[esp + 3] - 1 :
                        InCode(a) \/ a \in esp .. DataBase - 1

\* After dupemit's failed write the machine is lost, though it has yet to run
\* into it.
Outcome ==
  IF status \in {"run", "exited"} /\ eax < 256 THEN status ELSE "crashed"

Machine == INSTANCE Forth WITH
       ip <- esi, data <- DataStack, ret <- ReturnStack, status <- Outcome

\* Whatever the words do to registers and memory, each is a step of the Forth
\* machine: it replaces its operands on the two stacks, and nothing else.
ImplementsForth == Machine!Spec
=============================================================================
