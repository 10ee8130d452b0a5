------------------------------- MODULE Forth -------------------------------
(***************************************************************************)
(* What viert promises a program: a Forth machine with a data stack and a  *)
(* return stack, which executes the words of the threaded code one after   *)
(* the other.  The stacks are sequences, their top first; there are no     *)
(* registers, and no word can disturb what lies below its operands.        *)
(***************************************************************************)
EXTENDS ViertCode

VARIABLES
  prog,     \* the program that was assembled
  ip,       \* where the next word is
  data,     \* the data stack
  ret,      \* the return stack
  out,      \* the bytes written to stdout
  status    \* "run", "exited" or "crashed"

vars == << prog, ip, data, ret, out, status >>

Token == CodeAt(prog, ip)
Inline == CodeAt(prog, ip + 1)    \* the byte that follows the word
Flag(b) == IF b THEN True ELSE 0

Init ==
  /\ prog \in Programs
  /\ ip = FORTH
  /\ data = << >> /\ ret = << >> /\ out = << >>
  /\ status = "run"

At(name) == status = "run" /\ Names[Token + 1] = name

\* Words that replace the topmost n cells and go on behind `skip' bytes.
Word(name, n, skip, cells) ==
  /\ At(name)
  /\ Len(data) >= n
  /\ data' = cells \o SubSeq(data, n + 1, Len(data))
  /\ ip' = ip + 1 + skip
  /\ UNCHANGED << prog, ret, out, status >>

Stackless(name) == At(name) /\ UNCHANGED << prog, data, out, status >>

Crash ==
  /\ status' = "crashed"
  /\ UNCHANGED << prog, out >>
  /\ ip' \in Nat /\ data' \in Seq(Cells) /\ ret' \in Seq(Cells)

-----------------------------------------------------------------------------
(* Memory: the stacks' cells lie where sp_at and rp_at say, below their    *)
(* bases.                                                                  *)

DataCell(a) == data[a - (DataBase - Len(data)) + 1]
ReturnCell(a) == ret[a - (ReturnBase - Len(ret)) + 1]
InData(a) == a \in DataBase - Len(data) .. DataBase - 1
InReturn(a) == a \in ReturnBase - Len(ret) .. ReturnBase - 1
InSegment(a) == a \in StackEnd .. ReturnBase - 1
InCode(a) == a \in 0 .. CodeEnd(prog) - 2
Free == {a \in StackEnd .. ReturnBase - 1 : ~InData(a) /\ ~InReturn(a)}

-----------------------------------------------------------------------------

Shuffle ==
  \/ Word("swap", 2, 0, << data[2], data[1] >>)
  \/ Word("dup", 1, 0, << data[1], data[1] >>)
  \/ Word("over", 2, 0, << data[2], data[1], data[2] >>)
  \/ Word("drop", 1, 0, << >>)
  \/ Word("rot", 3, 0, << data[3], data[1], data[2] >>)

Arithmetic ==
  \/ Word("plus", 2, 0, << (data[1] + data[2]) % W >>)
  \/ Word("not", 1, 0, << Not(data[1]) >>)
  \/ Word("not2", 1, 0, << Not(data[1]) >>)
  \/ Word("and", 2, 0, << And(data[1], data[2]) >>)
  \/ Word("or", 2, 0, << Or(data[1], data[2]) >>)
  \/ Word("nor", 2, 0, << Not(Or(data[1], data[2])) >>)
  \/ Word("nand", 2, 0, << Not(And(data[1], data[2])) >>)
  \/ Word("nand2", 2, 0, << Not(And(data[1], data[2])) >>)
  \/ Word("0ne", 1, 0, << Flag(data[1] # 0) >>)
  \/ Word("0lt", 1, 0, << Flag(data[1] >= MaxInt) >>)

\* ( a b -- remainder quotient )
DivMod ==
  \/ /\ At("divmod") /\ data[1] # 0
     /\ Word("divmod", 2, 0, << data[2] \div data[1], data[2] % data[1] >>)
  \/ At("divmod") /\ data[1] = 0 /\ Crash

Literal ==
  \/ Word("lit8", 0, 1, << Inline >>)
  \/ Word("lit32", 0, 2, << CodeCell(prog, ip + 1) >>)
  \/ Word("string", 0, 1 + Inline, << Inline, ip + 2 >>)
  \/ Word("sp_at", 0, 0, << DataBase - Len(data) >>)
  \/ Word("rp_at", 0, 0, << ReturnBase - Len(ret) >>)

\* Between and below the stacks lie cells that hold anything.
Fetch ==
  /\ At("fetch") /\ Len(data) >= 1
  /\ LET a == data[1]
     IN  \/ InData(a) /\ Word("fetch", 1, 0, << DataCell(a) >>)
         \/ InReturn(a) /\ Word("fetch", 1, 0, << ReturnCell(a) >>)
         \/ InCode(a) /\ Word("fetch", 1, 0, << CodeCell(prog, a) >>)
         \/ a \in Free /\ \E n \in Cells : Word("fetch", 1, 0, << n >>)
         \/ ~InSegment(a) /\ ~InCode(a) /\ Crash

\* ( value address -- ): the pops come before the store.
Store ==
  LET a == data[1]
      rest == SubSeq(data, 3, Len(data))
      inData == a - (DataBase - Len(rest)) + 1
      inReturn == a - (ReturnBase - Len(ret)) + 1
  IN  /\ At("store") /\ Len(data) >= 2
      /\ \/ /\ InSegment(a)
            /\ data' = IF inData \in 1 .. Len(rest)
                         THEN [rest EXCEPT ![inData] = data[2]] ELSE rest
            /\ ret' = IF inReturn \in 1 .. Len(ret)
                         THEN [ret EXCEPT ![inReturn] = data[2]] ELSE ret
            /\ ip' = ip + 1
            /\ UNCHANGED << prog, out, status >>
         \/ ~InSegment(a) /\ Crash

Jump ==
  \/ /\ Stackless("branch")
     /\ ip' = ip + 1 + Signed(Inline)
     /\ UNCHANGED ret
  \/ /\ At("zbranch") /\ Len(data) >= 1
     /\ data' = Tail(data)
     /\ ip' = IF data[1] = 0 THEN ip + 1 + Signed(Inline) ELSE ip + 2
     /\ UNCHANGED << prog, ret, out, status >>

\* The counter of a loop is on the return stack; a counter of 0 means W.
Loop ==
  \/ /\ At("rspush") /\ Len(data) >= 1 /\ Len(ret) < Gap
     /\ data' = Tail(data) /\ ret' = << data[1] >> \o ret
     /\ ip' = ip + 1
     /\ UNCHANGED << prog, out, status >>
  \/ /\ Stackless("while2") /\ ret # << >>
     /\ IF Head(ret) = 1
          THEN ret' = Tail(ret) /\ ip' = ip + 2
          ELSE /\ ret' = << (Head(ret) + W - 1) % W >> \o Tail(ret)
               /\ ip' = ip + 2 - Inline
  \/ /\ Stackless("rdrop") /\ ret # << >>
     /\ ret' = Tail(ret) /\ ip' = ip + 1

Call ==
  /\ status = "run" /\ Token >= BREAK /\ Len(ret) < Gap
  /\ ret' = << ip + 1 >> \o ret
  /\ ip' = STATIC_TABLE(Token)
  /\ UNCHANGED << prog, data, out, status >>

Return ==
  /\ Stackless("EXIT") /\ ret # << >>
  /\ ip' = Head(ret) /\ ret' = Tail(ret)

\* A byte of a string, or the low byte of a cell on the data stack.
ByteAt(a) == IF InData(a) THEN DataCell(a) % 256 ELSE CodeAt(prog, a)

\* write may fail, or write less than it was asked to.
Syscall3 ==
  /\ At("syscall3") /\ Len(data) >= 1
  /\ \/ /\ data[1] = 4 /\ Len(data) >= 4
        /\ \E n \in 0 .. data[4] :
             /\ out' = out \o [i \in 1 .. n |-> ByteAt(data[3] + i - 1)]
             /\ \E result \in {n} \cup (IF n = 0 THEN MaxInt .. W - 1 ELSE {}) :
                  data' = << result >> \o SubSeq(data, 5, Len(data))
        /\ ip' = ip + 1
        /\ UNCHANGED << prog, ret, status >>
     \* exit: its code, the next cell, is not told apart
     \/ /\ data[1] = 1
        /\ status' = "exited"
        /\ UNCHANGED << prog, ip, data, ret, out >>

\* ( c -- c ): the machine does not survive a write that fails.
DupEmit ==
  /\ At("dupemit") /\ Len(data) >= 1
  /\ \/ /\ out' \in {out, out \o << data[1] % 256 >>}
        /\ ip' = ip + 1
        /\ UNCHANGED << prog, data, ret, status >>
     \/ Crash

\* The data stack is as large as the kernel allows.
Overflow == status = "run" /\ Len(data) + 3 > DataCells /\ Crash

Next ==
  \/ Shuffle \/ Arithmetic \/ DivMod \/ Literal \/ Fetch \/ Store
  \/ Jump \/ Loop \/ Call \/ Return \/ Syscall3 \/ DupEmit \/ Overflow

Spec == Init /\ [][Next]_vars
=============================================================================
