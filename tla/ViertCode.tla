----------------------------- MODULE ViertCode -----------------------------
(***************************************************************************)
(* The threaded code of viert: what the assembler makes of the macros of   *)
(* macros.asm and viert3.asm, and of the words of forthwords.asm.  A word  *)
(* of a program is one byte, its token (WORD_SIZE = 1, which implies       *)
(* WORD_TABLE = WORD_SMALLTABLE = 1): tokens below BREAK are the           *)
(* primitives of codewords.asm, in the order of their DEFs, the others the *)
(* Forth words, which the table maps to the address of their code.         *)
(*                                                                         *)
(* The build is -DBREAK=31 -DBASEREG=0: the defaults do not run (BREAK is  *)
(* 24, and with BASEREG nothing loads edi before the first NEXT).  A cell  *)
(* has 9 to 16 bits (32 in the code): more than a byte, and at most the    *)
(* two bytes that lit32 carries.  Addresses count bytes in the code and    *)
(* cells in the stacks.                                                    *)
(***************************************************************************)
EXTENDS Integers, Sequences

CONSTANTS
  W,         \* the number of values of a cell
  Programs,  \* what may follow FORTH
  StackEnd,  \* the lowest address the kernel lets the stack grow to
  DataCells, \* the size of the data stack
  Gap        \* the size of the return stack: what `enter' leaves above esp

ASSUME CellAssumption ==
  W \in {512, 1024, 2048, 4096, 8192, 16384, 32768, 65536}

Bytes == 0 .. 255

Cells == 0 .. W - 1
MaxInt == W \div 2       \* 0x80000000 in the code
True == W - 1            \* the flag -1

Primitives ==
  << "EXIT", "swap", "dup", "over", "drop", "rot", "store", "fetch", "sp_at",
     "rp_at", "0ne", "0lt", "nand", "nand2", "dupemit", "rspush", "zbranch",
     "branch", "while2", "rdrop", "string", "plus", "not", "and", "or", "nor",
     "not2", "divmod", "lit8", "lit32", "syscall3" >>

ForthWords ==
  << "false", "true", "dec", "1", "inc", "negate", "minus", "exit", "2dup",
     "2drop", "div", "mod", "puts", "emit", "nl", "udot", "dot" >>

BREAK == Len(Primitives)
Names == Primitives \o ForthWords

TokenOf == [name \in {Names[i] : i \in 1 .. Len(Names)} |->
              (CHOOSE i \in 1 .. Len(Names) : Names[i] = name) - 1]

\* The number of bytes that follow a primitive in the code, and that it reads.
Operands(name) ==
  CASE name \in {"lit8", "string", "branch", "zbranch", "while2"} -> 1
    [] name = "lit32" -> 2
    [] OTHER -> 0

\* f_name
F(name) == << TokenOf[name] >>

Lit(n) == IF n < 256 THEN F("lit8") \o << n >>
                     ELSE F("lit32") \o << n % 256, n \div 256 >>

\* string "...": the length is a byte in the code.
String(bytes) == F("string") \o << Len(bytes) >> \o bytes

\* doloop n ... endloop: the byte after while2 is the distance back.
DoLoop(n, body) ==
  Lit(n) \o F("rspush") \o body \o F("while2") \o << Len(body) + 2 >>

\* if ... then: the byte after zbranch is the distance from itself.
If(body) == F("zbranch") \o << Len(body) + 1 >> \o body

IfElse(yes, no) ==
  F("zbranch") \o << Len(yes) + 3 >> \o yes
    \o F("branch") \o << Len(no) + 1 >> \o no

\* DEFFORTH ... ENDDEF
Def(body) == body \o F("EXIT")

\* The code of the words, in the order of ForthWords.
Bodies ==
  << Def(Lit(0)),                                                  \* false
     Def(F("false") \o F("not")),                                  \* true
     Def(F("true") \o F("plus")),                                  \* dec
     Def(Lit(1)),                                                  \* 1
     Def(F("1") \o F("plus")),                                     \* inc
     Def(F("not") \o F("inc")),                                    \* negate
     Def(F("negate") \o F("plus")),                                \* minus
     F("1") \o F("syscall3"),                                      \* exit
     Def(F("over") \o F("over")),                                  \* 2dup
     Def(F("drop") \o F("drop")),                                  \* 2drop
     Def(F("divmod") \o F("drop")),                                \* div
     Def(F("divmod") \o F("swap") \o F("drop")),                   \* mod
     Def(F("swap") \o Lit(1) \o Lit(4) \o F("syscall3")
           \o F("drop")),                                          \* puts
     Def(F("sp_at") \o Lit(1) \o F("puts") \o F("drop")),          \* emit
     Def(Lit(10) \o F("emit")),                                    \* nl
     Def(DoLoop(10, Lit(10) \o F("divmod")) \o F("drop")
           \o DoLoop(10, Lit(48) \o F("plus") \o F("emit"))
           \o F("nl")),                                            \* udot
     Def(F("dup") \o Lit(MaxInt) \o F("and")
           \o If(String(<< 45 >>) \o F("puts") \o F("negate"))
           \o F("udot")) >>                                        \* dot

\* In the order of their definitions, without gaps.
Assembled(b) ==
  b[1] \o b[2] \o b[3] \o b[4] \o b[5] \o b[6] \o b[7] \o b[8] \o b[9]
    \o b[10] \o b[11] \o b[12] \o b[13] \o b[14] \o b[15] \o b[16] \o b[17]
Dictionary == Assembled(Bodies)

\* Where the program starts.
FORTH == Len(Dictionary)

\* Where the code of each word starts.
Starts[i \in 1 .. Len(Bodies) + 1] ==
  IF i = 1 THEN 0 ELSE Starts[i - 1] + Len(Bodies[i - 1])

\* The entries of STATIC_TABLE from BREAK on.
STATIC_TABLE(token) == Starts[token - BREAK + 1]

\* The word whose code holds an address of the dictionary.
WordAt(address) ==
  CHOOSE token \in BREAK .. Len(Names) - 1 :
    address \in STATIC_TABLE(token) .. STATIC_TABLE(token + 1) - 1

\* The bytes from address 0 on, when program p has been assembled behind the words.
CodeEnd(p) == FORTH + Len(p)

CodeAt(p, address) ==
  IF address < FORTH THEN Dictionary[address + 1]
                     ELSE p[address - FORTH + 1]

\* The cell a program reads from its own code, which may be unaligned.
CodeCell(p, address) ==
  (CodeAt(p, address) + (256 * CodeAt(p, address + 1))) % W

\* `enter' puts the return stack above the data stack in one segment; both
\* grow downwards, to DataBase and StackEnd.
DataBase == StackEnd + DataCells
ReturnBase == DataBase + Gap

ASSUME LayoutAssumption ==
  /\ Programs \subseteq Seq(Bytes)
  /\ StackEnd \in Nat /\ DataCells \in Nat \ {0} /\ Gap \in Nat /\ Gap >= 4
  /\ ReturnBase < W
  /\ \A p \in Programs : CodeEnd(p) < StackEnd

-----------------------------------------------------------------------------
(* The processor's logic on cells, as arithmetic.                          *)

Bit(n, power) == (n \div power) % 2
Both(a, b, power) == IF Bit(a, power) = 1 /\ Bit(b, power) = 1 THEN power ELSE 0

Not(a) == W - 1 - a
And(a, b) ==
  Both(a, b, 1) + Both(a, b, 2) + Both(a, b, 4) + Both(a, b, 8)
    + Both(a, b, 16) + Both(a, b, 32) + Both(a, b, 64) + Both(a, b, 128)
    + Both(a, b, 256) + Both(a, b, 512) + Both(a, b, 1024) + Both(a, b, 2048)
    + Both(a, b, 4096) + Both(a, b, 8192) + Both(a, b, 16384)
    + Both(a, b, 32768)
Or(a, b) == Not(And(Not(a), Not(b)))

\* movsx
Signed(byte) == IF byte < 128 THEN byte ELSE byte - 256
=============================================================================
