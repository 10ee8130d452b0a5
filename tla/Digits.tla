------------------------------- MODULE Digits -------------------------------
(***************************************************************************)
(* The digits asmlib prints: printnum (print.mac), which writes eax in     *)
(* decimal with a newline behind it, from the last byte to the first, and  *)
(* tohex (regdump.mac), which turns a register into eight hexadecimal      *)
(* digits with the decimal-adjust instruction das; and the three printers  *)
(* of hello4.c, C functions for a register of either width, that no main   *)
(* reaches.  A step is one round of the loop of any of them.               *)
(*                                                                         *)
(* A word has W values (2^32 in the code) for printnum; tohex works on the *)
(* eight nibbles of a register, whatever their width.                      *)
(***************************************************************************)
EXTENDS Integers, Sequences, SequencesExt

CONSTANTS
  W,         \* the number of values of a word
  Numbers,   \* the numbers that are printed in decimal
  Patterns,  \* the nibbles of the registers printed in hexadecimal
  Wide       \* those of a register of 64 bits, for the printers of hello4.c

\* A word has up to 32 bits.
ASSUME WidthAssumption == W \in Nat /\ W % 2 = 0 /\ W > 256 /\ W \div 4 <= 1073741824
ASSUME NumbersAssumption ==
  /\ Numbers \subseteq 0 .. W - 1
  /\ Patterns \subseteq [1 .. 8 -> 0 .. 15]
  /\ Wide \subseteq [1 .. 16 -> 0 .. 15]

MaxInt == W \div 2      \* 0x80000000 in the code
Room == 12              \* alloca 12
Newline == 10
ZeroChar == 48

VARIABLES
  number,   \* printnum: the number to print
  register, \* tohex: the nibbles to print, << >> for printnum
  pc,       \* "decimal", "hex", a printer of hello4.c, "done" or "sigfpe"
  eax, edx, \* printnum: what is left to print, and the digit to write
  esi,      \* printnum: the number of bytes written
  nibbles,  \* tohex and hello4.c: the register, its highest nibble first
  ecx,      \* tohex and hello4.c: the rounds left
  printer,  \* the printer of hello4.c, or "asm"
  text      \* the bytes written: from ecx up (printnum), up to edi (tohex)

vars == << number, register, pc, eax, edx, esi, nibbles, ecx, printer, text >>

\* __print_init: the newline is the first `digit'.
PrintInit ==
  /\ number \in Numbers /\ register = << >> /\ pc = "decimal"
  /\ eax = number /\ edx = (Newline - ZeroChar) % 256 /\ esi = 0
  /\ nibbles = << >> /\ ecx = 0

HexInit ==
  /\ number = 0 /\ register \in Patterns /\ pc = "hex"
  /\ nibbles = register /\ ecx = 8
  /\ eax = 0 /\ edx = 0 /\ esi = 0

\* hello4.c: size_t is 8 or 16 nibbles wide.
Swapped(r) == SubSeq(r, Len(r) - 7, Len(r)) \o [k \in 1 .. Len(r) - 8 |-> 0]
CInit ==
  /\ number = 0 /\ register \in Patterns \cup Wide
  /\ pc \in {"hexprint", "xxprint", "hexprint3"}
  /\ nibbles = (IF pc = "hexprint3" THEN Swapped(register) ELSE register)
  /\ ecx = (IF pc = "hexprint3" THEN Len(register) \div 2 ELSE Len(register))
  /\ eax = 0 /\ edx = 0 /\ esi = 0

Init ==
  /\ PrintInit \/ HexInit \/ CInit
  /\ printer = (IF pc \in {"decimal", "hex"} THEN "asm" ELSE pc)
  /\ text = << >>

-----------------------------------------------------------------------------

\* Mutant: without cdq, edx is still the digit.
UpperHalfUncleared == edx

\* The upper half of the dividend: cdq makes it the sign of eax.
UpperHalf == IF eax >= MaxInt THEN W - 1 ELSE 0

\* Mutant: the loop looks at the quotient.
MoreByQuotient(quotient) == quotient # 0

\* jnz takes the flag test has left of the number before the division, as div
\* does not touch it "on my CPU"; the manual leaves it undefined.
More(quotient) == eax # 0

\* __print_loop: the digit is stored, then the next one divided off.
PrintDigit ==
  /\ pc = "decimal"
  /\ text' = << (edx + ZeroChar) % 256 >> \o text
  /\ esi' = esi + 1
  /\ IF UpperHalf >= 10
       THEN pc' = "sigfpe" /\ UNCHANGED << eax, edx >>
       ELSE LET dividend == (UpperHalf * W) + eax
            IN  /\ eax' = dividend \div 10 /\ edx' = dividend % 10
                /\ pc' = IF More(eax') THEN "decimal" ELSE "done"
  /\ UNCHANGED << number, register, nibbles, ecx, printer >>

\* cmp al, 10 sets the carry for a digit below 10; sbb subtracts it, too.
Sbb(nibble) ==
  LET carry == IF nibble < 10 THEN 1 ELSE 0
      difference == nibble - 105 - carry
  IN  [ al |-> difference % 256,
        cf |-> difference < 0,
        af |-> nibble < 9 + carry ]

\* Mutant: das, had it only looked at the digits.
DasUnflagged(r) ==
  (r.al - (IF r.al % 16 > 9 THEN 6 ELSE 0)
        - (IF r.al > 153 THEN 96 ELSE 0)) % 256

\* das: 6 off for the low digit, 0x60 off for the high one, each when the
\* digit is too large or its flag says that it has borrowed.
Das(r) ==
  (r.al - (IF r.al % 16 > 9 \/ r.af THEN 6 ELSE 0)
        - (IF r.al > 153 \/ r.cf THEN 96 ELSE 0)) % 256

\* tohex: rol by one nibble, print the lowest one.
HexDigit ==
  /\ pc = "hex"
  /\ nibbles' = Append(Tail(nibbles), Head(nibbles))
  /\ text' = Append(text, Das(Sbb(Head(nibbles))))
  /\ ecx' = ecx - 1
  /\ pc' = IF ecx = 1 THEN "done" ELSE "hex"
  /\ UNCHANGED << number, register, eax, edx, esi, printer >>

\* The characters hello4.c adds up: '0', 'A' - '9' - 1, and xxprint's 'G'.
Char(o) == o + ZeroChar + (IF o > 9 THEN 65 - 57 - 1 ELSE 0)
LowerChar(o) == o + ZeroChar + (IF o > 9 THEN 97 - 57 - 1 ELSE 0)
XxChar(o) == o + 71

\* Mutant: the newline goes where the last digit is.
EndCOverwrites(t) == IF ecx = 1 THEN Front(t) \o << Newline >> ELSE t
EndC(t) == IF ecx = 1 THEN t \o << Newline >> ELSE t
NextRound ==
  /\ ecx' = ecx - 1 /\ pc' = (IF ecx = 1 THEN "done" ELSE pc)
  /\ UNCHANGED << number, register, eax, edx, esi, printer >>

\* hexprint, xxprint: out[HEXLEN-1-i] from the lowest nibble, then a >> 4.
LowNibble ==
  /\ pc \in {"hexprint", "xxprint"}
  /\ LET o == Last(nibbles)
     IN  text' = EndC(<< IF pc = "xxprint" THEN XxChar(o) ELSE Char(o) >> \o text)
  /\ nibbles' = << 0 >> \o Front(nibbles)
  /\ NextRound

\* hexprint3: out[2*i] and out[2*i+1] from byte i of bswap32(a).
SwappedByte ==
  /\ pc = "hexprint3"
  /\ text' = EndC(text \o << LowerChar(nibbles[1]), LowerChar(nibbles[2]) >>)
  /\ nibbles' = SubSeq(nibbles, 3, Len(nibbles)) \o << 0, 0 >>
  /\ NextRound

Next == PrintDigit \/ HexDigit \/ LowNibble \/ SwappedByte

Spec == Init /\ [][Next]_vars /\ WF_vars(Next)

-----------------------------------------------------------------------------
(* Correctness.                                                            *)

\* A number in decimal without leading zeros, and a newline.
Powers == << 1, 10, 100, 1000, 10000, 100000, 1000000, 10000000, 100000000,
             1000000000 >>
Length(n) == CHOOSE k \in 1 .. 10 :
               /\ k = 10 \/ n < Powers[k + 1]
               /\ k = 1 \/ n >= Powers[k]
Decimal(n) ==
  [i \in 1 .. Length(n) |->
     ZeroChar + ((n \div Powers[(Length(n) - i) + 1]) % 10)] \o << Newline >>

HexChars == << 48, 49, 50, 51, 52, 53, 54, 55, 56, 57,
               65, 66, 67, 68, 69, 70 >>

Decimally == register = << >>
Printed == Decimally /\ pc = "done"

\* printnum prints every number from 1 to the largest positive one in decimal;
\* 0 is an empty line, as the loop tests a number before it divides it, and one
\* with its sign bit set kills the program: its quotient does not fit.
PrintsNumber ==
  Decimally =>
    /\ pc = "sigfpe" => number >= MaxInt
    /\ pc = "done" => /\ number < MaxInt
                      /\ text = IF number = 0 THEN << Newline >> ELSE Decimal(number)

\* What the macro tells the tracker after its loop: eax and edx are 0, esi is
\* a byte.  And it has not written below the bytes it has allocated.
LoopLeaves == Printed => eax = 0 /\ edx = 0 /\ esi = Len(text) /\ esi <= Room

\* tohex prints the register's digits, and its eight rotations restore it.
PrintsHex ==
  pc = "done" /\ ~Decimally /\ printer = "asm" =>
    /\ nibbles = register
    /\ text = [i \in 1 .. 8 |-> HexChars[register[i] + 1]]

\* hello4.c's printers print the register in hexadecimal, xxprint with digits
\* of its own; hexprint3, which swaps four bytes of a register of any width,
\* prints on 64 bits the lower half of it and then zeros.
PrintsHexC ==
  pc = "done" /\ printer # "asm" =>
    LET shown == IF printer = "hexprint3" THEN Swapped(register) ELSE register
        digit(n) == CASE printer = "hexprint" -> HexChars[n + 1]
                      [] printer = "xxprint" -> 71 + n
                      [] OTHER -> IF n > 9 THEN HexChars[n + 1] + 32 ELSE HexChars[n + 1]
    IN  text = [i \in DOMAIN shown |-> digit(shown[i])] \o << Newline >>
=============================================================================
