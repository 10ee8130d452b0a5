----------------------------- MODULE DigitsProofs -----------------------------
(***************************************************************************)
(* Theorems about Digits: printnum prints every positive number, tohex     *)
(* every register, and hello4.c's printers registers of both widths.       *)
(***************************************************************************)
EXTENDS Digits, SequenceTheorems, TLAPS

Nibble == 0 .. 15

\* The place of the register's digit that is at i after `turns' rotations.
Turn(i, turns) == IF i + turns > 8 THEN i + turns - 8 ELSE i + turns

(***************************************************************************)
(* tohex between two rounds: as many digits are written as the register    *)
(* has been rotated by, and 8 rotations are none.                          *)
(***************************************************************************)
Rotated ==
  /\ register \in [1 .. 8 -> Nibble] /\ ecx \in 0 .. 8
  /\ nibbles \in [1 .. 8 -> Nibble]
  /\ \A i \in 1 .. 8 : nibbles[i] = register[Turn(i, 8 - ecx)]
  /\ text \in Seq(Int) /\ Len(text) = 8 - ecx
  /\ \A i \in 1 .. 8 - ecx : text[i] = HexChars[register[i] + 1]

\* Which loop is running, or has ended.
CPrinters == {"hexprint", "xxprint", "hexprint3"}
Loops ==
  \/ printer = "asm" /\ register = << >> /\ pc \in {"decimal", "done", "sigfpe"}
  \/ printer = "asm" /\ pc = "hex" /\ Rotated /\ ecx # 0
  \/ printer = "asm" /\ pc = "done" /\ Rotated /\ ecx = 0
  \/ printer \in CPrinters /\ pc \in CPrinters \cup {"done"}

-----------------------------------------------------------------------------
(* The arithmetic.                                                         *)

\* cmp, sbb and das turn a nibble into the character of its digit.
LEMMA DasDigit ==
  ASSUME NEW n \in Nibble
  PROVE  Das(Sbb(n)) = HexChars[n + 1] /\ Das(Sbb(n)) \in Int
<1>1. CASE n \in 0 .. 9
  <2> DEFINE d == n - 106
  <2>1. Sbb(n) = [al |-> d % 256, cf |-> d < 0, af |-> n < 10]
    BY <1>1 DEF Sbb, Nibble
  <2>2. d % 256 = 150 + n /\ (d < 0) = TRUE /\ (n < 10) = TRUE
    BY <1>1 DEF Nibble
  <2>3. Sbb(n).al = d % 256 /\ Sbb(n).cf = (d < 0) /\ Sbb(n).af = (n < 10)
    <3> DEFINE al == d % 256
               cf == d < 0
               af == n < 10
    <3>1. Sbb(n) = [al |-> al, cf |-> cf, af |-> af]
      BY <2>1
    <3> HIDE DEF al, cf, af
    <3>2. Sbb(n).al = al /\ Sbb(n).cf = cf /\ Sbb(n).af = af
      BY <3>1
    <3> QED  BY <3>2 DEF al, cf, af
  <2>4. Sbb(n).al = 150 + n /\ Sbb(n).cf = TRUE /\ Sbb(n).af = TRUE
    BY <2>2, <2>3
  <2>5. Das(Sbb(n)) = 48 + n
    BY <1>1, <2>4 DEF Das, Nibble
  <2> QED  BY <1>1, <2>5 DEF HexChars, Nibble
<1>2. CASE n \in 10 .. 15
  <2> DEFINE d == n - 105
  <2>1. Sbb(n) = [al |-> d % 256, cf |-> d < 0, af |-> n < 9]
    BY <1>2 DEF Sbb, Nibble
  <2>2. d % 256 = 151 + n /\ (d < 0) = TRUE /\ (n < 9) = FALSE
    BY <1>2 DEF Nibble
  <2>3. Sbb(n).al = d % 256 /\ Sbb(n).cf = (d < 0) /\ Sbb(n).af = (n < 9)
    <3> DEFINE al == d % 256
               cf == d < 0
               af == n < 9
    <3>1. Sbb(n) = [al |-> al, cf |-> cf, af |-> af]
      BY <2>1
    <3> HIDE DEF al, cf, af
    <3>2. Sbb(n).al = al /\ Sbb(n).cf = cf /\ Sbb(n).af = af
      BY <3>1
    <3> QED  BY <3>2 DEF al, cf, af
  <2>4. Sbb(n).al = 151 + n /\ Sbb(n).cf = TRUE /\ Sbb(n).af = FALSE
    BY <2>2, <2>3
  <2>5. Das(Sbb(n)) = 55 + n
    BY <1>2, <2>4 DEF Das, Nibble
  <2> QED  BY <1>2, <2>5 DEF HexChars, Nibble
<1> QED  BY <1>1, <1>2 DEF Nibble

-----------------------------------------------------------------------------
(* The rounds.                                                             *)

LEMMA InitLoops == Init => Loops
<1> SUFFICES ASSUME Init  PROVE Loops
  OBVIOUS
<1>1. printer = (IF pc \in {"decimal", "hex"} THEN "asm" ELSE pc) /\ text = << >>
  BY DEF Init
<1>2. CASE PrintInit
  BY <1>1, <1>2 DEF PrintInit, Loops
<1>3. CASE HexInit
  <2>1. register \in [1 .. 8 -> Nibble] /\ nibbles = register /\ ecx = 8 /\ pc = "hex"
    BY <1>3, NumbersAssumption DEF HexInit, Nibble
  <2>2. \A i \in 1 .. 8 : Turn(i, 8 - ecx) = i
    BY <2>1 DEF Turn
  <2>3. text \in Seq(Int) /\ Len(text) = 0 /\ 1 .. 8 - ecx = {}
    BY <1>1, <2>1
  <2>4. Rotated
    BY <2>1, <2>2, <2>3 DEF Rotated
  <2> QED  BY <1>1, <2>1, <2>4 DEF Loops
<1>4. CASE CInit
  BY <1>1, <1>4 DEF CInit, Loops, CPrinters
<1> QED  BY <1>2, <1>3, <1>4 DEF Init

\* One round of tohex writes the next digit and rotates by one.
LEMMA Round ==
  ASSUME Rotated, ecx # 0, HexDigit
  PROVE  Rotated' /\ ecx' = ecx - 1
<1>1. /\ nibbles' = Append(Tail(nibbles), Head(nibbles))
      /\ text' = Append(text, Das(Sbb(Head(nibbles))))
      /\ ecx' = ecx - 1 /\ register' = register
  BY DEF HexDigit
<1>2. /\ register \in [1 .. 8 -> Nibble] /\ ecx \in 1 .. 8
      /\ nibbles \in [1 .. 8 -> Nibble]
      /\ \A i \in 1 .. 8 : nibbles[i] = register[Turn(i, 8 - ecx)]
      /\ text \in Seq(Int) /\ Len(text) = 8 - ecx
      /\ \A i \in 1 .. 8 - ecx : text[i] = HexChars[register[i] + 1]
  BY SMTT(30) DEF Rotated
<1>3. nibbles \in Seq(Nibble) /\ Len(nibbles) = 8 /\ nibbles # << >>
  <2>1. nibbles \in Seq(Nibble)
    <3>1. nibbles \in UNION {[1 .. n -> Nibble] : n \in Nat}
      BY <1>2
    <3> QED  BY <3>1, SeqDef
  <2>2. Len(nibbles) = 8
    BY <1>2, <2>1, LenProperties
  <2>3. nibbles # << >>
    BY <2>2
  <2> QED  BY <2>1, <2>2, <2>3
<1>4. /\ Head(nibbles) = nibbles[1] /\ Head(nibbles) \in Nibble
      /\ Tail(nibbles) \in Seq(Nibble) /\ Len(Tail(nibbles)) = 7
      /\ \A i \in 1 .. 7 : Tail(nibbles)[i] = nibbles[i + 1]
  <2>1. /\ Head(nibbles) \in Nibble /\ Tail(nibbles) \in Seq(Nibble)
        /\ Len(Tail(nibbles)) = Len(nibbles) - 1
        /\ \A i \in 1 .. Len(Tail(nibbles)) : Tail(nibbles)[i] = nibbles[i + 1]
    BY <1>3, HeadTailProperties
  <2>2. Head(nibbles) = nibbles[1]
    BY <1>3
  <2>3. Len(Tail(nibbles)) = 7
    BY <1>3, <2>1
  <2>4. \A i \in 1 .. 7 : Tail(nibbles)[i] = nibbles[i + 1]
    BY <2>1, <2>3
  <2> QED  BY <2>1, <2>2, <2>3, <2>4
<1>5. /\ nibbles' \in Seq(Nibble) /\ Len(nibbles') = 8
      /\ \A i \in 1 .. 7 : nibbles'[i] = nibbles[i + 1]
      /\ nibbles'[8] = nibbles[1]
  <2> DEFINE t == Tail(nibbles)
             h == Head(nibbles)
             s == Append(t, h)
  <2>1. /\ s \in Seq(Nibble) /\ Len(s) = Len(t) + 1 /\ s[Len(t) + 1] = h
        /\ \A i \in 1 .. Len(t) : s[i] = t[i]
    <3>1. t \in Seq(Nibble) /\ h \in Nibble
      BY <1>4
    <3> HIDE DEF t, h
    <3> QED  BY <3>1, AppendProperties
  <2>2. Len(t) = 7
    BY <1>4
  <2>3. Len(s) = 8 /\ s[8] = h /\ \A i \in 1 .. 7 : s[i] = t[i]
    <3> HIDE DEF s, t, h
    <3> QED  BY <2>1, <2>2
  <2> QED  BY <1>1, <1>4, <2>1, <2>3
<1>6. nibbles' \in [1 .. 8 -> Nibble]
  BY <1>5, LenProperties
<1>7. \A i \in 1 .. 8 : nibbles'[i] = register'[Turn(i, 8 - ecx')]
  <2> SUFFICES ASSUME NEW i \in 1 .. 8
               PROVE  nibbles'[i] = register[Turn(i, 8 - ecx')]
    BY <1>1
  <2>1. 8 - ecx' = (8 - ecx) + 1 /\ 8 - ecx \in 0 .. 7
    BY <1>1, <1>2
  <2>2. CASE i # 8
    <3>1. i \in 1 .. 7 /\ i + 1 \in 1 .. 8
      BY <2>2
    <3>2. Turn(i, 8 - ecx') = Turn(i + 1, 8 - ecx)
      BY <2>1 DEF Turn
    <3> QED  BY <3>1, <3>2, <1>2, <1>5
  <2>3. CASE i = 8
    <3>1. Turn(8, 8 - ecx') = Turn(1, 8 - ecx)
      BY <2>1 DEF Turn
    <3> QED  BY <2>3, <3>1, <1>2, <1>5
  <2> QED  BY <2>2, <2>3
<1>8. Das(Sbb(Head(nibbles))) = HexChars[register[9 - ecx] + 1] /\ Das(Sbb(Head(nibbles))) \in Int
  <2>1. Turn(1, 8 - ecx) = 9 - ecx
    BY <1>2 DEF Turn
  <2>2. Head(nibbles) = register[9 - ecx]
    <3>1. nibbles[1] = register[Turn(1, 8 - ecx)]
      BY <1>2
    <3> QED  BY <2>1, <3>1, <1>4
  <2> QED  BY <2>2, <1>4, DasDigit
<1>9. /\ text' \in Seq(Int) /\ Len(text') = 9 - ecx
      /\ \A i \in 1 .. 8 - ecx : text'[i] = text[i]
      /\ text'[9 - ecx] = HexChars[register[9 - ecx] + 1]
  BY <1>1, <1>2, <1>8
<1>10. \A i \in 1 .. 8 - ecx' : text'[i] = HexChars[register'[i] + 1]
  <2> SUFFICES ASSUME NEW i \in 1 .. 8 - ecx'
               PROVE  text'[i] = HexChars[register[i] + 1]
    BY <1>1
  <2>1. i \in 1 .. 8 - ecx \/ i = 9 - ecx
    BY <1>1, <1>2
  <2> QED  BY <2>1, <1>2, <1>9
<1>11. ecx' \in 0 .. 8 /\ 8 - ecx' = 9 - ecx
  BY <1>1, <1>2
<1> QED  BY <1>1, <1>2, <1>6, <1>7, <1>9, <1>10, <1>11 DEF Rotated

LEMMA StepLoops == Loops /\ [Next]_vars => Loops'
<1> SUFFICES ASSUME Loops, [Next]_vars  PROVE Loops'
  OBVIOUS
<1>1. CASE PrintDigit
  <2>1. pc = "decimal" /\ printer' = printer /\ register' = register
        /\ pc' \in {"decimal", "done", "sigfpe"}
    BY <1>1 DEF PrintDigit
  <2> QED  BY <2>1 DEF Loops, CPrinters
<1>2. CASE HexDigit
  <2>1. pc = "hex" /\ printer' = printer /\ pc' = (IF ecx = 1 THEN "done" ELSE "hex")
    BY <1>2 DEF HexDigit
  <2>2. printer = "asm" /\ Rotated /\ ecx # 0
    BY <2>1 DEF Loops, CPrinters
  <2>3. Rotated' /\ ecx' = ecx - 1
    BY <1>2, <2>2, Round
  <2>4. (ecx = 1 => ecx' = 0) /\ (ecx # 1 => ecx' # 0)
    BY <2>2, <2>3 DEF Rotated
  <2> QED  BY <2>1, <2>2, <2>3, <2>4 DEF Loops
<1>3. CASE LowNibble \/ SwappedByte
  <2>1. pc \in CPrinters /\ printer' = printer /\ pc' = (IF ecx = 1 THEN "done" ELSE pc)
    BY <1>3 DEF LowNibble, SwappedByte, NextRound, CPrinters
  <2>2. printer \in CPrinters
    BY <2>1 DEF Loops, CPrinters
  <2> QED  BY <2>1, <2>2 DEF Loops
<1>4. CASE UNCHANGED vars
  BY <1>4 DEF vars, Loops, Rotated
<1> QED  BY <1>1, <1>2, <1>3, <1>4 DEF Next

THEOREM LoopsHold == Spec => []Loops
BY InitLoops, StepLoops, PTL DEF Spec

\* tohex prints the digits of every register and leaves it as it was.
THEOREM HexPrinted == Spec => []PrintsHex
<1>1. Loops => PrintsHex
  <2> SUFFICES ASSUME Loops, pc = "done", register # << >>, printer = "asm"
               PROVE  /\ nibbles = register
                      /\ text = [i \in 1 .. 8 |-> HexChars[register[i] + 1]]
    BY DEF PrintsHex, Decimally
  <2>1. Rotated /\ ecx = 0
    BY DEF Loops, CPrinters
  <2>2. /\ register \in [1 .. 8 -> Nibble] /\ nibbles \in [1 .. 8 -> Nibble]
        /\ \A i \in 1 .. 8 : nibbles[i] = register[Turn(i, 8)]
        /\ text \in Seq(Int) /\ Len(text) = 8
        /\ \A i \in 1 .. 8 : text[i] = HexChars[register[i] + 1]
    BY <2>1 DEF Rotated
  <2>3. \A i \in 1 .. 8 : Turn(i, 8) = i
    BY DEF Turn
  <2>4. nibbles = register
    <3>1. \A i \in 1 .. 8 : nibbles[i] = register[i]
      BY <2>2, <2>3
    <3>2. nibbles \in [1 .. 8 -> Nibble] /\ register \in [1 .. 8 -> Nibble]
      BY <2>2
    <3> QED  BY <3>1, <3>2
  <2>5. text \in [1 .. 8 -> Int]
    BY <2>2, LenProperties
  <2> QED  BY <2>2, <2>4, <2>5
<1> QED  BY <1>1, LoopsHold, PTL

-----------------------------------------------------------------------------
(* printnum.                                                               *)

\* A number of up to ten digits without its last j.
Quot(n, j) == IF j < 10 THEN n \div Powers[j + 1] ELSE 0
TenDigits == 10000000000

\* A digit less is a power of ten more to divide by.
LEMMA DivTwice ==
  ASSUME NEW n \in Nat, NEW p \in {10, 100, 1000, 10000, 100000, 1000000,
                                   10000000, 100000000}
  PROVE  (n \div p) \div 10 = n \div (10 * p)
<1> DEFINE a == n \div p
           b == a \div 10
<1>1. p = 10 => b = n \div 100
  OBVIOUS
<1>2. p = 100 => b = n \div 1000
  OBVIOUS
<1>3. p = 1000 => b = n \div 10000
  OBVIOUS
<1>4. p = 10000 => b = n \div 100000
  OBVIOUS
<1>5. p = 100000 => b = n \div 1000000
  OBVIOUS
<1>6. p = 1000000 => b = n \div 10000000
  OBVIOUS
<1>7. p = 10000000 => b = n \div 100000000
  OBVIOUS
<1>8. p = 100000000 => b = n \div 1000000000
  OBVIOUS
<1> QED  BY <1>1, <1>2, <1>3, <1>4, <1>5, <1>6, <1>7, <1>8

LEMMA Quotients ==
  ASSUME NEW n \in Nat, n < TenDigits
  PROVE  /\ Quot(n, 0) = n /\ Quot(n, 10) = 0 /\ Quot(n, 11) = 0
         /\ \A j \in 0 .. 10 :
              /\ Quot(n, j) \in Nat /\ Quot(n, j) <= n
              /\ Quot(n, j + 1) = Quot(n, j) \div 10
<1>1. /\ Quot(n, 0) = n \div 1 /\ Quot(n, 1) = n \div 10
      /\ Quot(n, 2) = n \div 100 /\ Quot(n, 3) = n \div 1000
      /\ Quot(n, 4) = n \div 10000 /\ Quot(n, 5) = n \div 100000
      /\ Quot(n, 6) = n \div 1000000 /\ Quot(n, 7) = n \div 10000000
      /\ Quot(n, 8) = n \div 100000000 /\ Quot(n, 9) = n \div 1000000000
      /\ Quot(n, 10) = 0 /\ Quot(n, 11) = 0
  BY DEF Quot, Powers
<1>2. /\ n \div 1 = n
      /\ (n \div 10) \div 10 = n \div 100
      /\ (n \div 100) \div 10 = n \div 1000
      /\ (n \div 1000) \div 10 = n \div 10000
      /\ (n \div 10000) \div 10 = n \div 100000
      /\ (n \div 100000) \div 10 = n \div 1000000
      /\ (n \div 1000000) \div 10 = n \div 10000000
      /\ (n \div 10000000) \div 10 = n \div 100000000
      /\ (n \div 100000000) \div 10 = n \div 1000000000
  BY DivTwice
<1>3. (n \div 1000000000) \div 10 = 0
  BY DEF TenDigits
<1>4. \A j \in 0 .. 10 : Quot(n, j + 1) = Quot(n, j) \div 10
  <2> SUFFICES ASSUME NEW j \in 0 .. 10
               PROVE  Quot(n, j + 1) = Quot(n, j) \div 10
    OBVIOUS
  <2>1. j \in {0, 1, 2, 3, 4, 5, 6, 7, 8, 9, 10}
    OBVIOUS
  <2> HIDE DEF Quot
  <2> QED  BY <2>1, <1>1, <1>2, <1>3
<1>5. \A j \in 0 .. 10 : Quot(n, j) \in Nat /\ Quot(n, j) <= n
  <2> SUFFICES ASSUME NEW j \in 0 .. 10
               PROVE  Quot(n, j) \in Nat /\ Quot(n, j) <= n
    OBVIOUS
  <2>1. j \in {0, 1, 2, 3, 4, 5, 6, 7, 8, 9, 10}
    OBVIOUS
  <2> QED  BY <2>1, <1>1
<1> QED  BY <1>1, <1>2, <1>4, <1>5

\* How many digits a number has.
LEMMA DigitsOf ==
  ASSUME NEW n \in Nat, n < TenDigits,
         NEW k \in 1 .. 10, Quot(n, k) = 0, Quot(n, k - 1) # 0
  PROVE  Length(n) = k
<1> DEFINE Has(l) == (l = 10 \/ n < Powers[l + 1]) /\ (l = 1 \/ n >= Powers[l])
<1>1. Has(k)
  <2>1. k \in {1, 2, 3, 4, 5, 6, 7, 8, 9, 10}
    OBVIOUS
  <2> QED  BY <2>1 DEF Quot, Powers, TenDigits
<1>2. ASSUME NEW l \in 1 .. 10, Has(l)  PROVE l = k
  <2>1. \A i \in 1 .. 10 : Powers[i] \in Nat
    BY DEF Powers
  <2>2. \A i, j \in 1 .. 10 : i < j => Powers[i] < Powers[j]
    BY DEF Powers
  <2>3. l < k => FALSE
    <3> SUFFICES ASSUME l < k  PROVE FALSE
      OBVIOUS
    <3>1. n < Powers[l + 1] /\ n >= Powers[k] /\ l + 1 \in 1 .. 10
      BY <1>1, <1>2
    <3>2. Powers[l + 1] <= Powers[k]
      BY <2>1, <2>2, <3>1
    <3> QED  BY <2>1, <3>1, <3>2
  <2>4. l > k => FALSE
    <3> SUFFICES ASSUME l > k  PROVE FALSE
      OBVIOUS
    <3>1. n < Powers[k + 1] /\ n >= Powers[l] /\ k + 1 \in 1 .. 10
      BY <1>1, <1>2
    <3>2. Powers[k + 1] <= Powers[l]
      BY <2>1, <2>2, <3>1
    <3> QED  BY <2>1, <3>1, <3>2
  <2> QED  BY <2>3, <2>4
<1>3. Length(n) = CHOOSE l \in 1 .. 10 : Has(l)
  BY DEF Length
<1> HIDE DEF Has
<1> QED  BY <1>1, <1>2, <1>3

(***************************************************************************)
(* printnum between two rounds: eax is the number without the digits that  *)
(* are written, edx the last of it that is not yet; and the loop goes on   *)
(* until a digit after the number's first has been divided off.            *)
(***************************************************************************)
Divided ==
  /\ eax = Quot(number, esi)
  /\ esi = 0 => edx = (Newline - ZeroChar) % 256
  /\ esi > 0 => /\ number < MaxInt
                /\ edx = Quot(number, esi - 1) % 10
                /\ text[esi] = Newline
  /\ \A i \in 1 .. esi - 1 : text[i] = ZeroChar + (Quot(number, (esi - 1) - i) % 10)
  /\ pc = "decimal" => esi = 0 \/ Quot(number, esi - 1) # 0
  /\ pc = "done" => /\ esi > 0 /\ Quot(number, esi - 1) = 0
                    /\ esi > 1 => Quot(number, esi - 2) # 0

DecimalRounds ==
  printer = "asm" /\ register = << >> =>
    /\ number \in Nat /\ number < W
    /\ esi \in 0 .. 11 /\ text \in Seq(Int) /\ Len(text) = esi
    /\ pc \in {"decimal", "done", "sigfpe"}
    /\ pc = "sigfpe" => number >= MaxInt
    /\ pc # "sigfpe" => Divided

LEMMA Words == /\ W \in Nat /\ W > 256 /\ W < TenDigits
               /\ TenDigits \in Nat
               /\ MaxInt \in Nat /\ MaxInt > 10 /\ MaxInt < TenDigits
BY WidthAssumption DEF MaxInt, TenDigits

LEMMA InitDecimal == Init => DecimalRounds
<1> SUFFICES ASSUME Init, printer = "asm", register = << >>
             PROVE  /\ number \in Nat /\ number < W
                    /\ esi \in 0 .. 11 /\ text \in Seq(Int) /\ Len(text) = esi
                    /\ pc = "decimal" /\ Divided
  BY DEF DecimalRounds
<1>1. text = << >> /\ printer = (IF pc \in {"decimal", "hex"} THEN "asm" ELSE pc)
  BY DEF Init
<1>2. PrintInit
  <2>1. CASE HexInit
    <3>1. register \in [1 .. 8 -> Nibble]
      BY <2>1, NumbersAssumption DEF HexInit, Nibble
    <3>2. Len(register) = 8
      <4>1. register \in Seq(Nibble)
        BY <3>1, SeqDef
      <4> QED  BY <3>1, <4>1, LenProperties
    <3> QED  BY <3>2
  <2>2. CASE CInit
    BY <1>1, <2>2 DEF CInit
  <2> QED  BY <2>1, <2>2 DEF Init
<1>3. /\ number \in 0 .. W - 1 /\ pc = "decimal" /\ eax = number
      /\ edx = (Newline - ZeroChar) % 256 /\ esi = 0
  BY <1>2, NumbersAssumption DEF PrintInit
<1>4. number \in Nat /\ number < W /\ number < TenDigits
  BY <1>3, Words
<1>5. Quot(number, 0) = number
  BY <1>4, Quotients
<1>6. Divided
  BY <1>3, <1>5 DEF Divided
<1> QED  BY <1>1, <1>3, <1>4, <1>6

\* One round of printnum, within the numbers it can divide.
LEMMA DigitStep ==
  ASSUME DecimalRounds, printer = "asm", register = << >>, PrintDigit
  PROVE  DecimalRounds'
<1>1. /\ pc = "decimal" /\ esi' = esi + 1
      /\ text' = << (edx + ZeroChar) % 256 >> \o text
      /\ UNCHANGED << number, register, printer >>
  BY DEF PrintDigit
<1>2. /\ number \in Nat /\ number < W /\ number < TenDigits
      /\ esi \in 0 .. 11 /\ text \in Seq(Int) /\ Len(text) = esi
      /\ Divided
  BY <1>1, Words DEF DecimalRounds
<1>3. /\ Quot(number, 0) = number /\ Quot(number, 10) = 0
      /\ \A j \in 0 .. 10 : /\ Quot(number, j) \in Nat /\ Quot(number, j) <= number
                            /\ Quot(number, j + 1) = Quot(number, j) \div 10
  BY <1>2, Quotients
<1>4. esi \in 0 .. 10
  BY <1>1, <1>2, <1>3 DEF Divided
<1>5. eax = Quot(number, esi) /\ eax \in Nat /\ eax <= number
  BY <1>2, <1>3, <1>4 DEF Divided
<1> DEFINE c == (edx + ZeroChar) % 256
<1>6. /\ c \in Int
      /\ esi = 0 => c = Newline
      /\ esi > 0 => c = ZeroChar + (Quot(number, esi - 1) % 10)
  <2>1. CASE esi = 0
    <3>1. edx = 218
      <4>1. edx = (Newline - ZeroChar) % 256
        BY <1>2, <2>1 DEF Divided
      <4>2. (Newline - ZeroChar) % 256 = 218
        <5>1. \A d \in Int : d + 38 = 0 => d % 256 = 218
          OBVIOUS
        <5>2. Newline - ZeroChar \in Int /\ (Newline - ZeroChar) + 38 = 0
          BY DEF Newline, ZeroChar
        <5> HIDE DEF Newline, ZeroChar
        <5> QED  BY <5>1, <5>2
      <4> QED  BY <4>1, <4>2
    <3> QED  BY <2>1, <3>1 DEF Newline, ZeroChar
  <2>2. CASE esi > 0
    <3>1. edx = Quot(number, esi - 1) % 10 /\ Quot(number, esi - 1) \in Nat
      <4>1. edx = Quot(number, esi - 1) % 10
        BY <1>2, <2>2 DEF Divided
      <4>2. esi - 1 \in 0 .. 10
        BY <1>4, <2>2
      <4> QED  BY <1>3, <4>1, <4>2
    <3>2. edx \in 0 .. 9
      BY <3>1
    <3> QED  BY SMTT(30), <2>2, <3>1, <3>2 DEF ZeroChar
  <2> QED  BY <1>4, <2>1, <2>2
<1>7. /\ text' \in Seq(Int) /\ Len(text') = esi' /\ text'[1] = c
      /\ \A i \in 2 .. esi' : text'[i] = text[i - 1]
  <2> HIDE DEF c
  <2> DEFINE h == << c >>
  <2>1. h \in Seq(Int) /\ Len(h) = 1 /\ h[1] = c
    BY <1>6
  <2> HIDE DEF h
  <2>2. /\ h \o text \in Seq(Int) /\ Len(h \o text) = 1 + esi
        /\ \A i \in 1 .. 1 + esi : (h \o text)[i] = IF i <= 1 THEN h[i] ELSE text[i - 1]
    <3>1. /\ h \o text \in Seq(Int) /\ Len(h \o text) = Len(h) + Len(text)
          /\ \A i \in 1 .. Len(h) + Len(text) :
               (h \o text)[i] = IF i <= Len(h) THEN h[i] ELSE text[i - Len(h)]
      BY <1>2, <2>1, ConcatProperties
    <3> QED  BY <1>2, <2>1, <3>1
  <2>3. text' = h \o text
    BY <1>1 DEF c, h
  <2> QED  BY <1>1, <1>4, <2>1, <2>2, <2>3
<1> HIDE DEF c
<1>8. CASE eax >= MaxInt
  <2>1. UpperHalf >= 10
    BY <1>8, Words DEF UpperHalf
  <2>2. pc' = "sigfpe"
    BY <2>1 DEF PrintDigit
  <2>3. number >= MaxInt /\ esi' \in 0 .. 11
    BY <1>1, <1>2, <1>4, <1>5, <1>8, Words
  <2> QED  BY <1>1, <1>2, <1>7, <2>2, <2>3 DEF DecimalRounds, MaxInt
<1>9. CASE eax < MaxInt
  <2>1. UpperHalf = 0
    BY <1>5, <1>9, Words DEF UpperHalf
  <2>2. (UpperHalf * W) + eax = eax
    BY <1>5, <2>1, Words
  <2>3. /\ eax' = eax \div 10 /\ edx' = eax % 10
        /\ pc' = IF eax # 0 THEN "decimal" ELSE "done"
    BY <2>1, <2>2 DEF PrintDigit, More
  <2>4. eax' = Quot(number, esi') /\ edx' = Quot(number, esi' - 1) % 10
    <3>1. Quot(number, esi + 1) = eax \div 10
      BY <1>3, <1>4, <1>5
    <3>2. esi' - 1 = esi
      BY <1>1, <1>4
    <3> QED  BY <1>1, <1>5, <2>3, <3>1, <3>2
  <2>5. number < MaxInt
    <3>1. esi = 0 => eax = number
      BY <1>3, <1>5
    <3> QED  BY <1>2, <1>4, <1>9, <3>1 DEF Divided
  <2>6. text'[esi'] = Newline
    <3>1. CASE esi = 0
      <4>1. esi' = 1
        BY <1>1, <3>1
      <4> QED  BY <1>6, <1>7, <3>1, <4>1
    <3>2. CASE esi > 0
      <4>1. esi' \in 2 .. esi' /\ esi' - 1 = esi
        BY <1>1, <1>4, <3>2
      <4>2. text[esi] = Newline
        BY <1>2, <3>2 DEF Divided
      <4> QED  BY <1>7, <4>1, <4>2
    <3> QED  BY <1>4, <3>1, <3>2
  <2>7. \A i \in 1 .. esi' - 1 : text'[i] = ZeroChar + (Quot(number, (esi' - 1) - i) % 10)
    <3> SUFFICES ASSUME NEW i \in 1 .. esi
                 PROVE  text'[i] = ZeroChar + (Quot(number, esi - i) % 10)
      <4>1. esi' - 1 = esi
        BY <1>1, <1>4
      <4> QED  BY <4>1
    <3>1. CASE i = 1
      <4>1. esi > 0
        BY <1>4
      <4> QED  BY <1>6, <1>7, <3>1, <4>1
    <3>2. CASE i > 1
      <4>1. i - 1 \in 1 .. esi - 1 /\ i \in 2 .. esi' /\ (esi - 1) - (i - 1) = esi - i
        BY <1>1, <1>4, <3>2
      <4>2. text[i - 1] = ZeroChar + (Quot(number, (esi - 1) - (i - 1)) % 10)
        BY <1>2, <4>1 DEF Divided
      <4> QED  BY <1>7, <4>1, <4>2
    <3> QED  BY <3>1, <3>2
  <2>8. pc' = "decimal" => Quot(number, esi' - 1) # 0
    BY <1>1, <1>4, <1>5, <2>3
  <2>9. pc' = "done" => /\ esi' > 0 /\ Quot(number, esi' - 1) = 0
                        /\ esi' > 1 => Quot(number, esi' - 2) # 0
    <3>1. pc' = "done" => eax = 0
      BY <2>3
    <3>2. esi' - 1 = esi /\ esi' - 2 = esi - 1 /\ esi' > 0
      BY <1>1, <1>4
    <3>3. esi > 0 => Quot(number, esi - 1) # 0
      BY <1>1, <1>2 DEF Divided
    <3> QED  BY <1>1, <1>4, <1>5, <3>1, <3>2, <3>3
  <2>10. esi' \in 1 .. 11
    BY <1>1, <1>4
  <2>11. Divided'
    <3>1. number' = number
      BY <1>1
    <3> DEFINE q(j) == Quot(number, j)
    <3>2. /\ eax' = q(esi')
          /\ esi' > 0 /\ esi' # 0
          /\ number' < MaxInt /\ edx' = q(esi' - 1) % 10 /\ text'[esi'] = Newline
          /\ \A i \in 1 .. esi' - 1 : text'[i] = ZeroChar + (q((esi' - 1) - i) % 10)
          /\ pc' = "decimal" => q(esi' - 1) # 0
          /\ pc' = "done" => q(esi' - 1) = 0
          /\ pc' = "done" /\ esi' > 1 => q(esi' - 2) # 0
      <4>1. esi' > 0 /\ esi' # 0
        BY <2>10
      <4>2. number' < MaxInt
        BY <2>5, <3>1
      <4> QED  BY <2>4, <2>6, <2>7, <2>8, <2>9, <4>1, <4>2
    <3>3. \A j : Quot(number', j) = q(j)
      BY <3>1
    <3> HIDE DEF q
    <3> QED  BY <3>2, <3>3 DEF Divided, MaxInt
  <2>12. pc' \in {"decimal", "done"}
    BY <2>3
  <2> QED  BY <1>1, <1>2, <1>7, <2>10, <2>11, <2>12 DEF DecimalRounds
<1> QED  BY <1>5, <1>8, <1>9, Words

LEMMA StepDecimal == DecimalRounds /\ [Next]_vars => DecimalRounds'
<1> SUFFICES ASSUME DecimalRounds, [Next]_vars, printer' = "asm", register' = << >>
             PROVE  DecimalRounds'
  BY DEF DecimalRounds
<1>1. printer = "asm" /\ register = << >>
  BY DEF Next, PrintDigit, HexDigit, LowNibble, SwappedByte, NextRound, vars
<1>2. pc \in {"decimal", "done", "sigfpe"}
  BY <1>1 DEF DecimalRounds
<1>3. CASE PrintDigit
  BY <1>1, <1>3, DigitStep
<1>4. CASE HexDigit \/ LowNibble \/ SwappedByte
  BY <1>2, <1>4 DEF HexDigit, LowNibble, SwappedByte
<1>5. CASE UNCHANGED vars
  BY <1>5 DEF vars, DecimalRounds, Divided
<1> QED  BY <1>3, <1>4, <1>5 DEF Next

-----------------------------------------------------------------------------
(* The printers of hello4.c.                                               *)

Shown == IF printer = "hexprint3" THEN Swapped(register) ELSE register
CDigit(p, n) ==
  CASE p = "hexprint" -> HexChars[n + 1]
    [] p = "xxprint" -> 71 + n
    [] OTHER -> IF n > 9 THEN HexChars[n + 1] + 32 ELSE HexChars[n + 1]

\* hexprint and xxprint between two rounds: the ecx nibbles that are not yet
\* printed are the last ones, and their digits go before those written.
FromBelow(n) ==
  /\ ecx \in 1 .. n /\ Len(text) = n - ecx
  /\ \A i \in 1 .. n : i > n - ecx => nibbles[i] = register[i - (n - ecx)]
  /\ \A i \in 1 .. n - ecx : text[i] = CDigit(printer, register[ecx + i])

\* hexprint3: two nibbles a round, from the first.
FromAbove(n) ==
  /\ ecx \in 1 .. n \div 2 /\ Len(text) = n - (2 * ecx)
  /\ \A i \in 1 .. 2 * ecx : nibbles[i] = Shown[i + (n - (2 * ecx))]
  /\ \A i \in 1 .. n - (2 * ecx) : text[i] = CDigit(printer, Shown[i])

CRound(n) ==
  /\ register \in Seq(Nibble) /\ Len(register) = n
  /\ nibbles \in Seq(Nibble) /\ Len(nibbles) = n
  /\ text \in Seq(Int) /\ pc \in {printer, "done"}
  /\ pc = printer => IF printer = "hexprint3" THEN FromAbove(n) ELSE FromBelow(n)
  /\ pc = "done" =>
       /\ Len(text) = n + 1 /\ text[n + 1] = Newline
       /\ \A i \in 1 .. n : text[i] = CDigit(printer, Shown[i])

CRounds == printer \in CPrinters => \E n \in {8, 16} : CRound(n)

LEMMA AsSeq ==
  ASSUME NEW S, NEW n \in Nat, NEW f \in [1 .. n -> S]
  PROVE  f \in Seq(S) /\ Len(f) = n
<1>1. f \in Seq(S)
  BY SeqDef
<1>2. Len(f) \in Nat /\ DOMAIN f = 1 .. Len(f) /\ DOMAIN f = 1 .. n
  BY <1>1, LenProperties
<1> QED  BY <1>1, <1>2

\* Four bytes are swapped; those of a wider register that are left become 0.
LEMMA SwappedShape ==
  ASSUME NEW n \in {8, 16}, NEW r \in Seq(Nibble), Len(r) = n
  PROVE  Swapped(r) \in Seq(Nibble) /\ Len(Swapped(r)) = n
<1> DEFINE a == SubSeq(r, n - 7, n)
           b == [k \in 1 .. n - 8 |-> 0]
<1>1. a \in Seq(Nibble) /\ Len(a) = 8
  <2>1. \A i \in n - 7 .. n : r[i] \in Nibble
    <3>1. \A i \in 1 .. Len(r) : r[i] \in Nibble
      BY ElementOfSeq
    <3> QED  BY <3>1
  <2>2. n - 7 \in Int /\ n \in Int /\ n - 7 <= n
    OBVIOUS
  <2>3. /\ a \in Seq(Nibble)
        /\ Len(a) = IF n - 7 <= n THEN n - (n - 7) + 1 ELSE 0
    BY <2>1, <2>2, SubSeqProperties
  <2> HIDE DEF a
  <2> QED  BY <2>3
<1>2. b \in Seq(Nibble) /\ Len(b) = n - 8
  <2>1. n - 8 \in Nat /\ b \in [1 .. n - 8 -> Nibble]
    BY DEF Nibble
  <2> HIDE DEF b
  <2> QED  BY <2>1, AsSeq
<1>3. Swapped(r) = a \o b
  BY DEF Swapped
<1> HIDE DEF a, b
<1>4. a \o b \in Seq(Nibble) /\ Len(a \o b) = Len(a) + Len(b)
  BY <1>1, <1>2, ConcatProperties
<1> QED  BY <1>1, <1>2, <1>3, <1>4

LEMMA CharsOf ==
  ASSUME NEW o \in Nibble
  PROVE  /\ printer = "hexprint" => Char(o) = CDigit(printer, o)
         /\ printer = "xxprint" => XxChar(o) = CDigit(printer, o)
         /\ printer = "hexprint3" => LowerChar(o) = CDigit(printer, o)
         /\ Char(o) \in Int /\ XxChar(o) \in Int /\ LowerChar(o) \in Int
<1>1. Char(o) \in Int /\ XxChar(o) \in Int /\ LowerChar(o) \in Int
  BY DEF Char, XxChar, LowerChar, ZeroChar, Nibble
<1>2. HexChars[o + 1] = IF o > 9 THEN o + 55 ELSE o + 48
  BY DEF HexChars, Nibble
<1>3. printer = "hexprint" => CDigit(printer, o) = HexChars[o + 1]
  BY DEF CDigit
<1>4. printer = "xxprint" => CDigit(printer, o) = 71 + o
  BY DEF CDigit
<1>5. printer = "hexprint3" =>
        CDigit(printer, o) = IF o > 9 THEN HexChars[o + 1] + 32 ELSE HexChars[o + 1]
  BY DEF CDigit
<1>6. /\ Char(o) = IF o > 9 THEN o + 55 ELSE o + 48
      /\ XxChar(o) = 71 + o
      /\ LowerChar(o) = IF o > 9 THEN o + 87 ELSE o + 48
  BY DEF Char, XxChar, LowerChar, ZeroChar, Nibble
<1> HIDE DEF HexChars
<1> QED  BY <1>1, <1>2, <1>3, <1>4, <1>5, <1>6 DEF Nibble

\* The newline comes behind the digits of the last round.
LEMMA EndOf ==
  ASSUME NEW t \in Seq(Int)
  PROVE  /\ EndC(t) \in Seq(Int)
         /\ ecx # 1 => EndC(t) = t
         /\ ecx = 1 => /\ Len(EndC(t)) = Len(t) + 1
                       /\ EndC(t)[Len(t) + 1] = Newline
                       /\ \A i \in 1 .. Len(t) : EndC(t)[i] = t[i]
<1>1. CASE ecx # 1
  BY <1>1 DEF EndC
<1>2. CASE ecx = 1
  <2> DEFINE nl == << Newline >>
  <2>1. nl \in Seq(Int) /\ Len(nl) = 1 /\ nl[1] = Newline
    BY DEF Newline
  <2>2. EndC(t) = t \o nl
    BY <1>2 DEF EndC
  <2> HIDE DEF nl
  <2>3. /\ t \o nl \in Seq(Int) /\ Len(t \o nl) = Len(t) + Len(nl)
        /\ \A i \in 1 .. Len(t) + Len(nl) :
             (t \o nl)[i] = IF i <= Len(t) THEN t[i] ELSE nl[i - Len(t)]
    BY <2>1, ConcatProperties
  <2>4. Len(t) \in Nat
    OBVIOUS
  <2> QED  BY <1>2, <2>1, <2>2, <2>3, <2>4
<1> QED  BY <1>1, <1>2

LEMMA InitC == Init => CRounds
<1> SUFFICES ASSUME Init, printer \in CPrinters  PROVE \E n \in {8, 16} : CRound(n)
  BY DEF CRounds
<1>1. text = << >> /\ printer = (IF pc \in {"decimal", "hex"} THEN "asm" ELSE pc)
  BY DEF Init
<1>2. CInit
  BY <1>1 DEF Init, PrintInit, HexInit, CPrinters
<1>3. PICK n \in {8, 16} : register \in [1 .. n -> Nibble]
  BY <1>2, NumbersAssumption DEF CInit, Nibble
<1>4. register \in Seq(Nibble) /\ Len(register) = n
  BY <1>3, AsSeq
<1>5. printer = pc /\ pc \in CPrinters
  BY <1>1, <1>2 DEF CInit, CPrinters
<1>6. nibbles = Shown
  BY <1>2, <1>5 DEF CInit, Shown
<1>7. Shown \in Seq(Nibble) /\ Len(Shown) = n
  BY <1>4, SwappedShape DEF Shown
<1>8. text \in Seq(Int) /\ Len(text) = 0
  BY <1>1
<1>9. ecx = IF pc = "hexprint3" THEN n \div 2 ELSE n
  BY <1>2, <1>4 DEF CInit
<1>10. CASE printer = "hexprint3"
  <2>1. ecx \in 1 .. n \div 2 /\ n - (2 * ecx) = 0
    BY <1>5, <1>9, <1>10
  <2>2. FromAbove(n)
    BY <1>6, <1>8, <2>1 DEF FromAbove
  <2> QED  BY <1>4, <1>5, <1>6, <1>7, <1>8, <1>10, <2>2 DEF CRound, CPrinters
<1>11. CASE printer # "hexprint3"
  <2>1. ecx = n /\ n - ecx = 0 /\ ecx \in 1 .. n
    BY <1>5, <1>9, <1>11
  <2>2. nibbles = register
    BY <1>6, <1>11 DEF Shown
  <2>3. FromBelow(n)
    BY <1>8, <2>1, <2>2 DEF FromBelow
  <2> QED  BY <1>4, <1>5, <1>6, <1>7, <1>8, <1>11, <2>3 DEF CRound, CPrinters
<1> QED  BY <1>10, <1>11

\* A round of hexprint or xxprint.
LEMMA LowStep ==
  ASSUME NEW n \in {8, 16}, CRound(n), LowNibble, printer \in CPrinters
  PROVE  CRound(n)'
<1>1. /\ pc = printer /\ printer # "hexprint3"
      /\ register \in Seq(Nibble) /\ Len(register) = n
      /\ nibbles \in Seq(Nibble) /\ Len(nibbles) = n
      /\ text \in Seq(Int) /\ FromBelow(n)
  BY DEF CRound, LowNibble, CPrinters
<1>2. /\ ecx \in 1 .. n /\ Len(text) = n - ecx
      /\ \A i \in 1 .. n : i > n - ecx => nibbles[i] = register[i - (n - ecx)]
      /\ \A i \in 1 .. n - ecx : text[i] = CDigit(printer, register[ecx + i])
  BY <1>1 DEF FromBelow
<1>0. ecx \in Int /\ 1 <= ecx /\ ecx <= n /\ n \in Int /\ Len(text) = n - ecx
  BY <1>2
<1> DEFINE o == nibbles[n]
           c == IF pc = "xxprint" THEN XxChar(o) ELSE Char(o)
           h == << c >>
           t == h \o text
           f == SubSeq(nibbles, 1, n - 1)
           z == << 0 >>
<1>3. /\ text' = EndC(t) /\ nibbles' = z \o f
      /\ ecx' = ecx - 1 /\ pc' = (IF ecx = 1 THEN "done" ELSE pc)
      /\ register' = register /\ printer' = printer
  BY <1>1 DEF LowNibble, NextRound, Last, Front
<1>4. o \in Nibble /\ o = register[ecx]
  <2>1. n \in 1 .. n /\ n > n - ecx /\ n - (n - ecx) = ecx
    BY <1>0
  <2>2. o \in Nibble
    BY <1>1, <2>1, ElementOfSeq
  <2>3. nibbles[n] = register[n - (n - ecx)]
    BY <1>2, <2>1
  <2> QED  BY <2>1, <2>2, <2>3
<1>5. c \in Int /\ c = CDigit(printer, register[ecx])
  <2> HIDE DEF o
  <2>1. printer \in {"hexprint", "xxprint"}
    BY <1>1 DEF CPrinters
  <2> QED  BY <1>1, <1>4, <2>1, CharsOf
<1>6. /\ t \in Seq(Int) /\ Len(t) = (n - ecx) + 1 /\ t[1] = c
      /\ \A i \in 2 .. (n - ecx) + 1 : t[i] = text[i - 1]
  <2> HIDE DEF c
  <2>1. h \in Seq(Int) /\ Len(h) = 1 /\ h[1] = c
    BY <1>5
  <2> HIDE DEF h
  <2>2. /\ t \in Seq(Int) /\ Len(t) = Len(h) + Len(text)
        /\ \A i \in 1 .. Len(h) + Len(text) :
             t[i] = IF i <= Len(h) THEN h[i] ELSE text[i - Len(h)]
    BY <1>1, <2>1, ConcatProperties
  <2> HIDE DEF t
  <2> QED  BY <1>0, <2>1, <2>2, SMTT(30)
<1>7. /\ f \in Seq(Nibble) /\ Len(f) = n - 1
      /\ \A i \in 1 .. n - 1 : f[i] = nibbles[i]
  <2>1. \A i \in 1 .. n - 1 : nibbles[i] \in Nibble
    <3>1. \A i \in 1 .. Len(nibbles) : nibbles[i] \in Nibble
      BY <1>1, ElementOfSeq
    <3> QED  BY <1>1, <3>1
  <2>2. /\ f \in Seq(Nibble)
        /\ Len(f) = IF 1 <= n - 1 THEN (n - 1) - 1 + 1 ELSE 0
        /\ \A i \in 1 .. (n - 1) - 1 + 1 : f[i] = nibbles[1 + i - 1]
    BY <2>1, SubSeqProperties
  <2> HIDE DEF f
  <2> QED  BY <2>2
<1>8. /\ nibbles' \in Seq(Nibble) /\ Len(nibbles') = n
      /\ \A i \in 2 .. n : nibbles'[i] = nibbles[i - 1]
  <2>1. z \in Seq(Nibble) /\ Len(z) = 1
    BY DEF Nibble
  <2> HIDE DEF z, f
  <2>2. /\ z \o f \in Seq(Nibble) /\ Len(z \o f) = Len(z) + Len(f)
        /\ \A i \in 1 .. Len(z) + Len(f) :
             (z \o f)[i] = IF i <= Len(z) THEN z[i] ELSE f[i - Len(z)]
    BY <1>7, <2>1, ConcatProperties
  <2> QED  BY <1>3, <1>7, <2>1, <2>2
<1> HIDE DEF c, h, f, z, o, t
<1>9. \A i \in 1 .. (n - ecx) + 1 : t[i] = CDigit(printer, register[(ecx - 1) + i])
  <2> SUFFICES ASSUME NEW i \in 1 .. (n - ecx) + 1
               PROVE  t[i] = CDigit(printer, register[(ecx - 1) + i])
    OBVIOUS
  <2>1. CASE i = 1
    BY <1>2, <1>5, <1>6, <2>1
  <2>2. CASE i # 1
    <3>1. i \in 2 .. (n - ecx) + 1 /\ i - 1 \in 1 .. n - ecx /\ ecx + (i - 1) = (ecx - 1) + i
      BY <1>2, <2>2
    <3>2. text[i - 1] = CDigit(printer, register[ecx + (i - 1)])
      BY <1>2, <3>1
    <3> QED  BY <1>6, <3>1, <3>2
  <2> QED  BY <2>1, <2>2
<1>10. /\ EndC(t) \in Seq(Int)
       /\ ecx # 1 => EndC(t) = t
       /\ ecx = 1 => /\ Len(EndC(t)) = Len(t) + 1
                     /\ EndC(t)[Len(t) + 1] = Newline
                     /\ \A i \in 1 .. Len(t) : EndC(t)[i] = t[i]
  BY <1>6, EndOf
<1>11. CASE ecx # 1
  <2>1. text' = t /\ pc' = pc /\ pc # "done"
    BY <1>1, <1>3, <1>10, <1>11 DEF CPrinters
  <2>2. ecx' \in 1 .. n /\ n - ecx' = (n - ecx) + 1
    BY <1>0, <1>3, <1>11
  <2>3. ASSUME NEW i \in 1 .. n, i > n - ecx'
        PROVE  nibbles'[i] = register[i - (n - ecx')]
    <3>1. i \in 2 .. n /\ i - 1 \in 1 .. n /\ i - 1 > n - ecx
          /\ (i - 1) - (n - ecx) = i - (n - ecx')
      <4>1. i \in Int /\ 1 <= i /\ i <= n /\ i > n - ecx' /\ ecx' = ecx - 1
        BY <1>3, <2>3
      <4> QED  BY <1>0, <4>1
    <3> QED  BY <1>2, <1>8, <3>1
  <2>4. \A i \in 1 .. n - ecx' : text'[i] = CDigit(printer, register[ecx' + i])
    BY <1>3, <1>9, <2>1, <2>2
  <2>5. Len(text') = n - ecx'
    BY <1>6, <2>1, <2>2
  <2>6. \A i \in 1 .. n - ecx' : text'[i] = CDigit(printer', register'[ecx' + i])
    BY <1>3, <2>4
  <2>7. FromBelow(n)'
    BY <1>3, <2>2, <2>3, <2>5, <2>6 DEF FromBelow
  <2> QED  BY <1>1, <1>3, <1>8, <1>10, <2>1, <2>7 DEF CRound
<1>12. CASE ecx = 1
  <2>1. pc' = "done" /\ printer # "done" /\ (n - ecx) + 1 = n /\ Len(t) = n
    BY <1>2, <1>3, <1>6, <1>12 DEF CPrinters
  <2>2. Len(text') = n + 1 /\ text'[n + 1] = Newline
    BY <1>3, <1>10, <1>12, <2>1
  <2>3. ASSUME NEW i \in 1 .. n  PROVE text'[i] = CDigit(printer, register[i])
    <3>1. (ecx - 1) + i = i /\ i \in 1 .. (n - ecx) + 1 /\ i \in 1 .. Len(t)
      BY <1>12, <2>1
    <3>2. text'[i] = t[i]
      BY <1>3, <1>10, <1>12, <3>1
    <3>3. t[i] = CDigit(printer, register[(ecx - 1) + i])
      BY <1>9, <3>1
    <3> QED  BY <3>1, <3>2, <3>3
  <2>4. Shown' = register
    BY <1>1, <1>3 DEF Shown
  <2>5. \A i \in 1 .. n : text'[i] = CDigit(printer', Shown'[i])
    BY <1>3, <2>3, <2>4
  <2> QED  BY <1>1, <1>3, <1>8, <1>10, <2>1, <2>2, <2>5 DEF CRound
<1> QED  BY <1>11, <1>12

\* A round of hexprint3.
LEMMA SwapStep ==
  ASSUME NEW n \in {8, 16}, CRound(n), SwappedByte, printer \in CPrinters
  PROVE  CRound(n)'
<1>1. /\ pc = printer /\ printer = "hexprint3"
      /\ register \in Seq(Nibble) /\ Len(register) = n
      /\ nibbles \in Seq(Nibble) /\ Len(nibbles) = n
      /\ text \in Seq(Int) /\ FromAbove(n)
  BY DEF CRound, SwappedByte, CPrinters
<1> DEFINE m == n - (2 * ecx)
<1>2. /\ ecx \in 1 .. n \div 2 /\ Len(text) = m
      /\ \A i \in 1 .. 2 * ecx : nibbles[i] = Shown[i + m]
      /\ \A i \in 1 .. m : text[i] = CDigit(printer, Shown[i])
  BY <1>1 DEF FromAbove
<1>0. /\ ecx \in Int /\ 1 <= ecx /\ 2 * ecx <= n /\ n \in Int /\ 8 <= n
      /\ m \in Int /\ 0 <= m /\ m + (2 * ecx) = n
  BY <1>2
<1> HIDE DEF m
<1> DEFINE a == LowerChar(nibbles[1])
           b == LowerChar(nibbles[2])
           h == << a, b >>
           t == text \o h
           f == SubSeq(nibbles, 3, n)
           z == << 0, 0 >>
<1>3. /\ text' = EndC(t) /\ nibbles' = f \o z
      /\ ecx' = ecx - 1 /\ pc' = (IF ecx = 1 THEN "done" ELSE pc)
      /\ register' = register /\ printer' = printer
  BY <1>1 DEF SwappedByte, NextRound
<1>4. /\ nibbles[1] \in Nibble /\ nibbles[1] = Shown[m + 1]
      /\ nibbles[2] \in Nibble /\ nibbles[2] = Shown[m + 2]
  <2>1. 1 \in 1 .. Len(nibbles) /\ 2 \in 1 .. Len(nibbles)
    BY <1>1
  <2>2. nibbles[1] \in Nibble /\ nibbles[2] \in Nibble
    BY <1>1, <2>1, ElementOfSeq
  <2>3. 1 \in 1 .. 2 * ecx /\ 2 \in 1 .. 2 * ecx /\ 1 + m = m + 1 /\ 2 + m = m + 2
    BY <1>0
  <2> QED  BY <1>2, <2>2, <2>3
<1>5. /\ a \in Int /\ a = CDigit(printer, Shown[m + 1])
      /\ b \in Int /\ b = CDigit(printer, Shown[m + 2])
  BY <1>1, <1>4, CharsOf
<1>6. /\ t \in Seq(Int) /\ Len(t) = m + 2
      /\ \A i \in 1 .. m + 2 : t[i] = CDigit(printer, Shown[i])
  <2> HIDE DEF a, b
  <2>1. h \in Seq(Int) /\ Len(h) = 2 /\ h[1] = a /\ h[2] = b
    BY <1>5
  <2> HIDE DEF h
  <2>2. /\ t \in Seq(Int) /\ Len(t) = Len(text) + Len(h)
        /\ \A i \in 1 .. Len(text) + Len(h) :
             t[i] = IF i <= Len(text) THEN text[i] ELSE h[i - Len(text)]
    BY <1>1, <2>1, ConcatProperties
  <2> HIDE DEF t
  <2>3. /\ Len(t) = m + 2
        /\ \A i \in 1 .. m + 2 : t[i] = IF i <= m THEN text[i] ELSE h[i - m]
    BY <1>2, <2>1, <2>2
  <2>4. ASSUME NEW i \in 1 .. m + 2  PROVE t[i] = CDigit(printer, Shown[i])
    <3>1. CASE i <= m
      <4>1. i \in 1 .. m
        BY <1>0, <3>1
      <4> QED  BY <1>2, <2>3, <3>1, <4>1
    <3>2. CASE i = m + 1
      <4>1. i - m = 1 /\ ~(i <= m)
        BY <1>0, <3>2
      <4> QED  BY <1>5, <2>1, <2>3, <3>2, <4>1
    <3>3. CASE i = m + 2
      <4>1. i - m = 2 /\ ~(i <= m)
        BY <1>0, <3>3
      <4> QED  BY <1>5, <2>1, <2>3, <3>3, <4>1
    <3>4. i <= m \/ i = m + 1 \/ i = m + 2
      BY <1>0
    <3> QED  BY <3>1, <3>2, <3>3, <3>4
  <2> QED  BY <2>2, <2>3, <2>4
<1>7. /\ f \in Seq(Nibble) /\ Len(f) = n - 2
      /\ \A i \in 1 .. n - 2 : f[i] = nibbles[i + 2]
  <2>1. \A i \in 3 .. n : nibbles[i] \in Nibble
    <3>1. \A i \in 1 .. Len(nibbles) : nibbles[i] \in Nibble
      BY <1>1, ElementOfSeq
    <3> QED  BY <1>1, <1>0, <3>1
  <2>2. /\ f \in Seq(Nibble)
        /\ Len(f) = IF 3 <= n THEN n - 3 + 1 ELSE 0
        /\ \A i \in 1 .. n - 3 + 1 : f[i] = nibbles[3 + i - 1]
    BY <1>0, <2>1, SubSeqProperties
  <2> HIDE DEF f
  <2> QED  BY <1>0, <2>2
<1>8. /\ nibbles' \in Seq(Nibble) /\ Len(nibbles') = n
      /\ \A i \in 1 .. n - 2 : nibbles'[i] = nibbles[i + 2]
  <2>1. z \in Seq(Nibble) /\ Len(z) = 2
    BY DEF Nibble
  <2> HIDE DEF z, f
  <2>2. /\ f \o z \in Seq(Nibble) /\ Len(f \o z) = Len(f) + Len(z)
        /\ \A i \in 1 .. Len(f) + Len(z) :
             (f \o z)[i] = IF i <= Len(f) THEN f[i] ELSE z[i - Len(f)]
    BY <1>7, <2>1, ConcatProperties
  <2> QED  BY <1>0, <1>3, <1>7, <2>1, <2>2
<1> HIDE DEF a, b, h, f, z, t
<1>9. /\ EndC(t) \in Seq(Int)
      /\ ecx # 1 => EndC(t) = t
      /\ ecx = 1 => /\ Len(EndC(t)) = Len(t) + 1
                    /\ EndC(t)[Len(t) + 1] = Newline
                    /\ \A i \in 1 .. Len(t) : EndC(t)[i] = t[i]
  BY <1>6, EndOf
<1>10. Shown' = Shown
  BY <1>3 DEF Shown
<1>11. CASE ecx # 1
  <2>1. text' = t /\ pc' = pc /\ pc # "done"
    BY <1>1, <1>3, <1>9, <1>11 DEF CPrinters
  <2>2. /\ ecx' \in Int /\ 1 <= ecx' /\ ecx' \in 1 .. n \div 2
        /\ n - (2 * ecx') = m + 2 /\ 2 * ecx' = (2 * ecx) - 2
    BY <1>0, <1>3, <1>11
  <2>3. ASSUME NEW i \in 1 .. 2 * ecx'  PROVE nibbles'[i] = Shown[i + (m + 2)]
    <3>1. i \in 1 .. n - 2 /\ i + 2 \in 1 .. 2 * ecx /\ (i + 2) + m = i + (m + 2)
      <4>1. i \in Int /\ 1 <= i /\ i <= 2 * ecx'
        <5>1. 2 * ecx' \in Int
          BY <2>2
        <5> QED  BY <2>3, <5>1
      <4>2. i <= (2 * ecx) - 2
        BY <2>2, <4>1
      <4>3. 2 * ecx \in Int /\ 2 * ecx <= n /\ n \in Int /\ m \in Int
        BY <1>0
      <4>4. i + 2 <= 2 * ecx /\ i <= n - 2
        BY <4>1, <4>2, <4>3
      <4>5. (i + 2) + m = i + (m + 2)
        BY <4>1, <4>3
      <4>6. i \in 1 .. n - 2
        BY <4>1, <4>3, <4>4
      <4>7. i + 2 \in 1 .. 2 * ecx
        BY <4>1, <4>3, <4>4
      <4> QED  BY <4>5, <4>6, <4>7
    <3> QED  BY <1>2, <1>8, <3>1
  <2>4. /\ Len(text') = m + 2
        /\ \A i \in 1 .. m + 2 : text'[i] = CDigit(printer, Shown[i])
    BY <1>6, <2>1
  <2>5. FromAbove(n)'
    BY <1>3, <1>10, <2>2, <2>3, <2>4 DEF FromAbove
  <2> QED  BY <1>1, <1>3, <1>8, <1>9, <2>1, <2>5 DEF CRound
<1>12. CASE ecx = 1
  <2>1. pc' = "done" /\ printer # "done" /\ m + 2 = n /\ Len(t) = n
    BY <1>1, <1>0, <1>3, <1>6, <1>12 DEF CPrinters
  <2>2. Len(text') = n + 1 /\ text'[n + 1] = Newline
    BY <1>3, <1>9, <1>12, <2>1
  <2>3. ASSUME NEW i \in 1 .. n  PROVE text'[i] = CDigit(printer, Shown[i])
    <3>1. i \in 1 .. Len(t) /\ i \in 1 .. m + 2
      BY <2>1
    <3> QED  BY <1>3, <1>6, <1>9, <1>12, <3>1
  <2>4. \A i \in 1 .. n : text'[i] = CDigit(printer', Shown'[i])
    BY <1>3, <1>10, <2>3
  <2> QED  BY <1>1, <1>3, <1>8, <1>9, <2>1, <2>2, <2>4 DEF CRound
<1> QED  BY <1>11, <1>12

LEMMA StepC == CRounds /\ [Next]_vars => CRounds'
<1> SUFFICES ASSUME CRounds, [Next]_vars, printer' \in CPrinters
             PROVE  CRounds'
  BY DEF CRounds
<1>1. printer \in CPrinters
  BY DEF Next, PrintDigit, HexDigit, LowNibble, SwappedByte, NextRound, vars
<1>2. PICK n \in {8, 16} : CRound(n)
  BY <1>1 DEF CRounds
<1>3. pc \in CPrinters \cup {"done"}
  BY <1>1, <1>2 DEF CRound
<1>4. CRound(n)'
  <2>1. CASE PrintDigit \/ HexDigit
    BY <1>3, <2>1 DEF PrintDigit, HexDigit, CPrinters
  <2>2. CASE LowNibble
    BY <1>1, <1>2, <2>2, LowStep
  <2>3. CASE SwappedByte
    BY <1>1, <1>2, <2>3, SwapStep
  <2>4. CASE UNCHANGED vars
    BY <1>2, <2>4 DEF vars, CRound, FromAbove, FromBelow, Shown
  <2> QED  BY <2>1, <2>2, <2>3, <2>4 DEF Next
<1> QED  BY <1>4 DEF CRounds

-----------------------------------------------------------------------------

THEOREM RoundsHold == Spec => [](DecimalRounds /\ CRounds /\ Loops)
<1>1. Init => DecimalRounds /\ CRounds /\ Loops
  BY InitDecimal, InitC, InitLoops
<1>2. DecimalRounds /\ CRounds /\ Loops /\ [Next]_vars
        => (DecimalRounds /\ CRounds /\ Loops)'
  BY StepDecimal, StepC, StepLoops
<1> QED  BY <1>1, <1>2, PTL DEF Spec

\* Only printnum has no register to print.
LEMMA OfPrintnum ==
  ASSUME CRounds, Loops, register = << >>
  PROVE  printer = "asm"
<1>1. CASE printer \in CPrinters
  <2>1. PICK n \in {8, 16} : Len(register) = n
    BY <1>1 DEF CRounds, CRound
  <2> QED  BY <2>1
<1> QED  BY <1>1 DEF Loops

\* printnum prints every positive number in decimal, without leading zeros, and
\* a newline, and 0 as the newline alone; the signed division that follows cdq
\* traps only for a number with its sign bit set, and prints no such number.
THEOREM NumberPrinted == Spec => []PrintsNumber
<1>1. ASSUME DecimalRounds, CRounds, Loops  PROVE PrintsNumber
  <2> SUFFICES ASSUME register = << >>
               PROVE  /\ pc = "sigfpe" => number >= MaxInt
                      /\ pc = "done" =>
                           /\ number < MaxInt
                           /\ text = IF number = 0 THEN << Newline >> ELSE Decimal(number)
    BY DEF PrintsNumber, Decimally
  <2>1. /\ number \in Nat /\ number < TenDigits
        /\ esi \in 0 .. 11 /\ text \in Seq(Int) /\ Len(text) = esi
        /\ pc = "sigfpe" => number >= MaxInt
        /\ pc # "sigfpe" => Divided
    BY <1>1, OfPrintnum, Words DEF DecimalRounds
  <2>2. pc = "done" => number < MaxInt
    BY <2>1 DEF Divided
  <2>3. ASSUME pc = "done", number # 0  PROVE text = Decimal(number)
    <3>1. /\ esi > 0 /\ Quot(number, esi - 1) = 0
          /\ esi > 1 => Quot(number, esi - 2) # 0
          /\ text[esi] = Newline
          /\ \A i \in 1 .. esi - 1 :
               text[i] = ZeroChar + (Quot(number, (esi - 1) - i) % 10)
      BY <2>1, <2>3 DEF Divided
    <3>2. Quot(number, 0) = number
      BY <2>1, Quotients
    <3> DEFINE k == esi - 1
    <3>3. k # 0 /\ k \in 1 .. 10 /\ esi > 1 /\ k - 1 = esi - 2
      BY <2>1, <2>3, <3>1, <3>2
    <3>4. Length(number) = k
      BY <2>1, <3>1, <3>3, DigitsOf
    <3>5. \A i \in 1 .. k :
            ZeroChar + ((number \div Powers[(k - i) + 1]) % 10) = text[i]
      <4> SUFFICES ASSUME NEW i \in 1 .. k
                   PROVE  ZeroChar + ((number \div Powers[(k - i) + 1]) % 10) = text[i]
        OBVIOUS
      <4>1. Quot(number, k - i) = number \div Powers[(k - i) + 1]
        BY <3>3 DEF Quot
      <4> QED  BY <3>1, <4>1
    <3> DEFINE d == [i \in 1 .. k |->
                       ZeroChar + ((number \div Powers[(k - i) + 1]) % 10)]
               nl == << Newline >>
    <3>6. Decimal(number) = d \o nl
      BY <3>4 DEF Decimal
    <3>7. d \in [1 .. k -> Int]
      <4>1. \A i \in 1 .. k : text[i] \in Int
        BY <2>1, ElementOfSeq
      <4> QED  BY <3>5, <4>1
    <3>8. d \in Seq(Int) /\ Len(d) = k /\ \A i \in 1 .. k : d[i] = text[i]
      <4>1. \A i \in 1 .. k : d[i] = text[i]
        BY <3>5
      <4>2. k \in Nat
        BY <3>3
      <4> HIDE DEF d, k
      <4> QED  BY <3>7, <4>1, <4>2, AsSeq
    <3>9. nl \in Seq(Int) /\ Len(nl) = 1 /\ nl[1] = Newline
      BY DEF Newline
    <3> HIDE DEF d, nl
    <3>10. /\ d \o nl \in Seq(Int) /\ Len(d \o nl) = Len(d) + Len(nl)
           /\ \A i \in 1 .. Len(d) + Len(nl) :
                (d \o nl)[i] = IF i <= Len(d) THEN d[i] ELSE nl[i - Len(d)]
      BY <3>8, <3>9, ConcatProperties
    <3>11. Len(d \o nl) = esi /\ Len(text) = esi
      BY <2>1, <3>3, <3>8, <3>9, <3>10
    <3>12. \A i \in 1 .. Len(text) : text[i] = (d \o nl)[i]
      <4> SUFFICES ASSUME NEW i \in 1 .. esi  PROVE text[i] = (d \o nl)[i]
        BY <3>11
      <4>1. (d \o nl)[i] = IF i <= k THEN d[i] ELSE nl[i - k]
        BY <2>1, <3>3, <3>8, <3>9, <3>10
      <4>2. CASE i <= k
        <5>1. i \in 1 .. k
          BY <3>3, <4>2
        <5> QED  BY <3>8, <4>1, <4>2, <5>1
      <4>3. CASE i = esi
        <5>1. ~(i <= k) /\ i - k = 1
          BY <2>1, <4>3
        <5> QED  BY <3>1, <3>9, <4>1, <4>3, <5>1
      <4>4. i <= k \/ i = esi
        BY <2>1
      <4> QED  BY <4>2, <4>3, <4>4
    <3> QED  BY <2>1, <3>6, <3>10, <3>11, <3>12, SeqEqual
  <2>4. ASSUME pc = "done", number = 0  PROVE text = << Newline >>
    <3>1. /\ esi > 0 /\ text[esi] = Newline
          /\ esi > 1 => Quot(number, esi - 2) # 0
      BY <2>1, <2>4 DEF Divided
    <3>2. esi > 1 => Quot(number, esi - 2) = 0
      <4>1. esi > 1 => esi - 2 \in 0 .. 10
        BY <2>1
      <4>2. esi > 1 => Quot(number, esi - 2) \in Nat /\ Quot(number, esi - 2) <= number
        BY <2>1, <4>1, Quotients
      <4> QED  BY <2>4, <4>2
    <3>3. esi = 1
      BY <2>1, <3>1, <3>2
    <3> QED  BY <2>1, <3>1, <3>3, SeqEqual
  <2> QED  BY <2>1, <2>2, <2>3, <2>4
<1> QED  BY <1>1, RoundsHold, PTL

\* What printnum tells the tracker of its registers is true of whatever number
\* it has printed, and it stays within the twelve bytes it has made room for.
THEOREM LeavesAsTold == Spec => []LoopLeaves
<1>1. ASSUME DecimalRounds, CRounds, Loops  PROVE LoopLeaves
  <2> SUFFICES ASSUME register = << >>, pc = "done"
               PROVE  eax = 0 /\ edx = 0 /\ esi = Len(text) /\ esi <= Room
    BY DEF LoopLeaves, Printed, Decimally
  <2>1. /\ number \in Nat /\ number < TenDigits
        /\ esi \in 0 .. 11 /\ Len(text) = esi /\ Divided
    BY <1>1, OfPrintnum, Words DEF DecimalRounds
  <2>2. /\ esi > 0 /\ Quot(number, esi - 1) = 0
        /\ edx = Quot(number, esi - 1) % 10 /\ eax = Quot(number, esi)
    BY <2>1 DEF Divided
  <2>3. Quot(number, (esi - 1) + 1) = Quot(number, esi - 1) \div 10
    <3>1. esi - 1 \in 0 .. 10
      BY <2>1, <2>2
    <3> QED  BY <2>1, <3>1, Quotients
  <2>4. (esi - 1) + 1 = esi
    BY <2>1
  <2> QED  BY <2>1, <2>2, <2>3, <2>4 DEF Room
<1> QED  BY <1>1, RoundsHold, PTL

\* hello4.c's printers print the nibbles of a register of either width, in the
\* characters of each, and a newline behind them.
THEOREM HexPrintedC == Spec => []PrintsHexC
<1>1. ASSUME CRounds, Loops  PROVE PrintsHexC
  <2> SUFFICES ASSUME pc = "done", printer # "asm"
               PROVE  text = [i \in DOMAIN Shown |-> CDigit(printer, Shown[i])]
                               \o << Newline >>
    BY DEF PrintsHexC, Shown, CDigit
  <2>1. printer \in CPrinters
    BY <1>1 DEF Loops
  <2>2. PICK n \in {8, 16} : CRound(n)
    BY <1>1, <2>1 DEF CRounds
  <2>3. /\ text \in Seq(Int) /\ Len(text) = n + 1 /\ text[n + 1] = Newline
        /\ \A i \in 1 .. n : text[i] = CDigit(printer, Shown[i])
        /\ register \in Seq(Nibble) /\ Len(register) = n
    BY <2>2 DEF CRound
  <2>4. DOMAIN Shown = 1 .. n
    <3>1. Shown \in Seq(Nibble) /\ Len(Shown) = n
      BY <2>3, SwappedShape DEF Shown
    <3> QED  BY <3>1, LenProperties
  <2> DEFINE d == [i \in 1 .. n |-> CDigit(printer, Shown[i])]
             nl == << Newline >>
  <2>5. d \in Seq(Int) /\ Len(d) = n /\ \A i \in 1 .. n : d[i] = text[i]
    <3>1. \A i \in 1 .. n : d[i] = text[i]
      BY <2>3
    <3>2. \A i \in 1 .. n : text[i] \in Int
      BY <2>3, ElementOfSeq
    <3>3. d \in [1 .. n -> Int]
      BY <2>3, <3>2
    <3> HIDE DEF d
    <3> QED  BY <3>1, <3>3, AsSeq
  <2>6. nl \in Seq(Int) /\ Len(nl) = 1 /\ nl[1] = Newline
    BY DEF Newline
  <2> HIDE DEF d, nl
  <2>7. /\ d \o nl \in Seq(Int) /\ Len(d \o nl) = Len(d) + Len(nl)
        /\ \A i \in 1 .. Len(d) + Len(nl) :
             (d \o nl)[i] = IF i <= Len(d) THEN d[i] ELSE nl[i - Len(d)]
    BY <2>5, <2>6, ConcatProperties
  <2>8. \A i \in 1 .. n + 1 : text[i] = (d \o nl)[i]
    <3> SUFFICES ASSUME NEW i \in 1 .. n + 1  PROVE text[i] = (d \o nl)[i]
      OBVIOUS
    <3>1. (d \o nl)[i] = IF i <= n THEN d[i] ELSE nl[i - n]
      BY <2>5, <2>6, <2>7
    <3>2. CASE i <= n
      <4>1. i \in 1 .. n
        BY <3>2
      <4> QED  BY <2>5, <3>1, <3>2, <4>1
    <3>3. CASE i = n + 1
      <4>1. ~(i <= n) /\ i - n = 1
        BY <3>3
      <4> QED  BY <2>3, <2>6, <3>1, <3>3, <4>1
    <3>4. i <= n \/ i = n + 1
      OBVIOUS
    <3> QED  BY <3>2, <3>3, <3>4
  <2>9. text = d \o nl
    BY <2>3, <2>5, <2>6, <2>7, <2>8, SeqEqual
  <2> QED  BY <2>4, <2>9 DEF d, nl
<1> QED  BY <1>1, RoundsHold, PTL
=============================================================================
