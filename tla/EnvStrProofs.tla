---------------------------- MODULE EnvStrProofs -----------------------------
(***************************************************************************)
(* The theorems about the walk of envstr.c: for strings of any number and  *)
(* length, and every start of theirs.                                      *)
(***************************************************************************)
EXTENDS EnvStr, TLAPS

\* The words before the n-th are not zero.
Passed(n) == \A i \in 0..(n - 1) : ~Zero(4 * i)

\* Neither property is inductive: both ask what the walk has already seen.  It
\* goes by whole words from the start, and the only word of zeros it passes is
\* the one that ends it.
Walk ==
  /\ strings \in Texts /\ pointer \in {4, 8}
  /\ shown \in Nat /\ stack \in Nat /\ stack <= Size
  /\ pc \in {"while", "segv", "body", "write", "exit", "end"}
  /\ pc \in {"while", "segv"} => stack = 4 * shown /\ Passed(shown)
  /\ pc = "body" => stack = 4 * (shown + 1) /\ Passed(shown + 1)
  /\ pc \in {"write", "exit", "end"} => stack = 4 * (shown + 1) /\ Zero(4 * shown)
  /\ pc = "segv" => ~Inside(stack)

LEMMA TextFacts ==
  ASSUME strings \in Texts, pointer \in {4, 8}
  PROVE  /\ Len(strings) \in Nat /\ Len(strings) > 1
         /\ Size \in Nat /\ Size = Len(strings) + pointer
         /\ \A k \in 1..Len(strings) : Block[k] = strings[k]
         /\ \A k \in Len(strings)..Size : Block[k]
         /\ ~strings[Len(strings) - 1]
<1>1. /\ strings \in Seq(BOOLEAN) /\ Len(strings) > 1
      /\ strings[Len(strings)] /\ ~strings[Len(strings) - 1]
  BY EnvStrAssumption
<1>2. Len(strings) \in Nat /\ Size \in Nat
  BY <1>1 DEF Size
<1>3. \A k \in 1..Len(strings) : Block[k] = strings[k]
  BY <1>2 DEF Block, Size
<1>4. ASSUME NEW k \in Len(strings)..Size PROVE Block[k]
  <2>1. CASE k = Len(strings)
    BY <2>1, <1>1, <1>2, <1>3
  <2>2. CASE k > Len(strings)
    BY <2>2, <1>2, <1>1 DEF Block
  <2> QED BY <2>1, <2>2, <1>2
<1> QED BY <1>1, <1>2, <1>3, <1>4 DEF Size

LEMMA WalkStarts == Init => Walk
BY EnvStrAssumption, TextFacts DEF Init, Walk, Passed, Size

LEMMA WalkGoesOn == Walk /\ [Next]_vars => Walk'
<1> SUFFICES ASSUME Walk, [Next]_vars PROVE Walk'
  OBVIOUS
<1>1. Size \in Nat
  BY TextFacts DEF Walk
<1>2. CASE while
  <2>1. /\ stack = 4 * shown /\ Passed(shown) /\ stack' = 4 * (shown + 1)
        /\ stack' <= Size /\ UNCHANGED <<strings, pointer, shown>>
    BY <1>1, <1>2 DEF while, Walk, Inside
  <2>2. Size' = Size /\ \A o : Zero(o)' = Zero(o)
    BY <2>1 DEF Size, Zero, Block
  <2>3. CASE Zero(stack)
    <3>1. pc' = "write" /\ Zero(4 * shown)'
      BY <2>1, <2>2, <2>3, <1>2 DEF while
    <3> QED BY <3>1, <2>1, <2>2 DEF Walk
  <2>4. CASE ~Zero(stack)
    <3>1. pc' = "body"
      BY <2>4, <1>2 DEF while
    <3>2. Passed(shown + 1)
      BY <2>1, <2>4 DEF Passed, Walk
    <3>3. Passed(shown + 1)'
      BY <3>2, <2>1, <2>2 DEF Passed
    <3> QED BY <3>1, <3>3, <2>1, <2>2 DEF Walk
  <2> QED BY <2>3, <2>4
<1>3. CASE body
  <2>1. /\ Passed(shown') /\ stack' = 4 * shown' /\ shown' \in Nat
        /\ UNCHANGED <<strings, pointer, stack>> /\ pc' = "while"
    BY <1>3 DEF body, Walk
  <2>2. Size' = Size /\ \A o : Zero(o)' = Zero(o)
    BY <2>1 DEF Size, Zero, Block
  <2>3. Passed(shown)'
    BY <2>1, <2>2 DEF Passed
  <2> QED BY <2>1, <2>2, <2>3 DEF Walk
<1>4. CASE segv \/ write \/ exit \/ UNCHANGED vars
  <2>1. UNCHANGED <<strings, pointer, stack, shown>>
    BY <1>4 DEF segv, write, exit, vars
  <2>2. Size' = Size /\ (Zero(4 * shown))' = Zero(4 * shown) /\ Passed(shown)' = Passed(shown)
        /\ Passed(shown + 1)' = Passed(shown + 1) /\ Inside(stack)' = Inside(stack)
    BY <2>1 DEF Size, Zero, Block, Passed, Inside
  <2>3. CASE segv
    BY <2>1, <2>2, <2>3 DEF segv, Walk
  <2>4. CASE write
    BY <2>1, <2>2, <2>4 DEF write, Walk
  <2>5. CASE exit
    BY <2>1, <2>2, <2>5 DEF exit, Walk
  <2>6. CASE UNCHANGED vars
    BY <2>1, <2>2, <2>6 DEF vars, Walk
  <2> QED BY <1>4, <2>3, <2>4, <2>5, <2>6
<1> QED BY <1>2, <1>3, <1>4 DEF Next

\* The zeros at the end: the last string's NUL and the null pointer.  A 64-bit
\* kernel's nine hold a whole word wherever the words begin, a 32-bit kernel's
\* five only if the block ends with a word or a byte after one.
LEMMA WordAtTheEnd ==
  ASSUME Walk, pc = "segv"
  PROVE  pointer = 4 /\ Size % 4 \in {2, 3}
<1> DEFINE last == IF pointer = 8 THEN shown - 2 ELSE shown - 1
<1>1. /\ stack = 4 * shown /\ Passed(shown) /\ stack <= Size /\ Size < stack + 4
      /\ shown \in Nat /\ pointer \in {4, 8} /\ Size \in Nat
      /\ Size = Len(strings) + pointer /\ Len(strings) \in Nat /\ Len(strings) > 1
      /\ \A k \in Len(strings)..Size : Block[k]
  BY TextFacts DEF Walk, Inside
<1>2. ASSUME NEW i \in Nat, i < shown, 4 * i + 1 >= Len(strings) PROVE FALSE
  <2>1. \A k \in (4 * i + 1)..(4 * i + 4) : k \in Len(strings)..Size
    BY <1>1, <1>2
  <2>2. Zero(4 * i)
    BY <1>1, <2>1 DEF Zero
  <2> QED BY <1>1, <1>2, <2>2 DEF Passed
<1>3. shown >= 1
  BY <1>1
<1>4. 4 * (shown - 1) + 1 < Len(strings)
  BY <1>1, <1>2, <1>3
<1>5. pointer = 4 /\ Size - 4 * shown \in {2, 3}
  BY <1>1, <1>4
<1> QED BY <1>1, <1>5

\* envstr.c runs off the stack only under a 32-bit kernel, for two of the four
\* sizes of the block.
THEOREM FallsOff == Spec => []FallsOffOnlyUnaligned
<1>1. Walk => FallsOffOnlyUnaligned
  BY WordAtTheEnd DEF FallsOffOnlyUnaligned
<1> QED BY <1>1, WalkStarts, WalkGoesOn, PTL DEF Spec

\* What it prints when it stops reaches to the last string's NUL, unless empty
\* strings stopped it, and not behind the block.
THEOREM AllPrinted == Spec => []PrintsAll
<1>1. Walk => PrintsAll
  <2> SUFFICES ASSUME Walk, pc \in {"write", "exit", "end"}
               PROVE  /\ stack >= Len(strings) - 1 \/ EmptyRun
                      /\ stack <= Size /\ shown = stack \div 4 - 1
    BY DEF PrintsAll
  <2>1. /\ stack = 4 * (shown + 1) /\ Zero(4 * shown) /\ stack <= Size
        /\ shown \in Nat /\ Len(strings) \in Nat
        /\ \A k \in 1..Len(strings) : Block[k] = strings[k]
    BY TextFacts DEF Walk
  <2>2. ASSUME stack < Len(strings) - 1 PROVE EmptyRun
    <3>1. 4 * shown + 1 \in 1..(Len(strings) - 3)
      BY <2>1, <2>2
    <3>2. \A j \in (4 * shown + 1)..(4 * shown + 1 + 3) : strings[j]
      BY <2>1, <2>2 DEF Zero
    <3> QED BY <3>1, <3>2 DEF EmptyRun
  <2>3. shown = stack \div 4 - 1
    BY <2>1
  <2> QED BY <2>1, <2>2, <2>3
<1> QED BY <1>1, WalkStarts, WalkGoesOn, PTL DEF Spec
=============================================================================
