---------------------------- MODULE ViertProofs ----------------------------
(***************************************************************************)
(* What holds of viert for every program, every cell width and every       *)
(* layout of the stacks:                                                   *)
(*   AbiIsKept     the ABI of the primitives (AbiHolds), and               *)
(*   RefinesForth  the step simulation of the Forth machine, for programs  *)
(*                 that keep to the stacks they were given (Disciplined).  *)
(*                                                                         *)
(* The first rests on AbiInv: eax holds a byte, but for the result of      *)
(* dupemit's failed write, and with that in eax nothing is looked up in    *)
(* the table any more.  The second adds Stacks: esp stays in the data      *)
(* stack and ebp above it, so a word that writes to one stack leaves the   *)
(* other; the stacks of the machine are slices of the memory.              *)
(***************************************************************************)
EXTENDS Viert, SequenceTheorems, TLAPS

-----------------------------------------------------------------------------
(* Forth is ViertCode with other variables: its constants and operators    *)
(* are those of Viert.                                                     *)

LEMMA SameArithmetic ==
  /\ Machine!True = True /\ Machine!MaxInt = MaxInt /\ Machine!Cells = Cells
  /\ Machine!DataBase = DataBase /\ Machine!ReturnBase = ReturnBase
BY DEF Machine!True, True, Machine!MaxInt, MaxInt, Machine!Cells, Cells,
       Machine!DataBase, DataBase, Machine!ReturnBase, ReturnBase

LEMMA SameNot == \A a : Machine!Not(a) = Not(a)
BY DEF Machine!Not, Not

LEMMA SameSigned == \A a : Machine!Signed(a) = Signed(a)
BY DEF Machine!Signed, Signed

LEMMA SameBit == \A a, p : Machine!Bit(a, p) = Bit(a, p)
BY DEF Machine!Bit, Bit

LEMMA SameBoth == \A a, b, p : Machine!Both(a, b, p) = Both(a, b, p)
BY SameBit DEF Machine!Both, Both

LEMMA SameAnd == \A a, b : Machine!And(a, b) = And(a, b)
BY SameBoth DEF Machine!And, And

LEMMA SameOr == \A a, b : Machine!Or(a, b) = Or(a, b)
BY SameAnd, SameNot DEF Machine!Or, Or

LEMMA SameNames == Machine!Names = Names
BY DEF Machine!Names, Names, Machine!Primitives, Primitives, Machine!ForthWords, ForthWords

LEMMA SameBreak == Machine!BREAK = BREAK
BY DEF Machine!BREAK, BREAK, Machine!Primitives, Primitives

LEMMA SameTokens == Machine!TokenOf = TokenOf
BY SameNames DEF Machine!TokenOf, TokenOf

LEMMA SameF == \A n : Machine!F(n) = F(n)
BY SameTokens DEF Machine!F, F

LEMMA SameLit == \A n : Machine!Lit(n) = Lit(n)
BY SameF DEF Machine!Lit, Lit

LEMMA SameString == \A s : Machine!String(s) = String(s)
BY SameF DEF Machine!String, String

LEMMA SameLoop == \A n, s : Machine!DoLoop(n, s) = DoLoop(n, s)
BY SameF, SameLit DEF Machine!DoLoop, DoLoop

LEMMA SameIf == \A s : Machine!If(s) = If(s)
BY SameF DEF Machine!If, If

LEMMA SameDef == \A s : Machine!Def(s) = Def(s)
BY SameF DEF Machine!Def, Def

LEMMA SameBodies == Machine!Bodies = Bodies
BY SameDef, SameIf, SameLoop, SameString, SameLit, SameF, SameArithmetic DEF Machine!Bodies, Bodies

LEMMA SameDictionary == Machine!Dictionary = Dictionary /\ Machine!FORTH = FORTH
BY SameBodies DEF Machine!Dictionary, Dictionary, Machine!Assembled, Assembled, Machine!FORTH, FORTH

LEMMA SameStarts == Machine!Starts = Starts
BY SameBodies DEF Machine!Starts, Starts

LEMMA SameTable == \A t : Machine!STATIC_TABLE(t) = STATIC_TABLE(t)
BY SameStarts, SameBreak DEF Machine!STATIC_TABLE, STATIC_TABLE

LEMMA SameCode == 
  /\ \A p : Machine!CodeEnd(p) = CodeEnd(p)
  /\ \A p, a : Machine!CodeAt(p, a) = CodeAt(p, a)
BY SameDictionary DEF Machine!CodeAt, CodeAt, Machine!CodeEnd, CodeEnd

LEMMA SameCell == \A p, a : Machine!CodeCell(p, a) = CodeCell(p, a)
BY SameCode DEF Machine!CodeCell, CodeCell

-----------------------------------------------------------------------------
\* What the width of a cell says of the other constants.
LEMMA Widths ==
  /\ W \in Nat /\ W >= 512 /\ W <= 65536 /\ W % 256 = 0 /\ W % 2 = 0
  /\ MaxInt \in Nat /\ MaxInt >= 256 /\ MaxInt <= 32768 /\ 2 * MaxInt = W
  /\ \A n \in Nat : n < W => n \in Cells
  /\ Bytes \subseteq Cells /\ True \in Cells /\ Cells \subseteq Nat
BY CellAssumption DEF MaxInt, Cells, Bytes, True

\* What a bit contributes to a number.
Part(n, power) == IF Bit(n, power) = 1 THEN power ELSE 0

\* A number below 2^16 is the sum of what its bits contribute.
LEMMA SumOfParts ==
  ASSUME NEW n \in Nat, n < 65536
  PROVE  n = Part(n, 1) + Part(n, 2) + Part(n, 4) + Part(n, 8)
             + Part(n, 16) + Part(n, 32) + Part(n, 64) + Part(n, 128)
             + Part(n, 256) + Part(n, 512) + Part(n, 1024) + Part(n, 2048)
             + Part(n, 4096) + Part(n, 8192) + Part(n, 16384)
             + Part(n, 32768)
<1> DEFINE q(power) == n \div power
           part(power) == Part(n, power)
<1>1. q(2) = q(1) \div 2 /\ q(1) \in Nat
        /\ part(1) = (IF q(1) % 2 = 1 THEN 1 ELSE 0)
  BY SMT DEF Part, Bit
<1>2. q(4) = q(2) \div 2 /\ q(2) \in Nat
        /\ part(2) = (IF q(2) % 2 = 1 THEN 2 ELSE 0)
  BY SMT DEF Part, Bit
<1>3. q(8) = q(4) \div 2 /\ q(4) \in Nat
        /\ part(4) = (IF q(4) % 2 = 1 THEN 4 ELSE 0)
  BY SMT DEF Part, Bit
<1>4. q(16) = q(8) \div 2 /\ q(8) \in Nat
        /\ part(8) = (IF q(8) % 2 = 1 THEN 8 ELSE 0)
  BY SMT DEF Part, Bit
<1>5. q(32) = q(16) \div 2 /\ q(16) \in Nat
        /\ part(16) = (IF q(16) % 2 = 1 THEN 16 ELSE 0)
  BY SMT DEF Part, Bit
<1>6. q(64) = q(32) \div 2 /\ q(32) \in Nat
        /\ part(32) = (IF q(32) % 2 = 1 THEN 32 ELSE 0)
  BY SMT DEF Part, Bit
<1>7. q(128) = q(64) \div 2 /\ q(64) \in Nat
        /\ part(64) = (IF q(64) % 2 = 1 THEN 64 ELSE 0)
  BY SMT DEF Part, Bit
<1>8. q(256) = q(128) \div 2 /\ q(128) \in Nat
        /\ part(128) = (IF q(128) % 2 = 1 THEN 128 ELSE 0)
  BY SMT DEF Part, Bit
<1>9. q(512) = q(256) \div 2 /\ q(256) \in Nat
        /\ part(256) = (IF q(256) % 2 = 1 THEN 256 ELSE 0)
  BY SMT DEF Part, Bit
<1>10. q(1024) = q(512) \div 2 /\ q(512) \in Nat
        /\ part(512) = (IF q(512) % 2 = 1 THEN 512 ELSE 0)
  BY SMT DEF Part, Bit
<1>11. q(2048) = q(1024) \div 2 /\ q(1024) \in Nat
        /\ part(1024) = (IF q(1024) % 2 = 1 THEN 1024 ELSE 0)
  BY SMT DEF Part, Bit
<1>12. q(4096) = q(2048) \div 2 /\ q(2048) \in Nat
        /\ part(2048) = (IF q(2048) % 2 = 1 THEN 2048 ELSE 0)
  BY SMT DEF Part, Bit
<1>13. q(8192) = q(4096) \div 2 /\ q(4096) \in Nat
        /\ part(4096) = (IF q(4096) % 2 = 1 THEN 4096 ELSE 0)
  BY SMT DEF Part, Bit
<1>14. q(16384) = q(8192) \div 2 /\ q(8192) \in Nat
        /\ part(8192) = (IF q(8192) % 2 = 1 THEN 8192 ELSE 0)
  BY SMT DEF Part, Bit
<1>15. q(32768) = q(16384) \div 2 /\ q(16384) \in Nat
        /\ part(16384) = (IF q(16384) % 2 = 1 THEN 16384 ELSE 0)
  BY SMT DEF Part, Bit
<1>16. q(32768) \in {0, 1} /\ q(32768) \in Nat
        /\ part(32768) = (IF q(32768) % 2 = 1 THEN 32768 ELSE 0)
  BY SMT DEF Part, Bit
<1> HIDE DEF q, part
<1>21. q(1) = 2 * q(2) + part(1) /\ part(1) \in Nat
  BY <1>1, SMT
<1>22. 2 * q(2) = 4 * q(4) + part(2) /\ part(2) \in Nat
  BY <1>2, SMT
<1>23. 4 * q(4) = 8 * q(8) + part(4) /\ part(4) \in Nat
  BY <1>3, SMT
<1>24. 8 * q(8) = 16 * q(16) + part(8) /\ part(8) \in Nat
  BY <1>4, SMT
<1>25. 16 * q(16) = 32 * q(32) + part(16) /\ part(16) \in Nat
  BY <1>5, SMT
<1>26. 32 * q(32) = 64 * q(64) + part(32) /\ part(32) \in Nat
  BY <1>6, SMT
<1>27. 64 * q(64) = 128 * q(128) + part(64) /\ part(64) \in Nat
  BY <1>7, SMT
<1>28. 128 * q(128) = 256 * q(256) + part(128) /\ part(128) \in Nat
  BY <1>8, SMT
<1>29. 256 * q(256) = 512 * q(512) + part(256) /\ part(256) \in Nat
  BY <1>9, SMT
<1>30. 512 * q(512) = 1024 * q(1024) + part(512) /\ part(512) \in Nat
  BY <1>10, SMT
<1>31. 1024 * q(1024) = 2048 * q(2048) + part(1024) /\ part(1024) \in Nat
  BY <1>11, SMT
<1>32. 2048 * q(2048) = 4096 * q(4096) + part(2048) /\ part(2048) \in Nat
  BY <1>12, SMT
<1>33. 4096 * q(4096) = 8192 * q(8192) + part(4096) /\ part(4096) \in Nat
  BY <1>13, SMT
<1>34. 8192 * q(8192) = 16384 * q(16384) + part(8192) /\ part(8192) \in Nat
  BY <1>14, SMT
<1>35. 16384 * q(16384) = 32768 * q(32768) + part(16384) /\ part(16384) \in Nat
  BY <1>15, SMT
<1>36. 32768 * q(32768) = part(32768) /\ part(32768) \in Nat
  BY <1>16, SMT
<1>40. q(1) = part(1) + part(2) + part(4) + part(8) + 16 * q(16)
  BY <1>1, <1>2, <1>3, <1>4, <1>21, <1>22, <1>23, <1>24, SMT
<1>41. 16 * q(16) = part(16) + part(32) + part(64) + part(128) + 256 * q(256)
  BY <1>5, <1>6, <1>7, <1>8, <1>25, <1>26, <1>27, <1>28, SMT
<1>42. 256 * q(256) = part(256) + part(512) + part(1024) + part(2048) + 4096 * q(4096)
  BY <1>9, <1>10, <1>11, <1>12, <1>29, <1>30, <1>31, <1>32, SMT
<1>43. 4096 * q(4096) = part(4096) + part(8192) + part(16384) + part(32768)
  BY <1>13, <1>14, <1>15, <1>16, <1>33, <1>34, <1>35, <1>36, SMT
<1>45. q(1) = n
  BY SMT DEF q
<1>46. n = part(1) + part(2) + part(4) + part(8) + part(16) + part(32)
            + part(64) + part(128) + part(256) + part(512) + part(1024)
            + part(2048) + part(4096) + part(8192) + part(16384) + part(32768)
  BY <1>5, <1>9, <1>13, <1>21, <1>22, <1>23, <1>24, <1>25, <1>26, <1>27, <1>28,
     <1>29, <1>30, <1>31, <1>32, <1>33, <1>34, <1>35, <1>36,
     <1>40, <1>41, <1>42, <1>43, <1>45, SMT
<1> QED
  BY <1>46 DEF part

\* A bit that two numbers share is one of the first.
LEMMA BothRange ==
  ASSUME NEW a, NEW b, NEW p \in Nat \ {0}
  PROVE  Both(a, b, p) \in Nat /\ Both(a, b, p) <= Part(a, p) /\ Part(a, p) \in Nat
BY DEF Both, Part

\* and, not and or of cells are cells.
LEMMA AndRange ==
  ASSUME NEW a \in Cells, NEW b \in Cells
  PROVE  And(a, b) \in Cells
<1>1. a \in Nat /\ a < 65536 /\ a < W
  BY Widths DEF Cells
<1>2. And(a, b) \in Nat /\ And(a, b) <= a
  <2> DEFINE s(p) == Both(a, b, p)
             t(p) == Part(a, p)
  <2> DEFINE below(p) == s(p) \in Nat /\ s(p) <= t(p) /\ t(p) \in Nat
  <2>1. /\ below(1) /\ below(2) /\ below(4) /\ below(8)
        /\ below(16) /\ below(32) /\ below(64) /\ below(128)
        /\ below(256) /\ below(512) /\ below(1024) /\ below(2048)
        /\ below(4096) /\ below(8192) /\ below(16384) /\ below(32768)
    BY BothRange
  <2>2. And(a, b) = s(1) + s(2) + s(4) + s(8) + s(16) + s(32) + s(64) + s(128)
          + s(256) + s(512) + s(1024) + s(2048) + s(4096) + s(8192)
          + s(16384) + s(32768)
    BY DEF And
  <2>3. a = t(1) + t(2) + t(4) + t(8) + t(16) + t(32) + t(64) + t(128)
          + t(256) + t(512) + t(1024) + t(2048) + t(4096) + t(8192)
          + t(16384) + t(32768)
    BY <1>1, SumOfParts
  <2> HIDE DEF s, t
  <2> QED
    BY <2>1, <2>2, <2>3
<1> QED
  BY <1>1, <1>2, Widths DEF Cells

LEMMA NotRange ==
  ASSUME NEW a \in Cells
  PROVE  Not(a) \in Cells
BY Widths DEF Not, Cells

LEMMA OrRange ==
  ASSUME NEW a \in Cells, NEW b \in Cells
  PROVE  Or(a, b) \in Cells
BY AndRange, NotRange DEF Or

-----------------------------------------------------------------------------
\* Every word has a token, and it is a byte.
LEMMA Tokens ==
  ASSUME NEW i \in 1 .. 48
  PROVE  TokenOf[Names[i]] \in Bytes
<1> DEFINE chosen == CHOOSE j \in 1 .. 48 : Names[j] = Names[i]
<1>1. Len(Names) = 48
  BY DEF Names, Primitives, ForthWords
<1>2. TokenOf[Names[i]] = chosen - 1
  BY <1>1 DEF TokenOf
<1>3. chosen \in 1 .. 48
  OBVIOUS
<1> HIDE DEF chosen
<1> QED
  BY <1>2, <1>3 DEF Bytes

\* The words the dictionary is written in.
LEMMA WordBytes ==
  \A name \in {"EXIT", "swap", "dup", "over", "drop", "rspush", "zbranch", "while2", "string", "plus", "not", "and", "divmod", "lit8", "lit32", "syscall3", "sp_at", "false", "true", "1", "inc", "negate", "puts", "emit", "nl", "udot"} :
    F(name) \in Seq(Bytes)
<1>1. TokenOf["EXIT"] \in Bytes
  <2>1. Names[1] = "EXIT"
    BY DEF Names, Primitives, ForthWords
  <2> QED
    BY <2>1, Tokens
<1>2. TokenOf["swap"] \in Bytes
  <2>1. Names[2] = "swap"
    BY DEF Names, Primitives, ForthWords
  <2> QED
    BY <2>1, Tokens
<1>3. TokenOf["dup"] \in Bytes
  <2>1. Names[3] = "dup"
    BY DEF Names, Primitives, ForthWords
  <2> QED
    BY <2>1, Tokens
<1>4. TokenOf["over"] \in Bytes
  <2>1. Names[4] = "over"
    BY DEF Names, Primitives, ForthWords
  <2> QED
    BY <2>1, Tokens
<1>5. TokenOf["drop"] \in Bytes
  <2>1. Names[5] = "drop"
    BY DEF Names, Primitives, ForthWords
  <2> QED
    BY <2>1, Tokens
<1>6. TokenOf["rspush"] \in Bytes
  <2>1. Names[16] = "rspush"
    BY DEF Names, Primitives, ForthWords
  <2> QED
    BY <2>1, Tokens
<1>7. TokenOf["zbranch"] \in Bytes
  <2>1. Names[17] = "zbranch"
    BY DEF Names, Primitives, ForthWords
  <2> QED
    BY <2>1, Tokens
<1>8. TokenOf["while2"] \in Bytes
  <2>1. Names[19] = "while2"
    BY DEF Names, Primitives, ForthWords
  <2> QED
    BY <2>1, Tokens
<1>9. TokenOf["string"] \in Bytes
  <2>1. Names[21] = "string"
    BY DEF Names, Primitives, ForthWords
  <2> QED
    BY <2>1, Tokens
<1>10. TokenOf["plus"] \in Bytes
  <2>1. Names[22] = "plus"
    BY DEF Names, Primitives, ForthWords
  <2> QED
    BY <2>1, Tokens
<1>11. TokenOf["not"] \in Bytes
  <2>1. Names[23] = "not"
    BY DEF Names, Primitives, ForthWords
  <2> QED
    BY <2>1, Tokens
<1>12. TokenOf["and"] \in Bytes
  <2>1. Names[24] = "and"
    BY DEF Names, Primitives, ForthWords
  <2> QED
    BY <2>1, Tokens
<1>13. TokenOf["divmod"] \in Bytes
  <2>1. Names[28] = "divmod"
    BY DEF Names, Primitives, ForthWords
  <2> QED
    BY <2>1, Tokens
<1>14. TokenOf["lit8"] \in Bytes
  <2>1. Names[29] = "lit8"
    BY DEF Names, Primitives, ForthWords
  <2> QED
    BY <2>1, Tokens
<1>15. TokenOf["lit32"] \in Bytes
  <2>1. Names[30] = "lit32"
    BY DEF Names, Primitives, ForthWords
  <2> QED
    BY <2>1, Tokens
<1>16. TokenOf["syscall3"] \in Bytes
  <2>1. Names[31] = "syscall3"
    BY DEF Names, Primitives, ForthWords
  <2> QED
    BY <2>1, Tokens
<1>17. TokenOf["sp_at"] \in Bytes
  <2>1. Names[9] = "sp_at"
    BY DEF Names, Primitives, ForthWords
  <2> QED
    BY <2>1, Tokens
<1>18. TokenOf["false"] \in Bytes
  <2>1. Names[32] = "false"
    BY DEF Names, Primitives, ForthWords
  <2> QED
    BY <2>1, Tokens
<1>19. TokenOf["true"] \in Bytes
  <2>1. Names[33] = "true"
    BY DEF Names, Primitives, ForthWords
  <2> QED
    BY <2>1, Tokens
<1>20. TokenOf["1"] \in Bytes
  <2>1. Names[35] = "1"
    BY DEF Names, Primitives, ForthWords
  <2> QED
    BY <2>1, Tokens
<1>21. TokenOf["inc"] \in Bytes
  <2>1. Names[36] = "inc"
    BY DEF Names, Primitives, ForthWords
  <2> QED
    BY <2>1, Tokens
<1>22. TokenOf["negate"] \in Bytes
  <2>1. Names[37] = "negate"
    BY DEF Names, Primitives, ForthWords
  <2> QED
    BY <2>1, Tokens
<1>23. TokenOf["puts"] \in Bytes
  <2>1. Names[44] = "puts"
    BY DEF Names, Primitives, ForthWords
  <2> QED
    BY <2>1, Tokens
<1>24. TokenOf["emit"] \in Bytes
  <2>1. Names[45] = "emit"
    BY DEF Names, Primitives, ForthWords
  <2> QED
    BY <2>1, Tokens
<1>25. TokenOf["nl"] \in Bytes
  <2>1. Names[46] = "nl"
    BY DEF Names, Primitives, ForthWords
  <2> QED
    BY <2>1, Tokens
<1>26. TokenOf["udot"] \in Bytes
  <2>1. Names[47] = "udot"
    BY DEF Names, Primitives, ForthWords
  <2> QED
    BY <2>1, Tokens
<1> QED
  BY <1>1, <1>2, <1>3, <1>4, <1>5, <1>6, <1>7, <1>8, <1>9, <1>10, <1>11, <1>12, <1>13, <1>14, <1>15, <1>16, <1>17, <1>18, <1>19, <1>20, <1>21, <1>22, <1>23, <1>24, <1>25, <1>26 DEF F

\* Bytes, so few that their number fits a byte.
Short(s, n) == s \in Seq(Bytes) /\ Len(s) <= n

\* Short texts of code, one behind the other.
LEMMA Joined ==
  ASSUME NEW s, NEW t, NEW m \in Nat, NEW n \in Nat, Short(s, m), Short(t, n)
  PROVE  Short(s \o t, m + n)
BY DEF Short

LEMMA ShortBytes ==
  ASSUME NEW s, NEW n \in Nat, Short(s, n)
  PROVE  s \in Seq(Bytes)
BY DEF Short

LEMMA Shorter ==
  ASSUME NEW s, NEW m \in Nat, NEW n \in Nat, m <= n, Short(s, m)
  PROVE  Short(s, n)
BY LenProperties DEF Short

LEMMA WordShort ==
  \A name \in {"EXIT", "swap", "dup", "over", "drop", "rspush", "zbranch", "while2", "string", "plus", "not", "and", "divmod", "lit8", "lit32", "syscall3", "sp_at", "false", "true", "1", "inc", "negate", "puts", "emit", "nl", "udot"} :
    Short(F(name), 1)
BY WordBytes DEF Short, F

\* The macros make bytes, few enough for their distances to be bytes.
LEMMA LitShort ==
  ASSUME NEW n \in Nat, n < 65536
  PROVE  Short(Lit(n), 3)
<1>1. Short(F("lit8"), 1) /\ Short(F("lit32"), 1)
  BY WordShort
<1>2. CASE n < 256
  BY <1>1, <1>2 DEF Lit, Bytes, Short
<1>3. CASE n >= 256
  <2>1. n % 256 \in Bytes /\ n \div 256 \in Bytes
    BY DEF Bytes
  <2> QED
    BY <1>1, <1>3, <2>1 DEF Lit, Short
<1> QED
  BY <1>2, <1>3

LEMMA SmallBytes == \A n \in Nat : n < 256 => n \in Bytes
BY DEF Bytes

LEMMA ByteShort ==
  ASSUME NEW b \in Bytes
  PROVE  Short(<< b >>, 1)
BY DEF Short

LEMMA LoopShort ==
  ASSUME NEW n \in Nat, n < 65536, NEW s, Short(s, 10)
  PROVE  Short(DoLoop(n, s), 16)
<1>1. Short(F("rspush"), 1) /\ Short(F("while2"), 1)
  BY WordShort
<1>2. Short(Lit(n), 3)
  BY LitShort
<1>3. Len(s) \in Nat /\ Len(s) <= 10
  BY LenProperties DEF Short
<1>4. Len(s) + 2 \in Bytes
  <2> DEFINE length == Len(s)
  <2> HIDE DEF length
  <2>1. length + 2 \in Bytes
    BY <1>3, SmallBytes DEF length
  <2> QED
    BY <2>1 DEF length
<1>5. Short(<< Len(s) + 2 >>, 1)
  BY <1>4, ByteShort
<1>6. Short(Lit(n) \o F("rspush"), 4)
  BY <1>1, <1>2, Joined, 3 + 1 = 4
<1>7. Short(Lit(n) \o F("rspush") \o s, 14)
  BY <1>6, Joined, 4 + 10 = 14
<1>8. Short(Lit(n) \o F("rspush") \o s \o F("while2"), 15)
  BY <1>1, <1>7, Joined, 14 + 1 = 15
<1>9. Short(Lit(n) \o F("rspush") \o s \o F("while2") \o << Len(s) + 2 >>, 16)
  BY <1>5, <1>8, Joined, 15 + 1 = 16
<1> QED
  BY <1>9 DEF DoLoop

LEMMA IfShort ==
  ASSUME NEW s, Short(s, 10)
  PROVE  Short(If(s), 12)
<1>1. Short(F("zbranch"), 1)
  BY WordShort
<1>2. Len(s) \in Nat /\ Len(s) <= 10
  BY LenProperties DEF Short
<1>3. Len(s) + 1 \in Bytes
  BY <1>2, SmallBytes
<1>4. Short(<< Len(s) + 1 >>, 1)
  BY <1>3, ByteShort
<1>5. Short(F("zbranch") \o << Len(s) + 1 >>, 2)
  BY <1>1, <1>4, Joined, 1 + 1 = 2
<1>6. Short(F("zbranch") \o << Len(s) + 1 >> \o s, 12)
  BY <1>5, Joined, 2 + 10 = 12
<1> QED
  BY <1>6 DEF If

LEMMA DefShort ==
  ASSUME NEW s, NEW n \in Nat, Short(s, n)
  PROVE  Short(Def(s), n + 1)
BY WordShort, Joined DEF Def

LEMMA Chained ==
  \A s, t \in Seq(Bytes) : s \o t \in Seq(Bytes)
OBVIOUS

\* What the dictionary is put together from.
LEMMA Pieces ==
  /\ \A name \in {"EXIT", "swap", "dup", "over", "drop", "rspush", "zbranch", "while2", "string", "plus", "not", "and", "divmod", "lit8", "lit32", "syscall3", "sp_at", "false", "true", "1", "inc", "negate", "puts", "emit", "nl", "udot"} :
       F(name) \in Seq(Bytes)
  /\ \A n \in {0, 1, 4, 10, 48, MaxInt} : Lit(n) \in Seq(Bytes)
  /\ DoLoop(10, Lit(10) \o F("divmod")) \in Seq(Bytes)
  /\ DoLoop(10, Lit(48) \o F("plus") \o F("emit")) \in Seq(Bytes)
  /\ If(String(<< 45 >>) \o F("puts") \o F("negate")) \in Seq(Bytes)
  /\ \A s \in Seq(Bytes) : Def(s) \in Seq(Bytes)
<1>1. \A n \in {0, 1, 4, 10, 48, MaxInt} : n \in Nat /\ n < 65536
  BY Widths
<1>2. Short(Lit(10), 3) /\ Short(Lit(48), 3)
  BY LitShort
<1>3. Short(F("divmod"), 1) /\ Short(F("plus"), 1) /\ Short(F("emit"), 1)
      /\ Short(F("string"), 1) /\ Short(F("puts"), 1) /\ Short(F("negate"), 1)
  BY WordShort
<1>4. DoLoop(10, Lit(10) \o F("divmod")) \in Seq(Bytes)
  <2>1. Short(Lit(10) \o F("divmod"), 4)
    BY <1>2, <1>3, Joined, 3 + 1 = 4
  <2>2. Short(Lit(10) \o F("divmod"), 10)
    BY <2>1, Shorter, 4 <= 10
  <2> QED
    BY <2>2, LoopShort, ShortBytes, 10 < 65536
<1>5. DoLoop(10, Lit(48) \o F("plus") \o F("emit")) \in Seq(Bytes)
  <2>1. Short(Lit(48) \o F("plus"), 4)
    BY <1>2, <1>3, Joined, 3 + 1 = 4
  <2>2. Short(Lit(48) \o F("plus") \o F("emit"), 5)
    BY <1>3, <2>1, Joined, 4 + 1 = 5
  <2>3. Short(Lit(48) \o F("plus") \o F("emit"), 10)
    BY <2>2, Shorter, 5 <= 10
  <2> QED
    BY <2>3, LoopShort, ShortBytes, 10 < 65536
<1>6. If(String(<< 45 >>) \o F("puts") \o F("negate")) \in Seq(Bytes)
  <2>1. Short(<< 45 >>, 1) /\ Short(<< Len(<< 45 >>) >>, 1)
    BY ByteShort, SmallBytes
  <2>2. Short(F("string") \o << Len(<< 45 >>) >>, 2)
    BY <1>3, <2>1, Joined, 1 + 1 = 2
  <2>3. Short(String(<< 45 >>), 3)
    BY <2>1, <2>2, Joined, 2 + 1 = 3 DEF String
  <2>4. Short(String(<< 45 >>) \o F("puts"), 4)
    BY <1>3, <2>3, Joined, 3 + 1 = 4
  <2>5. Short(String(<< 45 >>) \o F("puts") \o F("negate"), 5)
    BY <1>3, <2>4, Joined, 4 + 1 = 5
  <2>6. Short(String(<< 45 >>) \o F("puts") \o F("negate"), 10)
    BY <2>5, Shorter, 5 <= 10
  <2> QED
    BY <2>6, IfShort, ShortBytes
<1>7. \A s \in Seq(Bytes) : Def(s) \in Seq(Bytes)
  BY WordBytes, Chained DEF Def
<1>8. \A n \in {0, 1, 4, 10, 48, MaxInt} : Lit(n) \in Seq(Bytes)
  <2> TAKE n \in {0, 1, 4, 10, 48, MaxInt}
  <2>1. Short(Lit(n), 3)
    BY <1>1, LitShort
  <2> QED
    BY <2>1, ShortBytes
<1> QED
  BY <1>4, <1>5, <1>6, <1>7, <1>8, WordBytes

\* The code of each word is bytes, and so is the dictionary.
LEMMA BodyBytes ==
  {Bodies[1], Bodies[2], Bodies[3], Bodies[4], Bodies[5], Bodies[6], Bodies[7],
   Bodies[8], Bodies[9], Bodies[10], Bodies[11], Bodies[12], Bodies[13],
   Bodies[14], Bodies[15], Bodies[16], Bodies[17]} \subseteq Seq(Bytes)
<1>1. Bodies[1] \in Seq(Bytes)
  <2>1. Def(Lit(0)) \in Seq(Bytes)
    BY Pieces, Chained
  <2> QED
    BY <2>1 DEF Bodies
<1>2. Bodies[2] \in Seq(Bytes)
  <2>1. Def(F("false") \o F("not")) \in Seq(Bytes)
    BY Pieces, Chained
  <2> QED
    BY <2>1 DEF Bodies
<1>3. Bodies[3] \in Seq(Bytes)
  <2>1. Def(F("true") \o F("plus")) \in Seq(Bytes)
    BY Pieces, Chained
  <2> QED
    BY <2>1 DEF Bodies
<1>4. Bodies[4] \in Seq(Bytes)
  <2>1. Def(Lit(1)) \in Seq(Bytes)
    BY Pieces, Chained
  <2> QED
    BY <2>1 DEF Bodies
<1>5. Bodies[5] \in Seq(Bytes)
  <2>1. Def(F("1") \o F("plus")) \in Seq(Bytes)
    BY Pieces, Chained
  <2> QED
    BY <2>1 DEF Bodies
<1>6. Bodies[6] \in Seq(Bytes)
  <2>1. Def(F("not") \o F("inc")) \in Seq(Bytes)
    BY Pieces, Chained
  <2> QED
    BY <2>1 DEF Bodies
<1>7. Bodies[7] \in Seq(Bytes)
  <2>1. Def(F("negate") \o F("plus")) \in Seq(Bytes)
    BY Pieces, Chained
  <2> QED
    BY <2>1 DEF Bodies
<1>8. Bodies[8] \in Seq(Bytes)
  <2>1. F("1") \o F("syscall3") \in Seq(Bytes)
    BY Pieces, Chained
  <2> QED
    BY <2>1 DEF Bodies
<1>9. Bodies[9] \in Seq(Bytes)
  <2>1. Def(F("over") \o F("over")) \in Seq(Bytes)
    BY Pieces, Chained
  <2> QED
    BY <2>1 DEF Bodies
<1>10. Bodies[10] \in Seq(Bytes)
  <2>1. Def(F("drop") \o F("drop")) \in Seq(Bytes)
    BY Pieces, Chained
  <2> QED
    BY <2>1 DEF Bodies
<1>11. Bodies[11] \in Seq(Bytes)
  <2>1. Def(F("divmod") \o F("drop")) \in Seq(Bytes)
    BY Pieces, Chained
  <2> QED
    BY <2>1 DEF Bodies
<1>12. Bodies[12] \in Seq(Bytes)
  <2>1. Def(F("divmod") \o F("swap") \o F("drop")) \in Seq(Bytes)
    BY Pieces, Chained
  <2> QED
    BY <2>1 DEF Bodies
<1>13. Bodies[13] \in Seq(Bytes)
  <2>1. Def(F("swap") \o Lit(1) \o Lit(4) \o F("syscall3") \o F("drop")) \in Seq(Bytes)
    BY Pieces, Chained
  <2> QED
    BY <2>1 DEF Bodies
<1>14. Bodies[14] \in Seq(Bytes)
  <2>1. Def(F("sp_at") \o Lit(1) \o F("puts") \o F("drop")) \in Seq(Bytes)
    BY Pieces, Chained
  <2> QED
    BY <2>1 DEF Bodies
<1>15. Bodies[15] \in Seq(Bytes)
  <2>1. Def(Lit(10) \o F("emit")) \in Seq(Bytes)
    BY Pieces, Chained
  <2> QED
    BY <2>1 DEF Bodies
<1>16. Bodies[16] \in Seq(Bytes)
  <2>1. Def(DoLoop(10, Lit(10) \o F("divmod")) \o F("drop")
           \o DoLoop(10, Lit(48) \o F("plus") \o F("emit")) \o F("nl")) \in Seq(Bytes)
    BY Pieces, Chained
  <2> QED
    BY <2>1 DEF Bodies
<1>17. Bodies[17] \in Seq(Bytes)
  <2>1. Def(F("dup") \o Lit(MaxInt) \o F("and")
           \o If(String(<< 45 >>) \o F("puts") \o F("negate")) \o F("udot")) \in Seq(Bytes)
    BY Pieces, Chained
  <2> QED
    BY <2>1 DEF Bodies
<1> QED
  BY <1>1, <1>2, <1>3, <1>4, <1>5, <1>6, <1>7, <1>8, <1>9, <1>10, <1>11, <1>12, <1>13, <1>14, <1>15, <1>16, <1>17

LEMMA DictionaryBytes ==
  Dictionary \in Seq(Bytes) /\ FORTH \in Nat /\ FORTH = Len(Dictionary)
<1>1. Bodies[1] \o Bodies[2] \o Bodies[3] \o Bodies[4] \o Bodies[5] \in Seq(Bytes)
  BY BodyBytes, Chained
<1>2. Bodies[1] \o Bodies[2] \o Bodies[3] \o Bodies[4] \o Bodies[5] \o
      Bodies[6] \o Bodies[7] \o Bodies[8] \o Bodies[9] \in Seq(Bytes)
  BY <1>1, BodyBytes, Chained
<1>3. Bodies[1] \o Bodies[2] \o Bodies[3] \o Bodies[4] \o Bodies[5] \o
      Bodies[6] \o Bodies[7] \o Bodies[8] \o Bodies[9] \o Bodies[10] \o
      Bodies[11] \o Bodies[12] \o Bodies[13] \in Seq(Bytes)
  BY <1>2, BodyBytes, Chained
<1>4. Bodies[1] \o Bodies[2] \o Bodies[3] \o Bodies[4] \o Bodies[5] \o
      Bodies[6] \o Bodies[7] \o Bodies[8] \o Bodies[9] \o Bodies[10] \o
      Bodies[11] \o Bodies[12] \o Bodies[13] \o Bodies[14] \o Bodies[15]
      \o Bodies[16] \o Bodies[17] \in Seq(Bytes)
  BY <1>3, BodyBytes, Chained
<1> QED
  BY <1>4, LenProperties DEF Dictionary, Assembled, FORTH

\* The code lies below the stacks; all of it is bytes.
LEMMA CodeEndRange ==
  ASSUME prog \in Programs
  PROVE  CodeEnd(prog) \in Nat /\ CodeEnd(prog) < StackEnd
BY LayoutAssumption, DictionaryBytes, LenProperties DEF CodeEnd

LEMMA CodeBytes ==
  ASSUME prog \in Programs, NEW a, InCode(a)
  PROVE  CodeAt(prog, a) \in Bytes /\ a \in Nat
<1>1. prog \in Seq(Bytes)
  BY LayoutAssumption
<1>2. a \in Nat /\ a < FORTH + Len(prog)
  BY <1>1, DictionaryBytes, LenProperties DEF InCode, CodeEnd
<1>3. CASE a < FORTH
  <2>1. a + 1 \in 1 .. Len(Dictionary)
    BY <1>2, <1>3, DictionaryBytes
  <2> QED
    BY <1>2, <1>3, <2>1, DictionaryBytes, ElementOfSeq DEF CodeAt
<1>4. CASE a >= FORTH
  <2>1. a - FORTH + 1 \in 1 .. Len(prog)
    BY <1>1, <1>2, <1>4, DictionaryBytes, LenProperties
  <2> QED
    BY <1>1, <1>2, <1>4, <2>1, DictionaryBytes, ElementOfSeq DEF CodeAt
<1> QED
  BY <1>2, <1>3, <1>4, DictionaryBytes

LEMMA NamesLength == Len(Names) = 48 /\ BREAK = 31
BY DEF Names, Primitives, ForthWords, BREAK

\* lodsb on a register that holds a byte leaves the byte it loads, and on one
\* that holds -1 nothing that the table has an entry for.
LEMMA LowOfByte ==
  ASSUME NEW r \in Bytes, NEW b \in Bytes
  PROVE  Low(r, b) = b
BY DEF Low, Bytes

LEMMA LowOfTrue ==
  ASSUME NEW b \in Bytes
  PROVE  Low(True, b) > 48
BY Widths DEF Low, Bytes, True

-----------------------------------------------------------------------------
\* eax holds a byte, but for the result of dupemit's failed write.
AbiInv ==
  /\ prog \in Programs
  /\ faults \in Nat
  /\ eax \in Bytes \/ (eax = True /\ faults > 0)

\* A word that is looked up is the byte at esi.
LEMMA Looked ==
  ASSUME AbiInv, Fetched
  PROVE  /\ eax \in Bytes
         /\ Token \in Bytes /\ Token \in 0 .. 47 /\ Token = CodeAt(prog, esi)
         /\ esi \in Nat /\ InCode(esi) /\ esi < CodeEnd(prog)
<1>1. InCode(esi) /\ CodeAt(prog, esi) \in Bytes /\ esi \in Nat
  BY CodeBytes DEF AbiInv, Fetched
<1>2. eax \in Bytes
  <2>1. Token < 48
    BY NamesLength DEF Fetched
  <2>2. eax # True
    <3> SUFFICES ASSUME eax = True
                 PROVE  FALSE
      OBVIOUS
    <3>1. Token > 48 /\ Token \in Nat
      BY <1>1, LowOfTrue, Widths DEF Token, Low, Bytes, True
    <3> QED
      BY <2>1, <3>1
  <2> QED
    BY <2>2 DEF AbiInv
<1>3. Token = CodeAt(prog, esi)
  BY <1>1, <1>2, LowOfByte DEF Token
<1>4. Token < 48
  BY NamesLength DEF Fetched
<1>5. esi < CodeEnd(prog)
  BY <1>1, CodeEndRange DEF InCode, AbiInv
<1> QED
  BY <1>1, <1>2, <1>3, <1>4, <1>5 DEF Bytes

\* What follows a word that reads it is there, and comes out of lodsb alone.
LEMMA OperandByte ==
  ASSUME AbiInv, NEW name \in {"lit8", "lit32", "string", "branch", "zbranch", "while2"},
         At(name)
  PROVE  /\ InCode(esi + 1) /\ Inline \in Bytes /\ Low(Token, Inline) = Inline
         /\ Inline = CodeAt(prog, esi + 1)
<1>1. InCode(esi + 1)
  <2>1. Operands(Names[Token + 1]) \in {1, 2}
    BY DEF At, Operands
  <2>2. InCode(esi + Operands(Names[Token + 1])) /\ InCode(esi) /\ esi \in Nat
    BY Looked DEF At, Fetched
  <2> QED
    BY <2>1, <2>2, CodeEndRange DEF InCode, AbiInv
<1> QED
  BY <1>1, CodeBytes, Looked, LowOfByte DEF AbiInv, Inline, At

\* A primitive that ends with a byte in eax keeps the ABI; so does a fault.
LEMMA PrimitiveAbi ==
  ASSUME AbiInv, NEW n, NEW cells, NEW skip, NEW r \in Bytes,
         Primitive(n, cells, skip, r)
  PROVE  AbiInv'
<1>1. prog' = prog /\ faults' = faults /\ eax' \in {eax, r}
  BY DEF Primitive, Fault, Die, registers
<1> QED
  BY <1>1 DEF AbiInv

LEMMA FaultAbi ==
  ASSUME AbiInv, NEW how, Die(how)
  PROVE  AbiInv'
BY DEF AbiInv, Die, registers

\* The words that go to NEXT with a byte in eax.
LEMMA KeptAbi ==
  ASSUME AbiInv, prog' = prog, faults' = faults, eax' \in Bytes
  PROVE  AbiInv'
BY DEF AbiInv

LEMMA ZeroIsByte == 0 \in Bytes
BY DEF Bytes

LEMMA StackWordsAbi ==
  ASSUME AbiInv,
         Swap \/ Dup \/ Over \/ Drop \/ Rot \/ ZeroNe \/ ZeroLt \/ Nand \/ Nand2
           \/ Plus \/ NotWord \/ AndWord \/ OrWord \/ Nor \/ Not2 \/ DivMod
  PROVE  AbiInv'
<1>1. CASE Swap \/ Rot \/ ZeroNe \/ Nand \/ Nand2 \/ Nor \/ Not2
  BY <1>1, PrimitiveAbi, ZeroIsByte
     DEF Swap, Rot, ZeroNe, Nand, Nand2, Nor, Not2, pusheax, pushedxeax
<1>2. CASE Dup \/ Over \/ Drop \/ Plus \/ NotWord \/ AndWord \/ OrWord
  BY <1>2, PrimitiveAbi, Looked
     DEF Dup, Over, Drop, Plus, NotWord, AndWord, OrWord, At
<1>3. CASE ZeroLt
  BY <1>3, PrimitiveAbi, FaultAbi, ZeroIsByte DEF ZeroLt, pushedxeax, Fault
<1>4. CASE DivMod
  BY <1>4, PrimitiveAbi, FaultAbi, ZeroIsByte DEF DivMod, pushedxeax, Fault
<1> QED
  BY <1>1, <1>2, <1>3, <1>4

LEMMA MemoryWordsAbi ==
  ASSUME AbiInv,
         Lit8 \/ Lit32 \/ String2 \/ SpAt \/ RpAt \/ Fetch \/ Store
  PROVE  AbiInv'
<1>1. CASE Lit8 \/ Lit32
  BY <1>1, PrimitiveAbi, ZeroIsByte DEF Lit8, Lit32, pusheax
<1>2. CASE String2
  <2>1. At("string") /\ Low(Token, Inline) \in Bytes
    BY <1>2, OperandByte DEF String2
  <2> QED
    BY <1>2, <2>1, PrimitiveAbi DEF String2
<1>3. CASE SpAt \/ RpAt
  BY <1>3, PrimitiveAbi, Looked DEF SpAt, RpAt, At
<1>4. CASE Fetch
  BY <1>4, PrimitiveAbi, FaultAbi, Looked DEF Fetch, At, Fault
<1>5. CASE Store
  <2>1. Token \in Bytes
    BY <1>5, Looked DEF Store, At
  <2> QED
    BY <1>5, <2>1, KeptAbi, FaultAbi DEF Store, Fault
<1> QED
  BY <1>1, <1>2, <1>3, <1>4, <1>5

LEMMA ControlAbi ==
  ASSUME AbiInv,
         Docol \/ Exit \/ RsPush \/ Branch \/ ZBranch \/ While2 \/ RDrop
  PROVE  AbiInv'
<1>1. CASE Docol \/ Exit \/ RsPush \/ Branch \/ ZBranch \/ RDrop
  <2>1. Token \in Bytes
    BY <1>1, Looked DEF Docol, Exit, RsPush, Branch, ZBranch, RDrop, At
  <2> QED
    BY <1>1, <2>1, KeptAbi, FaultAbi
       DEF Docol, Exit, RsPush, Branch, ZBranch, RDrop, Keep, Fault
<1>2. CASE While2
  <2>1. Low(Token, Inline) \in Bytes
    BY <1>2, OperandByte DEF While2
  <2> QED
    BY <1>2, <2>1, KeptAbi, FaultAbi DEF While2, Keep
<1> QED
  BY <1>1, <1>2

\* A write that falls short is counted.
LEMMA WriteCounts ==
  ASSUME NEW a, NEW n, NEW result, faults \in Nat, Write(a, n, result)
  PROVE  faults' \in Nat /\ (result # n => faults' > 0)
BY DEF Write

LEMMA SystemAbi ==
  ASSUME AbiInv, Syscall3 \/ DupEmit
  PROVE  AbiInv'
<1>1. CASE Syscall3
  <2>1. CASE ~Fits(4, 0) \/ First = 1
    BY <1>1, <2>1, FaultAbi DEF Syscall3, Fault
  <2>2. CASE ~(~Fits(4, 0) \/ First = 1)
    <3>1. prog' = prog /\ eax' = 0 /\ \E n, result : Write(Third, n, result)
      BY <1>1, <2>2 DEF Syscall3
    <3> QED
      BY <3>1, WriteCounts, ZeroIsByte DEF AbiInv
  <2> QED
    BY <2>1, <2>2
<1>2. CASE DupEmit
  <2>1. PICK result \in {0, 1, True} : Write(esp, 1, result) /\ eax' = result
    BY <1>2 DEF DupEmit
  <2>2. prog' = prog
    BY <1>2 DEF DupEmit
  <2>3. faults' \in Nat /\ (result # 1 => faults' > 0)
    BY <2>1, WriteCounts DEF AbiInv
  <2>4. 0 \in Bytes /\ 1 \in Bytes
    BY DEF Bytes
  <2>5. True # 1
    BY Widths DEF True
  <2> QED
    BY <2>1, <2>2, <2>3, <2>4, <2>5 DEF AbiInv
<1> QED
  BY <1>1, <1>2

\* AbiInv is inductive.
LEMMA AbiStep ==
  AbiInv /\ [Next]_vars => AbiInv'
<1> SUFFICES ASSUME AbiInv, [Next]_vars
             PROVE  AbiInv'
  OBVIOUS
<1>1. CASE Wild
  BY <1>1, FaultAbi DEF Wild
<1>2. CASE UNCHANGED vars
  BY <1>2 DEF vars, AbiInv
<1> QED
  BY <1>1, <1>2, StackWordsAbi, MemoryWordsAbi, ControlAbi, SystemAbi DEF Next

LEMMA AbiInit == Init => AbiInv
BY ZeroIsByte DEF Init, AbiInv

\* A primitive returns with at most 255 in eax, as the ABI of codewords.asm asks
\* (AbiHolds), unless a write has failed: whatever the program is, and however
\* wrong its use of the stacks.
THEOREM AbiIsKept == Spec => []AbiHolds
<1>1. AbiInv => AbiHolds
  BY DEF AbiInv, AbiHolds, Bytes
<1> QED
  BY <1>1, AbiInit, AbiStep, PTL DEF Spec

-----------------------------------------------------------------------------
\* Where the stacks lie.
LEMMA Layout ==
  /\ StackEnd \in Nat /\ DataBase \in Nat /\ ReturnBase \in Nat
  /\ DataBase = StackEnd + DataCells /\ DataCells \in Nat /\ DataCells > 0
  /\ ReturnBase = DataBase + Gap /\ Gap \in Nat /\ Gap >= 4 /\ ReturnBase < W
  /\ \A a : a \in Segment <=> a \in Int /\ StackEnd <= a /\ a < ReturnBase
BY LayoutAssumption DEF DataBase, ReturnBase, Segment

\* What a memory holds from one address to below another, as a sequence.
Slice(memory, from, to) == [i \in 1 .. to - from |-> memory[from + i - 1]]

\* A slice is a sequence of cells.
LEMMA SliceShape ==
  ASSUME NEW m \in [Segment -> Cells], NEW from \in Nat, NEW to \in Nat,
         StackEnd <= from, from <= to, to <= ReturnBase
  PROVE  /\ Slice(m, from, to) \in Seq(Cells)
         /\ Len(Slice(m, from, to)) = to - from
         /\ \A i \in 1 .. to - from : Slice(m, from, to)[i] = m[from + i - 1]
         /\ \A i \in 1 .. to - from : Slice(m, from, to)[i] \in Cells
<1>1. \A i \in 1 .. to - from : m[from + i - 1] \in Cells
  BY Layout
<1> DEFINE n == to - from
           e(i) == m[from + i - 1]
<1>2. n \in Nat
  OBVIOUS
<1>3. \A i \in 1 .. n : e(i) \in Cells
  BY <1>1
<1> HIDE DEF n, e
<1>4. [i \in 1 .. n |-> e(i)] \in Seq(Cells)
  BY <1>2, <1>3, IsASeq
<1>5. Len([i \in 1 .. n |-> e(i)]) = n
  BY <1>2
<1> QED
  BY <1>1, <1>4, <1>5 DEF Slice, n, e

\* Two memories hold the same there.
Agree(m, m2, from, to) == \A a \in from .. to - 1 : m2[a] = m[a]

\* It does not depend on the memory around it.
LEMMA SliceSame ==
  ASSUME NEW m, NEW m2, NEW from \in Nat, NEW to \in Nat, Agree(m, m2, from, to)
  PROVE  Slice(m2, from, to) = Slice(m, from, to)
<1>1. \A i \in 1 .. to - from : from + i - 1 \in from .. to - 1
  OBVIOUS
<1> QED
  BY <1>1 DEF Slice, Agree

\* The cells lie from top on, and behind them what was there before.
Laid(m, m2, top, to, cells) ==
  \A a \in top .. to - 1 :
    m2[a] = IF a \in top .. top + Len(cells) - 1 THEN cells[a - top + 1] ELSE m[a]

\* n cells are popped, others pushed.
Exchanged(m, m2, from, to, n, cells, top) ==
  /\ m \in [Segment -> Cells] /\ m2 \in [Segment -> Cells]
  /\ from \in Nat /\ to \in Nat /\ n \in Nat /\ top \in Nat
  /\ cells \in Seq(Cells)
  /\ top = from + n - Len(cells) /\ StackEnd <= top /\ StackEnd <= from
  /\ from + n <= to /\ to <= ReturnBase
  /\ Laid(m, m2, top, to, cells)

Spliced(m, m2, from, to, n, cells, top) ==
  Slice(m2, top, to) = cells \o SubSeq(Slice(m, from, to), n + 1, to - from)

\* Popping n cells and pushing others, on the sequence.
LEMMA SliceReplaced ==
  ASSUME NEW m, NEW m2, NEW from, NEW to, NEW n, NEW cells, NEW top,
         Exchanged(m, m2, from, to, n, cells, top)
  PROVE  Spliced(m, m2, from, to, n, cells, top)
<1>a. /\ m \in [Segment -> Cells] /\ m2 \in [Segment -> Cells]
      /\ from \in Nat /\ to \in Nat /\ n \in Nat /\ top \in Nat
      /\ cells \in Seq(Cells)
      /\ top = from + n - Len(cells) /\ StackEnd <= top /\ StackEnd <= from
      /\ from + n <= to /\ to <= ReturnBase
      /\ Laid(m, m2, top, to, cells)
  BY DEF Exchanged
<1> USE <1>a
<1> DEFINE old == Slice(m, from, to)
           new == Slice(m2, top, to)
           rest == SubSeq(old, n + 1, to - from)
           k == Len(cells)
<1>0. k \in Nat
  BY LenProperties
<1>1. /\ old \in Seq(Cells)
      /\ Len(old) = to - from
      /\ \A i \in 1 .. to - from : old[i] = m[from + i - 1]
      /\ \A i \in 1 .. to - from : old[i] \in Cells
  <2>1. from <= to /\ StackEnd <= from /\ to <= ReturnBase
    BY Layout
  <2> QED
    BY <2>1, SliceShape
<1>2. /\ new \in Seq(Cells)
      /\ Len(new) = to - top
      /\ \A i \in 1 .. to - top : new[i] = m2[top + i - 1]
      /\ \A i \in 1 .. to - top : new[i] \in Cells
  <2>1. top <= to
    BY <1>0
  <2> QED
    BY <2>1, SliceShape, ZenonT(60)
<1> HIDE DEF old, new
<1>3. /\ rest \in Seq(Cells) /\ Len(rest) = to - from - n
      /\ \A i \in 1 .. to - from - n : rest[i] = old[n + i]
  <2>1. \A i \in n + 1 .. to - from : old[i] \in Cells
    BY <1>1
  <2>2. n + 1 \in Int /\ to - from \in Int
    OBVIOUS
  <2> DEFINE first == n + 1
             last == to - from
  <2> HIDE DEF first, last
  <2>3. /\ SubSeq(old, first, last) \in Seq(Cells)
        /\ Len(SubSeq(old, first, last)) =
             IF first <= last THEN last - first + 1 ELSE 0
        /\ \A i \in 1 .. last - first + 1 :
             SubSeq(old, first, last)[i] = old[first + i - 1]
    <3>1. \A i \in first .. last : old[i] \in Cells
      BY <2>1 DEF first, last
    <3>2. first \in Int /\ last \in Int
      BY <2>2 DEF first, last
    <3> HIDE <1>a
    <3> QED
      BY <3>1, <3>2, SubSeqProperties, SMTT(40)
  <2>4. \A i \in 1 .. to - from - n : first + i - 1 = n + i
    BY DEF first
  <2>5. last - first + 1 = to - from - n
    BY DEF first, last
  <2>6. rest = SubSeq(old, first, last)
    BY DEF first, last
  <2>7. first <= last \/ to - from - n = 0
    BY DEF first, last
  <2> HIDE DEF rest
  <2> QED
    BY <2>3, <2>4, <2>5, <2>6, <2>7
<1> HIDE DEF rest
<1>4. /\ cells \o rest \in Seq(Cells) /\ Len(cells \o rest) = to - top
      /\ \A i \in 1 .. to - top : (cells \o rest)[i] =
           IF i <= k THEN cells[i] ELSE rest[i - k]
  <2>1. k + (to - from - n) = to - top
    BY <1>0
  <2>2. /\ cells \o rest \in Seq(Cells)
        /\ Len(cells \o rest) = Len(cells) + Len(rest)
        /\ \A i \in 1 .. Len(cells) + Len(rest) : (cells \o rest)[i] =
             IF i <= Len(cells) THEN cells[i] ELSE rest[i - Len(cells)]
    BY <1>3, ConcatProperties
  <2>3. Len(cells) + Len(rest) = to - top
    BY <1>3, <2>1
  <2> QED
    BY <2>2, <2>3
<1>5. \A i \in 1 .. to - top : new[i] = (cells \o rest)[i]
  <2> SUFFICES ASSUME NEW i \in 1 .. to - top
               PROVE  new[i] = (cells \o rest)[i]
    OBVIOUS
  <2>1. new[i] = m2[top + i - 1] /\ top + i - 1 \in top .. to - 1
    BY <1>2
  <2>2. CASE i <= k
    <3>1. top + i - 1 \in top .. top + k - 1 /\ (top + i - 1) - top + 1 = i
      BY <1>0, <2>2
    <3>2. m2[top + i - 1] = cells[i]
      BY <2>1, <3>1 DEF Laid
    <3> QED
      BY <1>4, <2>1, <2>2, <3>2
  <2>3. CASE i > k
    <3>1. top + i - 1 \notin top .. top + k - 1
      BY <1>0, <2>3
    <3>2. m2[top + i - 1] = m[top + i - 1]
      BY <2>1, <3>1 DEF Laid
    <3>3. i - k \in 1 .. to - from - n
      BY <1>0, <2>3
    <3>4. n + (i - k) \in 1 .. to - from
      BY <3>3
    <3>5. from + (n + (i - k)) - 1 = top + i - 1
      BY <1>0
    <3>6. rest[i - k] = old[n + (i - k)]
      BY <1>3, <3>3
    <3>7. old[n + (i - k)] = m[from + (n + (i - k)) - 1]
      BY <1>1, <3>4
    <3> QED
      BY <1>0, <1>4, <2>1, <2>3, <3>2, <3>5, <3>6, <3>7
  <2>4. i <= k \/ i > k
    BY <1>0
  <2> QED
    BY <2>2, <2>3, <2>4
<1>6. new = cells \o rest
  BY <1>2, <1>4, <1>5, SeqEqual
<1> QED
  BY <1>6 DEF Spliced, new, rest, old

\* A cell pushed below a slice is its new head.
LEMMA SlicePushed ==
  ASSUME NEW m \in [Segment -> Cells], NEW from \in Nat, NEW to \in Nat,
         NEW v \in Cells, StackEnd < from, from <= to, to <= ReturnBase
  PROVE  Slice([m EXCEPT ![from - 1] = v], from - 1, to) = << v >> \o Slice(m, from, to)
<1> DEFINE m2 == [m EXCEPT ![from - 1] = v]
<1>1. m2 \in [Segment -> Cells]
  BY Layout
<1>2. Laid(m, m2, from - 1, to, << v >>)
  <2> SUFFICES ASSUME NEW a \in from - 1 .. to - 1
               PROVE  m2[a] = IF a \in from - 1 .. from - 1 + Len(<< v >>) - 1
                                THEN << v >>[a - (from - 1) + 1] ELSE m[a]
    BY DEF Laid
  <2>1. a \in Segment
    BY Layout
  <2>2. Len(<< v >>) = 1 /\ << v >>[1] = v
    OBVIOUS
  <2>3. CASE a = from - 1
    BY <2>1, <2>2, <2>3
  <2>4. CASE a # from - 1
    BY <2>1, <2>2, <2>4
  <2> QED
    BY <2>3, <2>4
<1>3. << v >> \in Seq(Cells) /\ from - 1 \in Nat /\ 0 \in Nat
      /\ from - 1 = from + 0 - Len(<< v >>) /\ StackEnd <= from - 1
      /\ from + 0 <= to /\ StackEnd <= from
  BY Layout
<1> HIDE DEF m2
<1>4. Slice(m2, from - 1, to) = << v >> \o SubSeq(Slice(m, from, to), 0 + 1, to - from)
  <2>1. Exchanged(m, m2, from, to, 0, << v >>, from - 1)
    BY <1>1, <1>2, <1>3 DEF Exchanged
  <2>2. Spliced(m, m2, from, to, 0, << v >>, from - 1)
    BY <2>1, SliceReplaced
  <2> QED
    BY <2>2 DEF Spliced
<1>5. SubSeq(Slice(m, from, to), 0 + 1, to - from) = Slice(m, from, to)
  <2>1. Slice(m, from, to) \in Seq(Cells) /\ Len(Slice(m, from, to)) = to - from
    BY Layout, SliceShape
  <2>2. 0 + 1 = 1
    OBVIOUS
  <2> QED
    BY <2>1, <2>2, SubSeqFull
<1> QED
  BY <1>4, <1>5 DEF m2

\* A cell popped is the head, and leaves the tail.
LEMMA SliceTail ==
  ASSUME NEW m \in [Segment -> Cells], NEW from \in Nat, NEW to \in Nat,
         StackEnd <= from, from < to, to <= ReturnBase
  PROVE  /\ Slice(m, from + 1, to) = Tail(Slice(m, from, to))
         /\ Head(Slice(m, from, to)) = m[from] /\ Slice(m, from, to) # << >>
         /\ Slice(m, from, to)[1] = m[from] /\ m[from] \in Cells
<1> DEFINE old == Slice(m, from, to)
           new == Slice(m, from + 1, to)
<1>1. /\ old \in Seq(Cells)
      /\ Len(old) = to - from
      /\ \A i \in 1 .. to - from : old[i] = m[from + i - 1]
      /\ \A i \in 1 .. to - from : old[i] \in Cells
  <2>1. from <= to /\ StackEnd <= from /\ to <= ReturnBase
    BY Layout
  <2> QED
    BY <2>1, SliceShape
<1>2. /\ new \in Seq(Cells)
      /\ Len(new) = to - (from + 1)
      /\ \A i \in 1 .. to - (from + 1) : new[i] = m[from + 1 + i - 1]
      /\ \A i \in 1 .. to - (from + 1) : new[i] \in Cells
  <2>1. from + 1 \in Nat /\ from + 1 <= to /\ StackEnd <= from + 1 /\ to <= ReturnBase
    BY Layout
  <2> QED
    BY <2>1, SliceShape
<1> HIDE DEF old, new
<1>3. old # << >> /\ Len(old) > 0
  BY <1>1, EmptySeq
<1>4. /\ Tail(old) \in Seq(Cells) /\ Len(Tail(old)) = Len(old) - 1
      /\ \A i \in 1 .. Len(Tail(old)) : Tail(old)[i] = old[i + 1]
  BY <1>1, <1>3, HeadTailProperties
<1>5. \A i \in 1 .. Len(new) : new[i] = Tail(old)[i]
  <2> SUFFICES ASSUME NEW i \in 1 .. Len(new)
               PROVE  new[i] = Tail(old)[i]
    OBVIOUS
  <2>1. i \in 1 .. Len(Tail(old)) /\ i + 1 \in 1 .. to - from
        /\ i \in 1 .. to - (from + 1) /\ from + (i + 1) - 1 = from + 1 + i - 1
    BY <1>1, <1>2, <1>4
  <2>2. new[i] = m[from + 1 + i - 1] /\ Tail(old)[i] = old[i + 1]
    BY <1>2, <1>4, <2>1
  <2>3. old[i + 1] = m[from + (i + 1) - 1]
    BY <1>1, <2>1
  <2> QED
    BY <2>1, <2>2, <2>3
<1>6. Len(new) = Len(Tail(old))
  BY <1>1, <1>2, <1>4
<1>7. new = Tail(old)
  BY <1>2, <1>4, <1>5, <1>6, SeqEqual
<1>8. 1 \in 1 .. to - from /\ from + 1 - 1 = from
  OBVIOUS
<1>9. old[1] = m[from] /\ m[from] \in Cells
  BY <1>1, <1>8
<1>10. Head(old) = old[1]
  BY <1>1, <1>3
<1> QED
  BY <1>3, <1>7, <1>9, <1>10 DEF old, new

-----------------------------------------------------------------------------
\* What keeps the two stacks apart, as long as the program is disciplined.
Stacks ==
  /\ mem \in [Segment -> Cells]
  /\ esp \in StackEnd .. DataBase
  /\ ebp \in DataBase .. ReturnBase
  /\ out \in Seq(Bytes)

\* The two stacks are slices.
LEMMA Sliced ==
  ASSUME Stacks
  PROVE  /\ DataStack = Slice(mem, esp, DataBase)
         /\ ReturnStack = Slice(mem, ebp, ReturnBase)
         /\ esp \in Nat /\ ebp \in Nat
<1>1. esp \in Nat /\ ebp \in Nat /\ ~(esp > DataBase)
  BY Layout DEF Stacks
<1> QED
  BY <1>1 DEF DataStack, ReturnStack, Slice

LEMMA SlicedNext ==
  ASSUME Stacks'
  PROVE  /\ DataStack' = Slice(mem', esp', DataBase)
         /\ ReturnStack' = Slice(mem', ebp', ReturnBase)
<1>1. esp' \in Nat /\ ebp' \in Nat /\ ~(esp' > DataBase)
  BY Layout DEF Stacks
<1>2. DataBase' = DataBase /\ ReturnBase' = ReturnBase
  BY DEF DataBase, ReturnBase
<1> QED
  BY <1>1, <1>2 DEF DataStack, ReturnStack, Slice

\* They are as long as their registers say.
LEMMA StackShape ==
  ASSUME Stacks
  PROVE  /\ DataStack \in Seq(Cells) /\ Len(DataStack) = DataBase - esp
         /\ ReturnStack \in Seq(Cells) /\ Len(ReturnStack) = ReturnBase - ebp
<1>1. /\ mem \in [Segment -> Cells] /\ esp \in Nat /\ ebp \in Nat
      /\ StackEnd <= esp /\ esp <= DataBase /\ DataBase <= ReturnBase
      /\ StackEnd <= ebp /\ ebp <= ReturnBase /\ ReturnBase <= ReturnBase
      /\ DataBase \in Nat /\ ReturnBase \in Nat
  BY Layout DEF Stacks
<1>2. Slice(mem, esp, DataBase) \in Seq(Cells) /\ Len(Slice(mem, esp, DataBase)) = DataBase - esp
  BY <1>1, SliceShape
<1>3. Slice(mem, ebp, ReturnBase) \in Seq(Cells) /\ Len(Slice(mem, ebp, ReturnBase)) = ReturnBase - ebp
  BY <1>1, SliceShape
<1> QED
  BY <1>2, <1>3, Sliced

LEMMA StackShapeNext ==
  ASSUME Stacks'
  PROVE  DataStack' \in Seq(Cells) /\ ReturnStack' \in Seq(Cells)
<1>1. /\ mem' \in [Segment -> Cells] /\ esp' \in Nat /\ ebp' \in Nat
      /\ StackEnd <= esp' /\ esp' <= DataBase /\ DataBase <= ReturnBase
      /\ StackEnd <= ebp' /\ ebp' <= ReturnBase /\ ReturnBase <= ReturnBase
      /\ DataBase \in Nat /\ ReturnBase \in Nat
  BY Layout DEF Stacks, DataBase, ReturnBase, Segment, Cells
<1>2. Slice(mem', esp', DataBase) \in Seq(Cells)
  BY <1>1, SliceShape
<1>3. Slice(mem', ebp', ReturnBase) \in Seq(Cells)
  BY <1>1, SliceShape
<1> QED
  BY <1>2, <1>3, SlicedNext

\* The operands of a word are cells of the data stack.
LEMMA Operand ==
  ASSUME Stacks, NEW i \in 0 .. 3, esp + i + 1 <= DataBase
  PROVE  /\ DataStack[i + 1] = mem[esp + i]
         /\ mem[esp + i] \in Cells
         /\ esp + i \in Segment
<1>1. /\ mem \in [Segment -> Cells] /\ esp \in Nat
      /\ i + 1 \in 1 .. DataBase - esp /\ esp + (i + 1) - 1 = esp + i
      /\ esp + i \in Segment
  BY Layout DEF Stacks
<1> QED
  BY <1>1, Sliced DEF Slice

LEMMA OperandCells ==
  ASSUME Stacks
  PROVE  /\ esp + 1 <= DataBase => DataStack[1] = First /\ First \in Cells
         /\ esp + 2 <= DataBase => DataStack[2] = Second /\ Second \in Cells
         /\ esp + 3 <= DataBase => DataStack[3] = Third /\ Third \in Cells
         /\ esp + 4 <= DataBase => DataStack[4] = mem[esp + 3] /\ mem[esp + 3] \in Cells
<1>1. esp \in Nat
  BY Sliced
<1>2. esp + 1 <= DataBase => DataStack[1] = First /\ First \in Cells
  <2>1. esp + 0 + 1 = esp + 1 /\ esp + 0 = esp /\ 0 + 1 = 1
    BY <1>1
  <2> QED
    BY <2>1, Operand DEF First
<1>3. esp + 2 <= DataBase => DataStack[2] = Second /\ Second \in Cells
  <2>1. esp + 1 + 1 = esp + 2 /\ 1 + 1 = 2
    BY <1>1
  <2> QED
    BY <2>1, Operand DEF Second
<1>4. esp + 3 <= DataBase => DataStack[3] = Third /\ Third \in Cells
  <2>1. esp + 2 + 1 = esp + 3 /\ 2 + 1 = 3
    BY <1>1
  <2> QED
    BY <2>1, Operand DEF Third
<1>5. esp + 4 <= DataBase => DataStack[4] = mem[esp + 3] /\ mem[esp + 3] \in Cells
  <2>1. esp + 3 + 1 = esp + 4 /\ 3 + 1 = 4
    BY <1>1
  <2> QED
    BY <2>1, Operand
<1> QED
  BY <1>2, <1>3, <1>4, <1>5

-----------------------------------------------------------------------------
(* The Forth machine sees the same word.                                   *)

\* The word at esi is the word at ip.
LEMMA SameWord ==
  ASSUME AbiInv, Fetched, status = "run"
  PROVE  /\ Outcome = "run"
         /\ Machine!Token = Token
         /\ \A name : Machine!At(name) <=> Names[Token + 1] = name
<1>1. eax \in Bytes /\ Token = CodeAt(prog, esi)
  BY Looked
<1>2. Outcome = "run"
  BY <1>1 DEF Outcome, Bytes
<1>3. Machine!Token = Token
  BY <1>1, SameCode DEF Machine!Token
<1> QED
  BY <1>2, <1>3, SameNames DEF Machine!At

\* A signal crashes the machine.
LEMMA Dead ==
  ASSUME AbiInv, Stacks, Fetched, NEW how, how \notin {"run", "exited"}, Die(how)
  PROVE  Stacks' /\ Machine!Crash
<1>1. Stacks'
  BY DEF Stacks, Die, registers, Segment, Cells, DataBase, ReturnBase
<1>2. Outcome' = "crashed" /\ UNCHANGED << prog, out >>
  BY DEF Outcome, Die
<1>3. esi' \in Nat
  BY Looked DEF Die, registers
<1>4. DataStack' \in Seq(Machine!Cells) /\ ReturnStack' \in Seq(Machine!Cells)
  BY <1>1, StackShapeNext, SameArithmetic
<1> QED
  BY <1>1, <1>2, <1>3, <1>4 DEF Machine!Crash

\* Pushes stay in the data stack.
LEMMA PushRange ==
  ASSUME Stacks, NEW n \in Nat, NEW cells \in Seq(Cells),
         esp + n <= DataBase, StackEnd <= esp + n - Len(cells)
  PROVE  /\ Push(mem, n, cells) \in [Segment -> Cells]
         /\ \A a \in Segment : a >= DataBase => Push(mem, n, cells)[a] = mem[a]
         /\ Laid(mem, Push(mem, n, cells), esp + n - Len(cells), DataBase, cells)
<1> DEFINE top == esp + n - Len(cells)
           new == Push(mem, n, cells)
<1>1. top \in Nat /\ top + Len(cells) = esp + n /\ Len(cells) \in Nat /\ StackEnd <= top
  BY Sliced, Layout, LenProperties
<1>2. new = [a \in Segment |-> IF a \in top .. top + Len(cells) - 1
                                THEN cells[a - top + 1] ELSE mem[a]]
  BY DEF Push
<1>3. \A a \in top .. top + Len(cells) - 1 : cells[a - top + 1] \in Cells
  BY <1>1, ElementOfSeq
<1> HIDE DEF top, new
<1>4. new \in [Segment -> Cells]
  BY <1>2, <1>3 DEF Stacks
<1>5. \A a \in Segment : a >= DataBase => new[a] = mem[a]
  BY <1>1, <1>2, Layout, Sliced
<1>6. Laid(mem, new, top, DataBase, cells)
  <2> SUFFICES ASSUME NEW a \in top .. DataBase - 1
               PROVE  new[a] = IF a \in top .. top + Len(cells) - 1
                                 THEN cells[a - top + 1] ELSE mem[a]
    BY DEF Laid
  <2>1. a \in Segment
    BY <1>1, Layout
  <2> QED
    BY <1>2, <2>1
<1> QED
  BY <1>4, <1>5, <1>6 DEF top, new

\* Replaced operands change one stack and leave the other.
LEMMA Replacing ==
  ASSUME Stacks, NEW n \in Nat, NEW cells \in Seq(Cells),
         esp + n <= DataBase, StackEnd <= esp + n - Len(cells),
         Replaced(n, cells), ebp' = ebp, out' \in Seq(Bytes)
  PROVE  /\ Stacks'
         /\ DataStack' = cells \o SubSeq(DataStack, n + 1, Len(DataStack))
         /\ ReturnStack' = ReturnStack
<1> DEFINE top == esp + n - Len(cells)
<1>1. top \in Nat /\ StackEnd <= top /\ Len(cells) \in Nat /\ top <= DataBase
  BY Sliced, Layout, LenProperties
<1>2. mem' = Push(mem, n, cells) /\ esp' = top
  BY DEF Replaced
<1>3. /\ mem' \in [Segment -> Cells]
      /\ \A a \in Segment : a >= DataBase => mem'[a] = mem[a]
      /\ Laid(mem, mem', top, DataBase, cells)
  BY <1>2, PushRange
<1> HIDE DEF top
<1>4. Stacks'
  BY <1>1, <1>2, <1>3, Layout DEF Stacks, Segment, Cells, DataBase, ReturnBase
<1>5. Exchanged(mem, mem', esp, DataBase, n, cells, top)
  BY <1>1, <1>3, Sliced, Layout DEF Stacks, Exchanged, top
<1>6. Spliced(mem, mem', esp, DataBase, n, cells, top)
  BY <1>5, SliceReplaced
<1>7. DataStack' = cells \o SubSeq(DataStack, n + 1, Len(DataStack))
  <2>1. Slice(mem', top, DataBase)
          = cells \o SubSeq(Slice(mem, esp, DataBase), n + 1, DataBase - esp)
    BY <1>6 DEF Spliced
  <2> QED
    BY <1>2, <1>4, <2>1, Sliced, SlicedNext, StackShape
<1>8. ReturnStack' = ReturnStack
  <2>1. \A a \in ebp .. ReturnBase - 1 : mem'[a] = mem[a]
    BY <1>3, Layout DEF Stacks
  <2>2. Slice(mem', ebp, ReturnBase) = Slice(mem, ebp, ReturnBase)
    <3>1. Agree(mem, mem', ebp, ReturnBase) /\ ebp \in Nat /\ ReturnBase \in Nat
      BY <2>1, Sliced, Layout DEF Agree
    <3> QED
      BY <3>1, SliceSame
  <2> QED
    BY <1>4, <2>2, Sliced, SlicedNext
<1> QED
  BY <1>4, <1>7, <1>8

\* A primitive that replaces its operands is a word of the machine, or finds the
\* data stack full.
LEMMA WordStep ==
  ASSUME AbiInv, Stacks, NEW name, At(name),
         NEW n \in Nat, NEW cells \in Seq(Cells), NEW skip, NEW r \in Bytes,
         esp + n <= DataBase, Len(cells) <= n + 2, Primitive(n, cells, skip, r)
  PROVE  Stacks' /\ (Machine!Word(name, n, skip, cells) \/ Machine!Overflow)
<1>1. /\ Fetched /\ status = "run" /\ Outcome = "run" /\ Machine!At(name)
  BY SameWord DEF At
<1>2. /\ esp \in Nat /\ n \in Nat /\ Len(cells) \in Nat
      /\ Len(DataStack) = DataBase - esp /\ DataBase \in Nat /\ StackEnd \in Nat
      /\ DataBase = StackEnd + DataCells /\ DataBase <= ReturnBase /\ ReturnBase \in Nat
      /\ DataCells \in Nat
  BY Sliced, StackShape, LenProperties, Layout
<1>3. CASE Fits(n, Len(cells))
  <2>1. /\ Replaced(n, cells) /\ esi' = esi + 1 + skip /\ eax' = r
        /\ UNCHANGED << prog, ebp, out, faults, status >>
    BY <1>3 DEF Primitive
  <2>2. StackEnd <= esp + n - Len(cells)
    BY <1>2, <1>3 DEF Fits
  <2>3. out' \in Seq(Bytes)
    BY <2>1 DEF Stacks
  <2>4. /\ Stacks'
        /\ DataStack' = cells \o SubSeq(DataStack, n + 1, Len(DataStack))
        /\ ReturnStack' = ReturnStack
    BY <2>1, <2>2, <2>3, Replacing
  <2>5. Outcome' = Outcome
    BY <1>1, <2>1 DEF Outcome, Bytes
  <2>6. Len(DataStack) >= n
    BY <1>2
  <2>7. Machine!Word(name, n, skip, cells)
    BY <1>1, <2>1, <2>4, <2>5, <2>6 DEF Machine!Word
  <2> QED
    BY <2>4, <2>7
<1>4. CASE ~Fits(n, Len(cells))
  <2>1. esp + n - Len(cells) < StackEnd
    BY <1>2, <1>4 DEF Fits
  <2>2. Die("sigsegv")
    BY <1>2, <1>4 DEF Primitive, Fault
  <2>3. Stacks' /\ Machine!Crash
    BY <1>1, <2>2, Dead
  <2>4. Len(DataStack) + 3 > DataCells
    BY <1>2, <2>1
  <2> QED
    BY <1>1, <2>3, <2>4 DEF Machine!Overflow
<1> QED
  BY <1>3, <1>4

\* What Disciplined says of the word that is about to run.
LEMMA Obeyed ==
  ASSUME AbiInv, Disciplined, NEW name, At(name)
  PROVE  /\ Fetched /\ status = "run" /\ Names[Token + 1] = name
         /\ Token \in Bytes /\ eax \in Bytes
         /\ name # "0lt"
         /\ esp + Uses(name) <= DataBase
         /\ name \in {"EXIT", "while2", "rdrop"} => ebp < ReturnBase
         /\ name = "rspush" => ebp > DataBase
         /\ name = "syscall3" =>
              \/ First = 1
              \/ /\ First = 4 /\ esp + 4 <= DataBase
                 /\ \A a \in Third .. Third + mem[esp + 3] - 1 :
                      InCode(a) \/ a \in esp .. DataBase - 1
<1>1. Fetched /\ status = "run" /\ Names[Token + 1] = name
  BY DEF At
<1>2. Token \in Bytes /\ eax \in Bytes
  BY <1>1, Looked
<1>3. eax < 256
  BY <1>2 DEF Bytes
<1> QED
  BY <1>1, <1>2, <1>3 DEF Disciplined

\* The operands of a word, when it has one, two or three.
LEMMA Given ==
  ASSUME AbiInv, Stacks, Disciplined, NEW name, At(name)
  PROVE  /\ Token \in Bytes
         /\ Uses(name) >= 1 => DataStack[1] = First /\ First \in Cells
         /\ Uses(name) >= 2 => DataStack[2] = Second /\ Second \in Cells
         /\ Uses(name) >= 3 => DataStack[3] = Third /\ Third \in Cells
<1>1. esp \in Nat /\ DataBase \in Nat /\ Token \in Bytes /\ esp + Uses(name) <= DataBase
  BY Obeyed, Sliced, Layout
<1>2. Uses(name) \in Nat
  BY DEF Uses
<1> QED
  BY <1>1, <1>2, OperandCells

\* A cell that is read and left alone is as good as popped and pushed.
LEMMA PeekOne ==
  ASSUME Stacks, esp + 1 <= DataBase, First \in Cells, NEW skip, NEW r,
         Primitive(0, << First >>, skip, r)
  PROVE  Primitive(1, << First, First >>, skip, r)
<1>1. /\ esp \in Nat /\ esp + 1 <= ReturnBase /\ esp \in Segment
      /\ esp + 1 - 2 = esp + 0 - 1
  BY Sliced, Layout DEF Stacks
<1>2. Len(<< First >>) = 1 /\ Len(<< First, First >>) = 2
  OBVIOUS
<1>3. Fits(0, 1) <=> Fits(1, 2)
  BY <1>1, Layout DEF Fits
<1>4. Fault(0) => Fault(1)
  BY <1>1, Layout DEF Fault
<1>5. Push(mem, 0, << First >>) = Push(mem, 1, << First, First >>)
  <2> DEFINE top == esp - 1
  <2>1. /\ top \in Int /\ esp + 0 - Len(<< First >>) = top
        /\ esp + 1 - Len(<< First, First >>) = top
        /\ top + Len(<< First >>) - 1 = top
        /\ top + Len(<< First, First >>) - 1 = top + 1
        /\ top + 1 = esp
    BY <1>1, <1>2
  <2>2. \A a \in Segment :
          (IF a \in top .. top THEN << First >>[a - top + 1] ELSE mem[a])
            = (IF a \in top .. top + 1 THEN << First, First >>[a - top + 1] ELSE mem[a])
    <3> SUFFICES ASSUME NEW a \in Segment
                 PROVE  (IF a \in top .. top THEN << First >>[a - top + 1] ELSE mem[a])
                   = (IF a \in top .. top + 1 THEN << First, First >>[a - top + 1] ELSE mem[a])
      OBVIOUS
    <3>1. a \in Int
      BY Layout
    <3>2. CASE a = top
      <4>1. a - top + 1 = 1 /\ a \in top .. top /\ a \in top .. top + 1
        BY <2>1, <3>1, <3>2
      <4> QED
        BY <4>1
    <3>3. CASE a = top + 1
      <4>1. a - top + 1 = 2
        BY <2>1, <3>3
      <4>2. a \notin top .. top /\ a \in top .. top + 1
        BY <2>1, <3>1, <3>3
      <4>3. mem[a] = First
        BY <2>1, <3>3 DEF First
      <4> QED
        BY <4>1, <4>2, <4>3
    <3>4. CASE a # top /\ a # top + 1
      <4>1. a \notin top .. top /\ a \notin top .. top + 1
        BY <2>1, <3>1, <3>4
      <4> QED
        BY <4>1
    <3> QED
      BY <3>2, <3>3, <3>4
  <2> HIDE DEF top
  <2> QED
    BY <2>1, <2>2 DEF Push
<1>6. Replaced(0, << First >>) => Replaced(1, << First, First >>)
  BY <1>1, <1>2, <1>5 DEF Replaced
<1> QED
  BY <1>2, <1>3, <1>4, <1>6 DEF Primitive

\* The same of the second cell.
LEMMA PeekTwo ==
  ASSUME Stacks, esp + 2 <= DataBase, First \in Cells, Second \in Cells, NEW skip, NEW r,
         Primitive(0, << Second >>, skip, r)
  PROVE  Primitive(2, << Second, First, Second >>, skip, r)
<1>1. /\ esp \in Nat /\ esp + 2 <= ReturnBase /\ esp \in Segment /\ esp + 1 \in Segment
      /\ esp + 2 - 3 = esp + 0 - 1
  <2>1. esp \in Nat /\ StackEnd <= esp
    BY Sliced, Layout DEF Stacks
  <2> QED
    BY <2>1, Layout
<1>2. Len(<< Second >>) = 1 /\ Len(<< Second, First, Second >>) = 3
  OBVIOUS
<1>3. Fits(0, 1) <=> Fits(2, 3)
  BY <1>1, Layout DEF Fits
<1>4. Fault(0) => Fault(2)
  BY <1>1, Layout DEF Fault
<1>5. Push(mem, 0, << Second >>) = Push(mem, 2, << Second, First, Second >>)
  <2> DEFINE top == esp - 1
  <2>1. /\ top \in Int /\ esp + 0 - Len(<< Second >>) = top
        /\ esp + 2 - Len(<< Second, First, Second >>) = top
        /\ top + Len(<< Second >>) - 1 = top
        /\ top + Len(<< Second, First, Second >>) - 1 = top + 2
        /\ top + 1 = esp /\ top + 2 = esp + 1
    BY <1>1, <1>2
  <2>2. \A a \in Segment :
          (IF a \in top .. top THEN << Second >>[a - top + 1] ELSE mem[a])
            = (IF a \in top .. top + 2 THEN << Second, First, Second >>[a - top + 1]
                                        ELSE mem[a])
    <3> SUFFICES ASSUME NEW a \in Segment
                 PROVE  (IF a \in top .. top THEN << Second >>[a - top + 1] ELSE mem[a])
                   = (IF a \in top .. top + 2 THEN << Second, First, Second >>[a - top + 1]
                                               ELSE mem[a])
      OBVIOUS
    <3>1. a \in Int
      BY Layout
    <3>2. CASE a = top
      <4>1. a - top + 1 = 1 /\ a \in top .. top /\ a \in top .. top + 2
        BY <2>1, <3>1, <3>2
      <4> QED
        BY <4>1
    <3>3. CASE a = top + 1
      <4>1. a - top + 1 = 2 /\ a \notin top .. top /\ a \in top .. top + 2
        BY <2>1, <3>1, <3>3
      <4>2. mem[a] = First
        BY <2>1, <3>3 DEF First
      <4> QED
        BY <4>1, <4>2
    <3>4. CASE a = top + 2
      <4>1. a - top + 1 = 3 /\ a \notin top .. top /\ a \in top .. top + 2
        BY <2>1, <3>1, <3>4
      <4>2. mem[a] = Second
        BY <2>1, <3>4 DEF Second
      <4> QED
        BY <4>1, <4>2
    <3>5. CASE a # top /\ a # top + 1 /\ a # top + 2
      <4>1. a \notin top .. top /\ a \notin top .. top + 2
        BY <2>1, <3>1, <3>5
      <4> QED
        BY <4>1
    <3> QED
      BY <3>2, <3>3, <3>4, <3>5
  <2> HIDE DEF top
  <2> QED
    BY <2>1, <2>2 DEF Push
<1>6. Replaced(0, << Second >>) => Replaced(2, << Second, First, Second >>)
  BY <1>1, <1>2, <1>5 DEF Replaced
<1> QED
  BY <1>2, <1>3, <1>4, <1>6 DEF Primitive

\* Each group of words is a step of the machine's group.
LEMMA ShuffleStep ==
  ASSUME AbiInv, Stacks, Disciplined, Swap \/ Dup \/ Over \/ Drop \/ Rot
  PROVE  Stacks' /\ (Machine!Shuffle \/ Machine!Overflow)
<1>1. CASE Swap
  <2>1. At("swap") /\ Primitive(2, << Second, First >>, 0, 0)
    BY <1>1 DEF Swap, pushedxeax
  <2>2. Uses("swap") = 2
    BY DEF Uses
  <2>3. /\ First = DataStack[1] /\ Second = DataStack[2] /\ First \in Cells /\ Second \in Cells
        /\ esp + 2 <= DataBase /\ Token \in Bytes
    BY <2>1, <2>2, Given, Obeyed, Sliced, Layout
  <2>4. /\ << Second, First >> \in Seq(Cells)
        /\ Len(<< Second, First >>) <= 2 + 2 /\ 0 \in Bytes
    BY <2>3, ZeroIsByte
  <2>5. /\ Stacks'
        /\ \/ Machine!Word("swap", 2, 0, << Second, First >>)
           \/ Machine!Overflow
    BY <2>1, <2>3, <2>4, WordStep
  <2>6. << Second, First >> = << DataStack[2], DataStack[1] >>
    BY <2>3
  <2> QED
    BY <2>5, <2>6 DEF Machine!Shuffle
<1>2. CASE Drop
  <2>1. At("drop") /\ Primitive(1, << >>, 0, Token)
    BY <1>2 DEF Drop
  <2>2. Uses("drop") = 1
    BY DEF Uses
  <2>3. /\ First = DataStack[1] /\ First \in Cells
        /\ esp + 1 <= DataBase /\ Token \in Bytes
    BY <2>1, <2>2, Given, Obeyed, Sliced, Layout
  <2>4. /\ << >> \in Seq(Cells)
        /\ Len(<< >>) <= 1 + 2 /\ Token \in Bytes
    BY <2>3, ZeroIsByte
  <2>5. /\ Stacks'
        /\ \/ Machine!Word("drop", 1, 0, << >>)
           \/ Machine!Overflow
    BY <2>1, <2>3, <2>4, WordStep
  <2> QED
    BY <2>5 DEF Machine!Shuffle
<1>3. CASE Rot
  <2>1. At("rot") /\ Primitive(3, << Third, First, Second >>, 0, 0)
    BY <1>3 DEF Rot
  <2>2. Uses("rot") = 3
    BY DEF Uses
  <2>3. /\ First = DataStack[1] /\ Second = DataStack[2] /\ Third = DataStack[3] /\ First \in Cells /\ Second \in Cells /\ Third \in Cells
        /\ esp + 3 <= DataBase /\ Token \in Bytes
    BY <2>1, <2>2, Given, Obeyed, Sliced, Layout
  <2>4. /\ << Third, First, Second >> \in Seq(Cells)
        /\ Len(<< Third, First, Second >>) <= 3 + 2 /\ 0 \in Bytes
    BY <2>3, ZeroIsByte
  <2>5. /\ Stacks'
        /\ \/ Machine!Word("rot", 3, 0, << Third, First, Second >>)
           \/ Machine!Overflow
    BY <2>1, <2>3, <2>4, WordStep
  <2>6. << Third, First, Second >> = << DataStack[3], DataStack[1], DataStack[2] >>
    BY <2>3
  <2> QED
    BY <2>5, <2>6 DEF Machine!Shuffle
<1>4. CASE Dup
  <2>1. At("dup") /\ Primitive(0, << First >>, 0, Token)
    BY <1>4 DEF Dup
  <2>2. Uses("dup") = 1
    BY DEF Uses
  <2>3. First = DataStack[1] /\ First \in Cells /\ esp + 1 <= DataBase /\ Token \in Bytes
    BY <2>1, <2>2, Given, Obeyed
  <2>4. Primitive(1, << First, First >>, 0, Token)
    BY <2>1, <2>3, PeekOne
  <2>5. << First, First >> \in Seq(Cells) /\ Len(<< First, First >>) <= 1 + 2
    BY <2>3
  <2>6. Stacks' /\ (Machine!Word("dup", 1, 0, << First, First >>) \/ Machine!Overflow)
    BY <2>1, <2>3, <2>4, <2>5, WordStep
  <2> QED
    BY <2>3, <2>6 DEF Machine!Shuffle
<1>5. CASE Over
  <2>1. At("over") /\ Primitive(0, << Second >>, 0, Token)
    BY <1>5 DEF Over
  <2>2. Uses("over") = 2
    BY DEF Uses
  <2>3. /\ First = DataStack[1] /\ First \in Cells
        /\ Second = DataStack[2] /\ Second \in Cells
        /\ esp + 2 <= DataBase /\ Token \in Bytes
    BY <2>1, <2>2, Given, Obeyed
  <2>4. Primitive(2, << Second, First, Second >>, 0, Token)
    BY <2>1, <2>3, PeekTwo
  <2>5. << Second, First, Second >> \in Seq(Cells) /\ Len(<< Second, First, Second >>) <= 2 + 2
    BY <2>3
  <2>6. Stacks' /\ (Machine!Word("over", 2, 0, << Second, First, Second >>) \/ Machine!Overflow)
    BY <2>1, <2>3, <2>4, <2>5, WordStep
  <2> QED
    BY <2>3, <2>6 DEF Machine!Shuffle
<1> QED
  BY <1>1, <1>2, <1>3, <1>4, <1>5

LEMMA ArithmeticStep ==
  ASSUME AbiInv, Stacks, Disciplined,
         Plus \/ NotWord \/ Not2 \/ AndWord \/ OrWord \/ Nor \/ Nand \/ Nand2
           \/ ZeroNe
  PROVE  Stacks' /\ (Machine!Arithmetic \/ Machine!Overflow)
<1>1. CASE Plus
  <2>1. At("plus") /\ Primitive(2, << (Second + First) % W >>, 0, Token)
    BY <1>1 DEF Plus
  <2>2. Uses("plus") = 2
    BY DEF Uses
  <2>3. /\ First = DataStack[1] /\ Second = DataStack[2] /\ First \in Cells /\ Second \in Cells
        /\ esp + 2 <= DataBase /\ Token \in Bytes
    BY <2>1, <2>2, Given, Obeyed, Sliced, Layout
  <2>4. /\ << (Second + First) % W >> \in Seq(Cells)
        /\ Len(<< (Second + First) % W >>) <= 2 + 2 /\ Token \in Bytes
    BY <2>3, ZeroIsByte, Widths DEF Cells
  <2>5. /\ Stacks'
        /\ \/ Machine!Word("plus", 2, 0, << (Second + First) % W >>)
           \/ Machine!Overflow
    BY <2>1, <2>3, <2>4, WordStep
  <2>6. << (Second + First) % W >> = << (DataStack[1] + DataStack[2]) % W >>
    BY <2>3, Widths DEF Cells
  <2> QED
    BY <2>5, <2>6 DEF Machine!Arithmetic
<1>2. CASE NotWord
  <2>1. At("not") /\ Primitive(1, << Not(First) >>, 0, Token)
    BY <1>2 DEF NotWord
  <2>2. Uses("not") = 1
    BY DEF Uses
  <2>3. /\ First = DataStack[1] /\ First \in Cells
        /\ esp + 1 <= DataBase /\ Token \in Bytes
    BY <2>1, <2>2, Given, Obeyed, Sliced, Layout
  <2>4. /\ << Not(First) >> \in Seq(Cells)
        /\ Len(<< Not(First) >>) <= 1 + 2 /\ Token \in Bytes
    BY <2>3, ZeroIsByte, NotRange
  <2>5. /\ Stacks'
        /\ \/ Machine!Word("not", 1, 0, << Not(First) >>)
           \/ Machine!Overflow
    BY <2>1, <2>3, <2>4, WordStep
  <2>6. << Not(First) >> = << Machine!Not(DataStack[1]) >>
    BY <2>3, SameNot
  <2> QED
    BY <2>5, <2>6 DEF Machine!Arithmetic
<1>3. CASE Not2
  <2>1. At("not2") /\ Primitive(1, << Not(First) >>, 0, 0)
    BY <1>3 DEF Not2, pusheax
  <2>2. Uses("not2") = 1
    BY DEF Uses
  <2>3. /\ First = DataStack[1] /\ First \in Cells
        /\ esp + 1 <= DataBase /\ Token \in Bytes
    BY <2>1, <2>2, Given, Obeyed, Sliced, Layout
  <2>4. /\ << Not(First) >> \in Seq(Cells)
        /\ Len(<< Not(First) >>) <= 1 + 2 /\ 0 \in Bytes
    BY <2>3, ZeroIsByte, NotRange
  <2>5. /\ Stacks'
        /\ \/ Machine!Word("not2", 1, 0, << Not(First) >>)
           \/ Machine!Overflow
    BY <2>1, <2>3, <2>4, WordStep
  <2>6. << Not(First) >> = << Machine!Not(DataStack[1]) >>
    BY <2>3, SameNot
  <2> QED
    BY <2>5, <2>6 DEF Machine!Arithmetic
<1>4. CASE AndWord
  <2>1. At("and") /\ Primitive(2, << And(First, Second) >>, 0, Token)
    BY <1>4 DEF AndWord
  <2>2. Uses("and") = 2
    BY DEF Uses
  <2>3. /\ First = DataStack[1] /\ Second = DataStack[2] /\ First \in Cells /\ Second \in Cells
        /\ esp + 2 <= DataBase /\ Token \in Bytes
    BY <2>1, <2>2, Given, Obeyed, Sliced, Layout
  <2>4. /\ << And(First, Second) >> \in Seq(Cells)
        /\ Len(<< And(First, Second) >>) <= 2 + 2 /\ Token \in Bytes
    BY <2>3, ZeroIsByte, AndRange
  <2>5. /\ Stacks'
        /\ \/ Machine!Word("and", 2, 0, << And(First, Second) >>)
           \/ Machine!Overflow
    BY <2>1, <2>3, <2>4, WordStep
  <2>6. << And(First, Second) >> = << Machine!And(DataStack[1], DataStack[2]) >>
    BY <2>3, SameAnd
  <2> QED
    BY <2>5, <2>6 DEF Machine!Arithmetic
<1>5. CASE OrWord
  <2>1. At("or") /\ Primitive(2, << Or(First, Second) >>, 0, Token)
    BY <1>5 DEF OrWord
  <2>2. Uses("or") = 2
    BY DEF Uses
  <2>3. /\ First = DataStack[1] /\ Second = DataStack[2] /\ First \in Cells /\ Second \in Cells
        /\ esp + 2 <= DataBase /\ Token \in Bytes
    BY <2>1, <2>2, Given, Obeyed, Sliced, Layout
  <2>4. /\ << Or(First, Second) >> \in Seq(Cells)
        /\ Len(<< Or(First, Second) >>) <= 2 + 2 /\ Token \in Bytes
    BY <2>3, ZeroIsByte, OrRange
  <2>5. /\ Stacks'
        /\ \/ Machine!Word("or", 2, 0, << Or(First, Second) >>)
           \/ Machine!Overflow
    BY <2>1, <2>3, <2>4, WordStep
  <2>6. << Or(First, Second) >> = << Machine!Or(DataStack[1], DataStack[2]) >>
    BY <2>3, SameOr
  <2> QED
    BY <2>5, <2>6 DEF Machine!Arithmetic
<1>6. CASE Nor
  <2>1. At("nor") /\ Primitive(2, << Not(Or(First, Second)) >>, 0, 0)
    BY <1>6 DEF Nor, pusheax
  <2>2. Uses("nor") = 2
    BY DEF Uses
  <2>3. /\ First = DataStack[1] /\ Second = DataStack[2] /\ First \in Cells /\ Second \in Cells
        /\ esp + 2 <= DataBase /\ Token \in Bytes
    BY <2>1, <2>2, Given, Obeyed, Sliced, Layout
  <2>4. /\ << Not(Or(First, Second)) >> \in Seq(Cells)
        /\ Len(<< Not(Or(First, Second)) >>) <= 2 + 2 /\ 0 \in Bytes
    BY <2>3, ZeroIsByte, OrRange, NotRange
  <2>5. /\ Stacks'
        /\ \/ Machine!Word("nor", 2, 0, << Not(Or(First, Second)) >>)
           \/ Machine!Overflow
    BY <2>1, <2>3, <2>4, WordStep
  <2>6. << Not(Or(First, Second)) >> = << Machine!Not(Machine!Or(DataStack[1], DataStack[2])) >>
    BY <2>3, SameOr, SameNot
  <2> QED
    BY <2>5, <2>6 DEF Machine!Arithmetic
<1>7. CASE Nand
  <2>1. At("nand") /\ Primitive(2, << Not(And(First, Second)) >>, 0, 0)
    BY <1>7 DEF Nand, pusheax
  <2>2. Uses("nand") = 2
    BY DEF Uses
  <2>3. /\ First = DataStack[1] /\ Second = DataStack[2] /\ First \in Cells /\ Second \in Cells
        /\ esp + 2 <= DataBase /\ Token \in Bytes
    BY <2>1, <2>2, Given, Obeyed, Sliced, Layout
  <2>4. /\ << Not(And(First, Second)) >> \in Seq(Cells)
        /\ Len(<< Not(And(First, Second)) >>) <= 2 + 2 /\ 0 \in Bytes
    BY <2>3, ZeroIsByte, AndRange, NotRange
  <2>5. /\ Stacks'
        /\ \/ Machine!Word("nand", 2, 0, << Not(And(First, Second)) >>)
           \/ Machine!Overflow
    BY <2>1, <2>3, <2>4, WordStep
  <2>6. << Not(And(First, Second)) >> = << Machine!Not(Machine!And(DataStack[1], DataStack[2])) >>
    BY <2>3, SameAnd, SameNot
  <2> QED
    BY <2>5, <2>6 DEF Machine!Arithmetic
<1>8. CASE Nand2
  <2>1. At("nand2") /\ Primitive(2, << Not(And(First, Second)) >>, 0, 0)
    BY <1>8 DEF Nand2, pusheax
  <2>2. Uses("nand2") = 2
    BY DEF Uses
  <2>3. /\ First = DataStack[1] /\ Second = DataStack[2] /\ First \in Cells /\ Second \in Cells
        /\ esp + 2 <= DataBase /\ Token \in Bytes
    BY <2>1, <2>2, Given, Obeyed, Sliced, Layout
  <2>4. /\ << Not(And(First, Second)) >> \in Seq(Cells)
        /\ Len(<< Not(And(First, Second)) >>) <= 2 + 2 /\ 0 \in Bytes
    BY <2>3, ZeroIsByte, AndRange, NotRange
  <2>5. /\ Stacks'
        /\ \/ Machine!Word("nand2", 2, 0, << Not(And(First, Second)) >>)
           \/ Machine!Overflow
    BY <2>1, <2>3, <2>4, WordStep
  <2>6. << Not(And(First, Second)) >> = << Machine!Not(Machine!And(DataStack[1], DataStack[2])) >>
    BY <2>3, SameAnd, SameNot
  <2> QED
    BY <2>5, <2>6 DEF Machine!Arithmetic
<1>9. CASE ZeroNe
  <2>1. At("0ne") /\ Primitive(1, << IF First = 0 THEN 0 ELSE True >>, 0, 0)
    BY <1>9 DEF ZeroNe, pusheax
  <2>2. Uses("0ne") = 1
    BY DEF Uses
  <2>3. /\ First = DataStack[1] /\ First \in Cells
        /\ esp + 1 <= DataBase /\ Token \in Bytes
    BY <2>1, <2>2, Given, Obeyed, Sliced, Layout
  <2>4. /\ << IF First = 0 THEN 0 ELSE True >> \in Seq(Cells)
        /\ Len(<< IF First = 0 THEN 0 ELSE True >>) <= 1 + 2 /\ 0 \in Bytes
    BY <2>3, ZeroIsByte, Widths, CellAssumption DEF Cells
  <2>5. /\ Stacks'
        /\ \/ Machine!Word("0ne", 1, 0, << IF First = 0 THEN 0 ELSE True >>)
           \/ Machine!Overflow
    BY <2>1, <2>3, <2>4, WordStep
  <2>6. << IF First = 0 THEN 0 ELSE True >> = << Machine!Flag(DataStack[1] # 0) >>
    BY <2>3, SameArithmetic DEF Machine!Flag
  <2> QED
    BY <2>5, <2>6 DEF Machine!Arithmetic
<1> QED
  BY <1>1, <1>2, <1>3, <1>4, <1>5, <1>6, <1>7, <1>8, <1>9

\* Quotient and remainder are no larger than the dividend.
LEMMA Quotient ==
  ASSUME NEW a \in Nat, NEW b \in Nat, b # 0
  PROVE  /\ a \div b \in Nat /\ a \div b <= a
         /\ a % b \in Nat /\ a % b <= a
<1>1. /\ a \div b \in Int /\ a % b \in 0 .. b - 1
      /\ a = b * (a \div b) + (a % b)
  BY SMT
<1> DEFINE q == a \div b
           r == a % b
<1> HIDE DEF q, r
<1>2. q \in Int /\ r \in Nat /\ r < b /\ a = b * q + r
  BY <1>1 DEF q, r
<1>3. q >= 0
  <2> SUFFICES ASSUME q <= -1
               PROVE  FALSE
    BY <1>2
  <2>1. b * q <= -b
    BY <1>2, SMT
  <2> QED
    BY <1>2, <2>1
<1>4. b * q >= q
  BY <1>2, <1>3, SMT
<1> QED
  BY <1>2, <1>3, <1>4 DEF q, r

\* A cell read from the code is a cell.
LEMMA CellRange ==
  ASSUME prog \in Programs, NEW a, InCode(a), InCode(a + 1)
  PROVE  CodeCell(prog, a) \in Cells
<1>1. CodeAt(prog, a) \in Bytes /\ CodeAt(prog, a + 1) \in Bytes
  BY CodeBytes
<1>2. \A x, y \in Bytes : x + (256 * y) \in Nat
  BY DEF Bytes
<1> DEFINE n == CodeAt(prog, a) + (256 * CodeAt(prog, a + 1))
<1>3. n \in Nat
  BY <1>1, <1>2
<1> HIDE DEF n
<1>4. n % W \in Cells
  BY <1>3, Widths DEF Cells
<1> QED
  BY <1>4 DEF CodeCell, n

\* With a byte in eax cdq leaves 0 in edx: the dividend is one cell, and its
\* quotient fits.
LEMMA DivModStep ==
  ASSUME AbiInv, Stacks, Disciplined, DivMod
  PROVE  Stacks' /\ (Machine!DivMod \/ Machine!Overflow)
<1>1. At("divmod")
  BY DEF DivMod
<1>2. Uses("divmod") = 2
  BY DEF Uses
<1>3. /\ First = DataStack[1] /\ Second = DataStack[2] /\ First \in Cells
      /\ Second \in Cells /\ esp + 2 <= DataBase /\ Token \in Bytes
  BY <1>1, <1>2, Given, Obeyed
<1>4. Fits(2, 2)
  BY <1>3, Sliced, Layout DEF Fits, Stacks
<1>5. ~(Token >= MaxInt)
  BY <1>3, Widths DEF Bytes
<1>6. First \in Nat /\ Second \in Nat /\ (0 * W) + Second = Second
  BY <1>3, Widths
<1>7. CASE First = 0
  <2>1. Die("sigfpe")
    BY <1>4, <1>5, <1>7 DEF DivMod
  <2>2. Stacks' /\ Machine!Crash
    BY <1>1, <2>1, Dead DEF At
  <2>3. Machine!At("divmod")
    BY <1>1, SameWord DEF At
  <2> QED
    BY <1>3, <1>7, <2>2, <2>3 DEF Machine!DivMod
<1>8. CASE First # 0
  <2>1. ~(First <= 0)
    BY <1>6, <1>8
  <2>2. Primitive(2, << Second \div First, Second % First >>, 0, 0)
    BY <1>4, <1>5, <1>6, <2>1 DEF DivMod, pushedxeax
  <2>3. Second \div First \in Cells /\ Second % First \in Cells
    <3>1. /\ Second \div First \in Nat /\ Second \div First <= Second
          /\ Second % First \in Nat /\ Second % First <= Second
      BY <1>6, <1>8, Quotient
    <3> QED
      BY <1>3, <3>1, Widths DEF Cells
  <2>4. /\ << Second \div First, Second % First >> \in Seq(Cells)
        /\ Len(<< Second \div First, Second % First >>) <= 2 + 2
    BY <2>3
  <2>5. /\ Stacks'
        /\ \/ Machine!Word("divmod", 2, 0, << Second \div First, Second % First >>)
           \/ Machine!Overflow
    BY <1>1, <1>3, <2>2, <2>4, WordStep, ZeroIsByte
  <2>6. << Second \div First, Second % First >>
          = << DataStack[2] \div DataStack[1], DataStack[2] % DataStack[1] >>
    BY <1>3
  <2>7. Machine!At("divmod")
    BY <1>1, SameWord DEF At
  <2> QED
    BY <1>3, <1>8, <2>5, <2>6, <2>7 DEF Machine!DivMod
<1> QED
  BY <1>7, <1>8

LEMMA LiteralStep ==
  ASSUME AbiInv, Stacks, Disciplined, Lit8 \/ Lit32 \/ String2 \/ SpAt \/ RpAt
  PROVE  Stacks' /\ (Machine!Literal \/ Machine!Overflow)
<1> USE DEF Uses
<1>0. /\ esp \in Nat /\ ebp \in Nat /\ esp + 0 <= DataBase /\ esp <= DataBase
      /\ ebp <= ReturnBase
  BY Sliced, Layout DEF Stacks
<1>1. CASE Lit8
  <2>1. At("lit8") /\ Primitive(0, << Low(Token, Inline) >>, 1, 0)
    BY <1>1 DEF Lit8, pusheax
  <2>2. /\ Low(Token, Inline) = Inline /\ Inline \in Bytes
        /\ Inline = CodeAt(prog, esi + 1)
    BY <2>1, OperandByte
  <2>3. << Inline >> \in Seq(Cells) /\ Len(<< Inline >>) <= 0 + 2
    BY <2>2, Widths
  <2>4. Stacks' /\ (Machine!Word("lit8", 0, 1, << Inline >>) \/ Machine!Overflow)
    BY <1>0, <2>1, <2>2, <2>3, WordStep, ZeroIsByte
  <2>5. Inline = Machine!Inline
    BY <2>2, SameCode DEF Machine!Inline
  <2> QED
    BY <2>4, <2>5 DEF Machine!Literal
<1>2. CASE Lit32
  <2> DEFINE cell == CodeCell(prog, esi + 1)
  <2>1. At("lit32") /\ Primitive(0, << cell >>, 2, 0)
    BY <1>2 DEF Lit32, pusheax
  <2>2. InCode(esi + 1) /\ InCode(esi + 2) /\ esi \in Nat /\ esi + 1 + 1 = esi + 2
    BY <2>1, OperandByte, Looked DEF At, Fetched, Operands
  <2>3. cell \in Cells
    BY <2>2, CellRange DEF AbiInv
  <2> HIDE DEF cell
  <2>4. << cell >> \in Seq(Cells) /\ Len(<< cell >>) <= 0 + 2
    BY <2>3
  <2>5. Stacks' /\ (Machine!Word("lit32", 0, 2, << cell >>) \/ Machine!Overflow)
    BY <1>0, <2>1, <2>4, WordStep, ZeroIsByte
  <2>6. cell = Machine!CodeCell(prog, esi + 1)
    BY SameCell DEF cell
  <2> QED
    BY <2>5, <2>6 DEF Machine!Literal
<1>3. CASE String2
  <2>1. At("string") /\ Low(Token, Inline) = Inline /\ Inline \in Bytes
        /\ Inline = CodeAt(prog, esi + 1) /\ InCode(esi + 1)
    BY <1>3, OperandByte DEF String2
  <2>2. Primitive(0, << Inline, esi + 2 >>, 1 + Inline, Inline)
    BY <1>3, <2>1 DEF String2
  <2>3. esi + 2 \in Cells
    <3>1. esi \in Nat /\ esi + 1 < CodeEnd(prog) /\ CodeEnd(prog) \in Nat
          /\ CodeEnd(prog) < StackEnd
      BY <2>1, Looked, CodeEndRange DEF AbiInv, At, InCode
    <3> QED
      BY <3>1, Layout, Widths
  <2>4. << Inline, esi + 2 >> \in Seq(Cells) /\ Len(<< Inline, esi + 2 >>) <= 0 + 2
    BY <2>1, <2>3, Widths
  <2>5. /\ Stacks'
        /\ Machine!Word("string", 0, 1 + Inline, << Inline, esi + 2 >>) \/ Machine!Overflow
    BY <1>0, <2>1, <2>2, <2>4, WordStep
  <2>6. Inline = Machine!Inline
    BY <2>1, SameCode DEF Machine!Inline
  <2> QED
    BY <2>5, <2>6 DEF Machine!Literal
<1>4. CASE SpAt
  <2>1. At("sp_at") /\ Primitive(0, << esp >>, 0, Token) /\ Token \in Bytes
    BY <1>4, Obeyed DEF SpAt
  <2>2. esp \in Cells
    BY <1>0, Layout, Widths
  <2>3. << esp >> \in Seq(Cells) /\ Len(<< esp >>) <= 0 + 2
    BY <2>2
  <2>4. Stacks' /\ (Machine!Word("sp_at", 0, 0, << esp >>) \/ Machine!Overflow)
    BY <1>0, <2>1, <2>3, WordStep
  <2>5. esp = Machine!DataBase - Len(DataStack)
    BY <1>0, StackShape, SameArithmetic, Layout
  <2> QED
    BY <2>4, <2>5 DEF Machine!Literal
<1>5. CASE RpAt
  <2>1. At("rp_at") /\ Primitive(0, << ebp >>, 0, Token) /\ Token \in Bytes
    BY <1>5, Obeyed DEF RpAt
  <2>2. ebp \in Cells
    BY <1>0, Layout, Widths
  <2>3. << ebp >> \in Seq(Cells) /\ Len(<< ebp >>) <= 0 + 2
    BY <2>2
  <2>4. Stacks' /\ (Machine!Word("rp_at", 0, 0, << ebp >>) \/ Machine!Overflow)
    BY <1>0, <2>1, <2>3, WordStep
  <2>5. ebp = Machine!ReturnBase - Len(ReturnStack)
    BY <1>0, StackShape, SameArithmetic, Layout
  <2> QED
    BY <2>4, <2>5 DEF Machine!Literal
<1> QED
  BY <1>1, <1>2, <1>3, <1>4, <1>5

-----------------------------------------------------------------------------
(* The stacks as memory.                                                   *)

\* The machine finds a cell of either stack where the memory has it.
LEMMA DataAt ==
  ASSUME Stacks
  PROVE  /\ \A a : Machine!InData(a) <=> a \in esp .. DataBase - 1
         /\ \A a \in esp .. DataBase - 1 : Machine!DataCell(a) = mem[a]
<1>1. /\ esp \in Nat /\ DataBase \in Nat /\ esp <= DataBase
      /\ Len(DataStack) = DataBase - esp /\ Machine!DataBase = DataBase
      /\ DataStack = Slice(mem, esp, DataBase)
  BY Sliced, StackShape, SameArithmetic, Layout DEF Stacks
<1>2. DataBase - Len(DataStack) = esp
  BY <1>1
<1>3. \A a : Machine!InData(a) <=> a \in esp .. DataBase - 1
  BY <1>1, <1>2 DEF Machine!InData
<1>4. ASSUME NEW a \in esp .. DataBase - 1
      PROVE  Machine!DataCell(a) = mem[a]
  <2>1. a - esp + 1 \in 1 .. DataBase - esp /\ esp + (a - esp + 1) - 1 = a
    BY <1>1
  <2>2. DataStack[a - esp + 1] = mem[a]
    BY <1>1, <2>1 DEF Slice
  <2> QED
    BY <1>1, <1>2, <2>2 DEF Machine!DataCell
<1> QED
  BY <1>3, <1>4

LEMMA ReturnAt ==
  ASSUME Stacks
  PROVE  /\ \A a : Machine!InReturn(a) <=> a \in ebp .. ReturnBase - 1
         /\ \A a \in ebp .. ReturnBase - 1 : Machine!ReturnCell(a) = mem[a]
<1>1. /\ ebp \in Nat /\ ReturnBase \in Nat /\ ebp <= ReturnBase
      /\ Len(ReturnStack) = ReturnBase - ebp /\ Machine!ReturnBase = ReturnBase
      /\ ReturnStack = Slice(mem, ebp, ReturnBase)
  BY Sliced, StackShape, SameArithmetic, Layout DEF Stacks
<1>2. ReturnBase - Len(ReturnStack) = ebp
  BY <1>1
<1>3. \A a : Machine!InReturn(a) <=> a \in ebp .. ReturnBase - 1
  BY <1>1, <1>2 DEF Machine!InReturn
<1>4. ASSUME NEW a \in ebp .. ReturnBase - 1
      PROVE  Machine!ReturnCell(a) = mem[a]
  <2>1. a - ebp + 1 \in 1 .. ReturnBase - ebp /\ ebp + (a - ebp + 1) - 1 = a
    BY <1>1
  <2>2. ReturnStack[a - ebp + 1] = mem[a]
    BY <1>1, <2>1 DEF Slice
  <2> QED
    BY <1>1, <1>2, <2>2 DEF Machine!ReturnCell
<1> QED
  BY <1>3, <1>4

\* Both see the same segment and the same code.
LEMMA SameSegments ==
  /\ \A a : Machine!InSegment(a) <=> a \in Segment
  /\ Machine!Free = {a \in Segment : ~Machine!InData(a) /\ ~Machine!InReturn(a)}
BY SameArithmetic DEF Machine!InSegment, Machine!Free, Segment

LEMMA SameInCode ==
  ASSUME prog \in Programs, NEW a \in Int
  PROVE  Machine!InCode(a) <=> InCode(a) /\ InCode(a + 1)
<1>1. CodeEnd(prog) \in Nat /\ Machine!CodeEnd(prog) = CodeEnd(prog)
  BY CodeEndRange, SameCode
<1> QED
  BY <1>1 DEF Machine!InCode, InCode

\* fetch reads either stack, the cells between them, or the code.
LEMMA FetchStep ==
  ASSUME AbiInv, Stacks, Disciplined, Fetch
  PROVE  Stacks' /\ (Machine!Fetch \/ Machine!Overflow)
<1>1. At("fetch")
  BY DEF Fetch
<1>2. Uses("fetch") = 1
  BY DEF Uses
<1>3. /\ First = DataStack[1] /\ First \in Cells
      /\ esp + 1 <= DataBase /\ Token \in Bytes
  BY <1>1, <1>2, Given, Obeyed
<1>4. Fits(1, 1) /\ Len(DataStack) >= 1 /\ First \in Int
  BY <1>3, Sliced, StackShape, Layout, Widths DEF Fits, Stacks
<1>5. Machine!At("fetch")
  BY <1>1, SameWord DEF At
<1>6. ASSUME NEW v \in Cells, Primitive(1, << v >>, 0, Token)
      PROVE  Stacks' /\ (Machine!Word("fetch", 1, 0, << v >>) \/ Machine!Overflow)
  <2>1. << v >> \in Seq(Cells) /\ Len(<< v >>) <= 1 + 2
    OBVIOUS
  <2> QED
    BY <1>1, <1>3, <1>6, <2>1, WordStep
<1>7. CASE First \in Segment
  <2>1. Primitive(1, << mem[First] >>, 0, Token) /\ mem[First] \in Cells
    BY <1>4, <1>7 DEF Fetch, Stacks
  <2>2. Stacks' /\ (Machine!Word("fetch", 1, 0, << mem[First] >>) \/ Machine!Overflow)
    BY <1>6, <2>1
  <2>3. CASE Machine!InData(First)
    <3>1. mem[First] = Machine!DataCell(First)
      BY <2>3, DataAt
    <3> QED
      BY <1>3, <1>4, <1>5, <2>2, <2>3, <3>1 DEF Machine!Fetch
  <2>4. CASE Machine!InReturn(First)
    <3>1. mem[First] = Machine!ReturnCell(First)
      BY <2>4, ReturnAt
    <3> QED
      BY <1>3, <1>4, <1>5, <2>2, <2>4, <3>1 DEF Machine!Fetch
  <2>5. CASE ~Machine!InData(First) /\ ~Machine!InReturn(First)
    <3>1. First \in Machine!Free /\ mem[First] \in Machine!Cells
      BY <1>7, <2>1, <2>5, SameSegments, SameArithmetic
    <3> QED
      BY <1>3, <1>4, <1>5, <2>2, <3>1 DEF Machine!Fetch
  <2> QED
    BY <2>3, <2>4, <2>5
<1>8. CASE First \notin Segment /\ InCode(First) /\ InCode(First + 1)
  <2>1. Primitive(1, << CodeCell(prog, First) >>, 0, Token)
    BY <1>4, <1>8 DEF Fetch
  <2>2. CodeCell(prog, First) \in Cells
    BY <1>8, CellRange DEF AbiInv
  <2>3. /\ Stacks'
        /\ Machine!Word("fetch", 1, 0, << CodeCell(prog, First) >>) \/ Machine!Overflow
    BY <1>6, <2>1, <2>2
  <2>4. Machine!InCode(First) /\ CodeCell(prog, First) = Machine!CodeCell(prog, First)
    BY <1>4, <1>8, SameInCode, SameCell DEF AbiInv
  <2> QED
    BY <1>3, <1>4, <1>5, <2>3, <2>4 DEF Machine!Fetch
<1>9. CASE First \notin Segment /\ ~(InCode(First) /\ InCode(First + 1))
  <2>1. Die("sigsegv")
    BY <1>4, <1>9 DEF Fetch
  <2>2. Stacks' /\ Machine!Crash
    BY <1>1, <2>1, Dead DEF At
  <2>3. ~Machine!InSegment(First) /\ ~Machine!InCode(First)
    BY <1>4, <1>9, SameInCode, SameSegments DEF AbiInv
  <2> QED
    BY <1>3, <1>4, <1>5, <2>2, <2>3 DEF Machine!Fetch
<1> QED
  BY <1>7, <1>8, <1>9

\* What is left when the topmost n cells have been popped.
LEMMA Popped ==
  ASSUME Stacks, NEW n \in Nat, esp + n <= DataBase
  PROVE  /\ Slice(mem, esp + n, DataBase) = SubSeq(DataStack, n + 1, Len(DataStack))
         /\ Slice(mem, esp + n, DataBase) \in Seq(Cells)
         /\ Len(Slice(mem, esp + n, DataBase)) = DataBase - (esp + n)
<1>1. /\ mem \in [Segment -> Cells] /\ esp \in Nat /\ DataBase \in Nat
      /\ StackEnd <= esp /\ DataBase <= ReturnBase
      /\ DataStack = Slice(mem, esp, DataBase) /\ Len(DataStack) = DataBase - esp
  BY Sliced, StackShape, Layout DEF Stacks
<1> DEFINE top == esp + n
<1>2. /\ top \in Nat /\ top = esp + n - Len(<< >>) /\ StackEnd <= top
      /\ << >> \in Seq(Cells) /\ top <= DataBase
  BY <1>1, Layout
<1>3. Laid(mem, mem, top, DataBase, << >>)
  <2>1. \A a \in top .. DataBase - 1 : a \notin top .. top + Len(<< >>) - 1
    BY <1>2
  <2> QED
    BY <2>1 DEF Laid
<1>4. Exchanged(mem, mem, esp, DataBase, n, << >>, top)
  BY <1>1, <1>2, <1>3 DEF Exchanged
<1>5. Spliced(mem, mem, esp, DataBase, n, << >>, top)
  BY <1>4, SliceReplaced
<1>6. /\ Slice(mem, top, DataBase) \in Seq(Cells)
      /\ Len(Slice(mem, top, DataBase)) = DataBase - top
  BY <1>1, <1>2, SliceShape
<1> HIDE DEF top
<1>7. Slice(mem, top, DataBase) = << >> \o SubSeq(DataStack, n + 1, Len(DataStack))
  BY <1>1, <1>5 DEF Spliced
<1>8. SubSeq(DataStack, n + 1, Len(DataStack)) \in Seq(Cells)
  <2>1. DataStack \in Seq(Cells) /\ \A i \in n + 1 .. Len(DataStack) : DataStack[i] \in Cells
    BY StackShape, ElementOfSeq
  <2>2. n + 1 \in Int /\ Len(DataStack) \in Int
    BY <2>1, LenProperties
  <2> QED
    BY <2>1, <2>2, SubSeqProperties
<1> QED
  BY <1>6, <1>7, <1>8, ConcatEmptySeq DEF top

-----------------------------------------------------------------------------
(* The three facts about slices as single facts of a memory.               *)

Span(m, from, to) ==
  /\ m \in [Segment -> Cells] /\ from \in Nat /\ to \in Nat
  /\ StackEnd <= from /\ from <= to /\ to <= ReturnBase

Headed(m, from, to) ==
  /\ Slice(m, from + 1, to) = Tail(Slice(m, from, to))
  /\ Head(Slice(m, from, to)) = m[from] /\ Slice(m, from, to) # << >>
  /\ m[from] \in Cells

Pushed(m, m2, from, to, v) ==
  Slice(m2, from - 1, to) = << v >> \o Slice(m, from, to)

Stored(m, m2, from, to, a, v) ==
  Slice(m2, from, to) =
    IF a - from + 1 \in 1 .. to - from
      THEN [Slice(m, from, to) EXCEPT ![a - from + 1] = v]
      ELSE Slice(m, from, to)

LEMMA SpanHeaded ==
  ASSUME NEW m, NEW from, NEW to, Span(m, from, to), from < to
  PROVE  Headed(m, from, to)
BY SliceTail DEF Span, Headed

LEMMA SpanPushed ==
  ASSUME NEW m, NEW m2, NEW from, NEW to, NEW v \in Cells, Span(m, from, to),
         StackEnd < from, m2 = [m EXCEPT ![from - 1] = v]
  PROVE  Pushed(m, m2, from, to, v)
BY SlicePushed DEF Span, Pushed

\* A store changes the cell it hits, if the slice has it.
LEMMA SpanStored ==
  ASSUME NEW m, NEW m2, NEW from, NEW to, NEW a \in Segment, NEW v \in Cells,
         Span(m, from, to), m2 = [m EXCEPT ![a] = v]
  PROVE  Stored(m, m2, from, to, a, v)
<1>0. /\ m \in [Segment -> Cells] /\ from \in Nat /\ to \in Nat
      /\ StackEnd <= from /\ from <= to /\ to <= ReturnBase
  BY DEF Span
<1> USE <1>0
<1> DEFINE old == Slice(m, from, to)
           new == Slice(m2, from, to)
           place == a - from + 1
<1>1. /\ m2 \in [Segment -> Cells] /\ a \in Int
      /\ \A b \in Segment : m2[b] = IF b = a THEN v ELSE m[b]
  BY Layout
<1>2. /\ old \in Seq(Cells) /\ Len(old) = to - from
      /\ \A i \in 1 .. to - from : old[i] = m[from + i - 1]
  BY SliceShape
<1>3. /\ new \in Seq(Cells)
      /\ Len(new) = to - from
      /\ \A i \in 1 .. to - from : new[i] = m2[from + i - 1]
  <2>1. \A m3 \in [Segment -> Cells] :
          /\ Slice(m3, from, to) \in Seq(Cells) /\ Len(Slice(m3, from, to)) = to - from
          /\ \A i \in 1 .. to - from : Slice(m3, from, to)[i] = m3[from + i - 1]
    BY SliceShape
  <2> QED
    BY <1>1, <2>1
<1>4. \A i \in 1 .. to - from : from + i - 1 \in Segment /\ (from + i - 1 = a <=> i = place)
  BY <1>1, Layout
<1> HIDE DEF old, new, place
<1>5. \A i \in 1 .. to - from : new[i] = IF i = place THEN v ELSE old[i]
  BY <1>1, <1>2, <1>3, <1>4
<1>6. CASE place \in 1 .. to - from
  <2> DEFINE put == [old EXCEPT ![place] = v]
  <2>1. /\ put \in Seq(Cells) /\ Len(put) = Len(old)
        /\ \A j \in 1 .. Len(old) : put[j] = IF j = place THEN v ELSE old[j]
    BY <1>2, <1>6, ExceptSeq
  <2> HIDE DEF put
  <2>2. new = put
    BY <1>2, <1>3, <1>5, <2>1, SeqEqual
  <2> QED
    BY <1>6, <2>2 DEF Stored, put, new, old, place
<1>7. CASE place \notin 1 .. to - from
  <2>1. new = old
    BY <1>2, <1>3, <1>5, <1>7, SeqEqual
  <2> QED
    BY <1>7, <2>1 DEF Stored, new, old, place
<1> QED
  BY <1>6, <1>7

\* Both stacks are such spans.
LEMMA Spans ==
  ASSUME Stacks
  PROVE  Span(mem, esp, DataBase) /\ Span(mem, ebp, ReturnBase)
BY Sliced, Layout DEF Stacks, Span

-----------------------------------------------------------------------------
(* The words that move the stack pointers themselves.                      *)

\* After a word that goes on to NEXT, both stacks are read off the memory.
LEMMA Moved ==
  ASSUME mem' \in [Segment -> Cells], out' \in Seq(Bytes),
         esp' \in Nat, StackEnd <= esp', esp' <= DataBase,
         ebp' \in Nat, DataBase <= ebp', ebp' <= ReturnBase
  PROVE  /\ Stacks'
         /\ DataStack' = Slice(mem', esp', DataBase)
         /\ ReturnStack' = Slice(mem', ebp', ReturnBase)
<1>1. Stacks'
  BY Layout DEF Stacks, Segment, Cells, DataBase, ReturnBase
<1> QED
  BY <1>1, SlicedNext

\* A word that ends with a byte in eax keeps the machine running.
LEMMA Onward ==
  ASSUME AbiInv, Fetched, status = "run", status' = status, eax' \in Bytes
  PROVE  Outcome' = Outcome
BY Looked DEF Outcome, Bytes

\* The stacks, spelled out.
LEMMA Shape ==
  ASSUME Stacks
  PROVE  /\ mem \in [Segment -> Cells] /\ out \in Seq(Bytes)
         /\ esp \in Nat /\ StackEnd <= esp /\ esp <= DataBase
         /\ ebp \in Nat /\ DataBase <= ebp /\ ebp <= ReturnBase
         /\ DataBase \in Nat /\ ReturnBase \in Nat /\ StackEnd \in Nat
         /\ DataBase <= ReturnBase /\ StackEnd <= DataBase
         /\ DataStack = Slice(mem, esp, DataBase)
         /\ ReturnStack = Slice(mem, ebp, ReturnBase)
BY Sliced, Layout DEF Stacks

\* store writes to the cell of either stack, or to no cell of them.
LEMMA StoreStep ==
  ASSUME AbiInv, Stacks, Disciplined, Store
  PROVE  Stacks' /\ Machine!Store
<1>1. At("store")
  BY DEF Store
<1>2. Uses("store") = 2
  BY DEF Uses
<1>3. /\ First = DataStack[1] /\ First \in Cells
      /\ Second = DataStack[2] /\ Second \in Cells
      /\ esp + 2 <= DataBase /\ Token \in Bytes
  BY <1>1, <1>2, Given, Obeyed
<1>4. Fits(2, 0) /\ Len(DataStack) >= 2 /\ First \in Int
  BY <1>3, Sliced, StackShape, Layout, Widths DEF Fits, Stacks
<1>5. Machine!At("store") /\ Fetched /\ status = "run"
  BY <1>1, SameWord DEF At
<1>6. CASE First \in Segment
  <2> DEFINE rest == SubSeq(DataStack, 3, Len(DataStack))
             inData == First - (esp + 2) + 1
             inReturn == First - ebp + 1
  <2>1. /\ mem' = [mem EXCEPT ![First] = Second] /\ esp' = esp + 2
        /\ esi' = esi + 1 /\ eax' = Token
        /\ UNCHANGED << prog, ebp, out, faults, status >>
    BY <1>4, <1>6 DEF Store
  <2>2. mem' \in [Segment -> Cells] /\ esp' \in Nat /\ esp' <= DataBase
        /\ StackEnd <= esp' /\ 2 \in Nat /\ 2 + 1 = 3
    BY <1>3, <1>6, <2>1, Shape
  <2>3. /\ Stacks'
        /\ DataStack' = Slice(mem', esp + 2, DataBase)
        /\ ReturnStack' = Slice(mem', ebp, ReturnBase)
    BY <2>1, <2>2, Shape, Moved
  <2>4. rest = Slice(mem, esp + 2, DataBase) /\ Len(rest) = DataBase - (esp + 2)
    BY <1>3, <2>2, Popped
  <2>5. DataStack' = IF inData \in 1 .. DataBase - (esp + 2)
                       THEN [Slice(mem, esp + 2, DataBase) EXCEPT ![inData] = Second]
                       ELSE Slice(mem, esp + 2, DataBase)
    <3>1. Span(mem, esp + 2, DataBase)
      BY <1>3, Shape DEF Span
    <3>2. Stored(mem, mem', esp + 2, DataBase, First, Second)
      BY <1>3, <1>6, <2>1, <3>1, SpanStored
    <3> QED
      BY <2>3, <3>2 DEF Stored
  <2>6. ReturnStack' = IF inReturn \in 1 .. ReturnBase - ebp
                         THEN [ReturnStack EXCEPT ![inReturn] = Second]
                         ELSE ReturnStack
    <3>1. Stored(mem, mem', ebp, ReturnBase, First, Second)
      BY <1>3, <1>6, <2>1, Spans, SpanStored
    <3> QED
      BY <2>3, <3>1, Sliced DEF Stored
  <2>7. /\ First - (Machine!DataBase - Len(rest)) + 1 = inData
        /\ First - (Machine!ReturnBase - Len(ReturnStack)) + 1 = inReturn
        /\ Len(ReturnStack) = ReturnBase - ebp
    <3> DEFINE returned == Len(ReturnStack)
               left == Len(rest)
    <3>1. /\ returned = ReturnBase - ebp /\ left = DataBase - (esp + 2)
          /\ ReturnBase \in Nat /\ DataBase \in Nat /\ esp \in Nat /\ ebp \in Nat
          /\ Machine!DataBase = DataBase /\ Machine!ReturnBase = ReturnBase
      BY <2>4, Shape, StackShape, SameArithmetic
    <3> HIDE DEF returned, left, rest
    <3>2. DataBase - left = esp + 2 /\ ReturnBase - returned = ebp
      BY <3>1
    <3> QED
      BY <3>1, <3>2 DEF returned, left
  <2>8. Outcome' = Outcome
    BY <1>3, <1>5, <2>1, Onward
  <2>9. Machine!InSegment(First)
    BY <1>6, SameSegments
  <2> HIDE DEF inData, inReturn, rest
  <2>10. DataStack' = IF inData \in 1 .. Len(rest)
                        THEN [rest EXCEPT ![inData] = DataStack[2]] ELSE rest
    BY <1>3, <2>4, <2>5
  <2>11. ReturnStack' = IF inReturn \in 1 .. Len(ReturnStack)
                          THEN [ReturnStack EXCEPT ![inReturn] = DataStack[2]]
                          ELSE ReturnStack
    BY <1>3, <2>6, <2>7
  <2>12. Machine!Store
    BY <1>3, <1>4, <1>5, <2>1, <2>7, <2>8, <2>9, <2>10, <2>11 DEF Machine!Store, rest
  <2> QED
    BY <2>3, <2>12
<1>7. CASE First \notin Segment
  <2>1. Die("sigsegv")
    BY <1>4, <1>7 DEF Store
  <2>2. Stacks' /\ Machine!Crash
    BY <1>1, <2>1, Dead DEF At
  <2>3. ~Machine!InSegment(First)
    BY <1>7, SameSegments
  <2> QED
    BY <1>3, <1>4, <1>5, <2>2, <2>3 DEF Machine!Store
<1> QED
  BY <1>6, <1>7

\* What a word pops off either stack is its head.
LEMMA DataTail ==
  ASSUME Stacks, esp + 1 <= DataBase
  PROVE  Slice(mem, esp + 1, DataBase) = Tail(DataStack) /\ Len(DataStack) >= 1
<1>1. esp < DataBase
  BY Shape
<1>2. Headed(mem, esp, DataBase)
  BY <1>1, Spans, SpanHeaded
<1>3. Len(DataStack) >= 1
  BY Shape, StackShape
<1> QED
  BY <1>2, <1>3, Sliced DEF Headed

LEMMA ReturnTail ==
  ASSUME Stacks, ebp < ReturnBase
  PROVE  /\ Slice(mem, ebp + 1, ReturnBase) = Tail(ReturnStack)
         /\ Head(ReturnStack) = mem[ebp] /\ mem[ebp] \in Cells
         /\ ReturnStack # << >> /\ ebp \in Segment
<1>1. ebp \in Segment
  BY Shape, Layout
<1>2. Headed(mem, ebp, ReturnBase)
  BY Spans, SpanHeaded
<1> QED
  BY <1>1, <1>2, Sliced DEF Headed

LEMMA JumpStep ==
  ASSUME AbiInv, Stacks, Disciplined, Branch \/ ZBranch
  PROVE  Stacks' /\ Machine!Jump
<1>1. CASE Branch
  <2>1. At("branch") /\ Fetched /\ status = "run" /\ Machine!At("branch")
    BY <1>1, SameWord DEF Branch, At
  <2>2. /\ Inline = CodeAt(prog, esi + 1) /\ Token \in Bytes
    BY <2>1, OperandByte, Obeyed
  <2>3. /\ esi' = esi + 1 + Signed(Inline) /\ eax' = Token
        /\ UNCHANGED << esp, ebp, mem, prog, out, faults, status >>
    BY <1>1 DEF Branch, Keep
  <2>4. Stacks' /\ DataStack' = DataStack /\ ReturnStack' = ReturnStack
    BY <2>3, Shape, Moved
  <2>5. Outcome' = Outcome
    BY <2>1, <2>2, <2>3, Onward
  <2>6. Inline = Machine!Inline /\ Signed(Inline) = Machine!Signed(Machine!Inline)
    BY <2>2, SameCode, SameSigned DEF Machine!Inline
  <2> QED
    BY <2>1, <2>3, <2>4, <2>5, <2>6 DEF Machine!Jump, Machine!Stackless
<1>2. CASE ZBranch
  <2>1. At("zbranch") /\ Fetched /\ status = "run" /\ Machine!At("zbranch")
    BY <1>2, SameWord DEF ZBranch, At
  <2>2. Uses("zbranch") = 1
    BY DEF Uses
  <2>3. /\ Inline = CodeAt(prog, esi + 1) /\ Token \in Bytes
        /\ esp + 1 <= DataBase /\ First = DataStack[1]
    BY <2>1, <2>2, OperandByte, Obeyed, Given
  <2>4. Fits(1, 0) /\ esp + 1 \in Nat /\ StackEnd <= esp + 1
    BY <2>3, Shape DEF Fits
  <2>5. /\ esp' = esp + 1 /\ eax' = Token
        /\ esi' = IF First = 0 THEN esi + 1 + Signed(Inline) ELSE esi + 2
        /\ UNCHANGED << ebp, mem, prog, out, faults, status >>
    BY <1>2, <2>4 DEF ZBranch, Keep
  <2>6. /\ Stacks' /\ DataStack' = Slice(mem, esp + 1, DataBase)
        /\ ReturnStack' = ReturnStack
    BY <2>3, <2>4, <2>5, Shape, Moved
  <2>7. Outcome' = Outcome
    BY <2>1, <2>3, <2>5, Onward
  <2>8. Inline = Machine!Inline /\ Signed(Inline) = Machine!Signed(Machine!Inline)
    BY <2>3, SameCode, SameSigned DEF Machine!Inline
  <2>9. DataStack' = Tail(DataStack) /\ Len(DataStack) >= 1
    BY <2>3, <2>6, DataTail
  <2> QED
    BY <2>1, <2>3, <2>5, <2>6, <2>7, <2>8, <2>9 DEF Machine!Jump
<1> QED
  BY <1>1, <1>2

\* rspush moves a cell from one stack to the other.
LEMMA RsPushStep ==
  ASSUME AbiInv, Stacks, Disciplined, RsPush
  PROVE  Stacks' /\ Machine!Loop
<1>1. At("rspush") /\ Fetched /\ status = "run" /\ Machine!At("rspush")
  BY SameWord DEF RsPush, At
<1>2. Uses("rspush") = 1
  BY DEF Uses
<1>3. /\ Token \in Bytes /\ esp + 1 <= DataBase /\ First = DataStack[1] /\ First \in Cells
      /\ ebp > DataBase
  BY <1>1, <1>2, Obeyed, Given
<1>4. /\ Fits(1, 0) /\ ebp - 1 \in Segment /\ esp + 1 \in Nat /\ StackEnd <= esp + 1
      /\ ebp - 1 \in Nat /\ DataBase <= ebp - 1 /\ ebp - 1 <= ReturnBase
      /\ StackEnd < ebp
  BY <1>3, Shape, Layout DEF Fits
<1>5. /\ mem' = [mem EXCEPT ![ebp - 1] = First]
      /\ ebp' = ebp - 1 /\ esp' = esp + 1
      /\ esi' = esi + 1 /\ eax' = Token
      /\ UNCHANGED << prog, out, faults, status >>
  BY <1>4 DEF RsPush, Keep
<1>6. mem' \in [Segment -> Cells]
  BY <1>3, <1>5, Shape
<1>7. /\ Stacks' /\ DataStack' = Slice(mem', esp + 1, DataBase)
      /\ ReturnStack' = Slice(mem', ebp - 1, ReturnBase)
  BY <1>3, <1>4, <1>5, <1>6, Shape, Moved
<1>8. DataStack' = Tail(DataStack) /\ Len(DataStack) >= 1
  <2>1. Agree(mem, mem', esp + 1, DataBase)
    BY <1>4, <1>5, Shape, Layout DEF Agree
  <2>2. Slice(mem', esp + 1, DataBase) = Slice(mem, esp + 1, DataBase)
    BY <1>4, <2>1, Shape, SliceSame
  <2> QED
    BY <1>3, <1>7, <2>2, DataTail
<1>9. ReturnStack' = << First >> \o ReturnStack
  <2>1. Pushed(mem, mem', ebp, ReturnBase, First)
    BY <1>3, <1>4, <1>5, Spans, SpanPushed
  <2> QED
    BY <1>7, <2>1, Sliced DEF Pushed
<1>10. Len(ReturnStack) < Gap
  BY <1>3, Shape, StackShape, Layout
<1>11. Outcome' = Outcome
  BY <1>1, <1>3, <1>5, Onward
<1> QED
  BY <1>1, <1>3, <1>5, <1>7, <1>8, <1>9, <1>10, <1>11 DEF Machine!Loop

\* while2 counts down on the return stack and clears a counter that is done.
LEMMA While2Step ==
  ASSUME AbiInv, Stacks, Disciplined, While2
  PROVE  Stacks' /\ Machine!Loop
<1>1. At("while2") /\ Fetched /\ status = "run" /\ Machine!At("while2")
  BY SameWord DEF While2, At
<1>2. /\ Inline = CodeAt(prog, esi + 1) /\ Inline \in Bytes /\ Low(Token, Inline) = Inline
      /\ ebp < ReturnBase
  BY <1>1, OperandByte, Obeyed
<1> DEFINE count == (mem[ebp] + W - 1) % W
<1>3. /\ Head(ReturnStack) = mem[ebp] /\ mem[ebp] \in Cells /\ ebp \in Segment
      /\ ReturnStack # << >> /\ Slice(mem, ebp + 1, ReturnBase) = Tail(ReturnStack)
  BY <1>2, ReturnTail
<1>4. count \in Cells /\ (count = 0 <=> mem[ebp] = 1)
  <2>1. mem[ebp] \in Nat /\ mem[ebp] < W
    BY <1>3 , Widths DEF Cells
  <2>2. CASE mem[ebp] = 0
    <3>1. count = W - 1
      BY <2>2, Widths
    <3> QED
      BY <2>2, <3>1, Widths DEF Cells
  <2>3. CASE mem[ebp] > 0
    <3>1. count = mem[ebp] - 1
      BY <2>1, <2>3, Widths
    <3> QED
      BY <2>1, <2>3, <3>1, Widths DEF Cells
  <2> QED
    BY <2>1, <2>2, <2>3
<1>5. /\ mem' = [mem EXCEPT ![ebp] = count]
      /\ ebp' = IF count = 0 THEN ebp + 1 ELSE ebp
      /\ esi' = esi + 2 - IF count = 0 THEN 0 ELSE Inline
      /\ eax' = Inline
      /\ UNCHANGED << esp, prog, out, faults, status >>
  BY <1>2, <1>3 DEF While2, Keep
<1> HIDE DEF count
<1>6. mem' \in [Segment -> Cells]
  BY <1>4, <1>5, Shape
<1>7. /\ ebp' \in Nat /\ DataBase <= ebp' /\ ebp' <= ReturnBase
  BY <1>2, <1>5, Shape
<1>8. /\ Stacks' /\ DataStack' = Slice(mem', esp, DataBase)
      /\ ReturnStack' = Slice(mem', ebp', ReturnBase)
  BY <1>5, <1>6, <1>7, Shape, Moved
<1>9. DataStack' = DataStack
  <2>1. Agree(mem, mem', esp, DataBase)
    BY <1>5, Shape, Layout DEF Agree
  <2> QED
    BY <1>8, <2>1, Shape, SliceSame
<1>10. Outcome' = Outcome
  BY <1>1, <1>2, <1>5, Onward
<1>11. Inline = Machine!Inline /\ esi \in Nat /\ Inline \in Int
  BY <1>1, <1>2, SameCode, Looked DEF Machine!Inline, Bytes
<1>12. CASE count = 0
  <2>1. Agree(mem, mem', ebp + 1, ReturnBase) /\ ebp + 1 \in Nat /\ ReturnBase \in Nat
    BY <1>5, Shape, Layout DEF Agree
  <2>2. Slice(mem', ebp + 1, ReturnBase) = Slice(mem, ebp + 1, ReturnBase)
    BY <2>1, SliceSame
  <2>3. ReturnStack' = Tail(ReturnStack) /\ esi' = esi + 2 /\ Head(ReturnStack) = 1
    <3>1. ebp' = ebp + 1 /\ esi' = esi + 2 - 0
      BY <1>5, <1>12
    <3>2. ReturnStack' = Tail(ReturnStack)
      BY <1>3, <1>8, <2>2, <3>1
    <3> QED
      BY <1>3, <1>4, <1>11, <1>12, <3>1, <3>2
  <2> QED
    BY <1>1, <1>3, <1>5, <1>8, <1>9, <1>10, <2>3 DEF Machine!Loop, Machine!Stackless
<1>13. CASE count # 0
  <2> DEFINE above == ebp + 1
  <2>1. Span(mem, above, ReturnBase) /\ StackEnd < above /\ above - 1 = ebp
    BY <1>2, Shape DEF Span
  <2> HIDE DEF above
  <2>2. Pushed(mem, mem', above, ReturnBase, count)
    <3>1. mem' = [mem EXCEPT ![above - 1] = count]
      BY <1>5, <2>1
    <3> QED
      BY <1>4, <2>1, <3>1, SpanPushed
  <2>3. ReturnStack' = << count >> \o Tail(ReturnStack)
    <3>1. Slice(mem', ebp, ReturnBase) = << count >> \o Slice(mem, above, ReturnBase)
      BY <2>1, <2>2 DEF Pushed
    <3>2. ebp' = ebp
      BY <1>5, <1>13
    <3> QED
      BY <1>3, <1>8, <3>1, <3>2 DEF above
  <2>4. Head(ReturnStack) # 1 /\ esi' = esi + 2 - Inline
        /\ count = (Head(ReturnStack) + W - 1) % W
    BY <1>3, <1>4, <1>5, <1>13 DEF count
  <2> QED
    BY <1>1, <1>3, <1>5, <1>8, <1>9, <1>10, <1>11, <2>3, <2>4
       DEF Machine!Loop, Machine!Stackless
<1> QED
  BY <1>12, <1>13

LEMMA RDropStep ==
  ASSUME AbiInv, Stacks, Disciplined, RDrop
  PROVE  Stacks' /\ Machine!Loop
<1>1. At("rdrop") /\ Fetched /\ status = "run" /\ Machine!At("rdrop")
  BY SameWord DEF RDrop, At
<1>2. Token \in Bytes /\ ebp < ReturnBase
  BY <1>1, Obeyed
<1>3. /\ ebp' = ebp + 1 /\ esi' = esi + 1 /\ eax' = Token
      /\ UNCHANGED << esp, mem, prog, out, faults, status >>
  BY DEF RDrop, Keep
<1>4. ebp + 1 \in Nat /\ DataBase <= ebp + 1 /\ ebp + 1 <= ReturnBase
  BY <1>2, Shape
<1>5. /\ Stacks' /\ DataStack' = DataStack
      /\ ReturnStack' = Slice(mem, ebp + 1, ReturnBase)
  BY <1>3, <1>4, Shape, Moved
<1>6. ReturnStack' = Tail(ReturnStack) /\ ReturnStack # << >>
  BY <1>2, <1>5, ReturnTail
<1>7. Outcome' = Outcome
  BY <1>1, <1>2, <1>3, Onward
<1> QED
  BY <1>1, <1>3, <1>5, <1>6, <1>7 DEF Machine!Loop, Machine!Stackless

\* DOCOL leaves the address behind the token on the return stack; EXIT takes
\* one off it.
LEMMA CallStep ==
  ASSUME AbiInv, Stacks, Disciplined, Docol
  PROVE  Stacks' /\ Machine!Call
<1>1. Fetched /\ status = "run" /\ Token >= BREAK
  BY DEF Docol
<1>2. /\ eax \in Bytes /\ Token \in Bytes /\ esi \in Nat /\ esi < CodeEnd(prog)
      /\ Outcome = "run" /\ Machine!Token = Token
  BY <1>1, Looked, SameWord
<1>3. ebp > DataBase
  BY <1>1, <1>2 DEF Disciplined, Bytes
<1>4. /\ ebp - 1 \in Segment /\ ebp - 1 \in Nat /\ DataBase <= ebp - 1
      /\ ebp - 1 <= ReturnBase /\ StackEnd < ebp
  BY <1>3, Shape, Layout
<1>5. /\ mem' = [mem EXCEPT ![ebp - 1] = esi + 1]
      /\ ebp' = ebp - 1
      /\ esi' = STATIC_TABLE(Token) /\ eax' = Token
      /\ UNCHANGED << esp, prog, out, faults, status >>
  BY <1>4 DEF Docol, Keep
<1>6. esi + 1 \in Cells
  <2>1. CodeEnd(prog) \in Nat /\ CodeEnd(prog) < StackEnd
    BY CodeEndRange DEF AbiInv
  <2> QED
    BY <1>2, <2>1, Layout, Widths
<1>7. mem' \in [Segment -> Cells]
  BY <1>5, <1>6, Shape
<1>8. /\ Stacks' /\ DataStack' = Slice(mem', esp, DataBase)
      /\ ReturnStack' = Slice(mem', ebp - 1, ReturnBase)
  BY <1>4, <1>5, <1>7, Shape, Moved
<1>9. DataStack' = DataStack
  <2>1. Agree(mem, mem', esp, DataBase)
    BY <1>4, <1>5, Shape, Layout DEF Agree
  <2> QED
    BY <1>8, <2>1, Shape, SliceSame
<1>10. ReturnStack' = << esi + 1 >> \o ReturnStack
  <2>1. Pushed(mem, mem', ebp, ReturnBase, esi + 1)
    BY <1>4, <1>5, <1>6, Spans, SpanPushed
  <2> QED
    BY <1>8, <2>1, Sliced DEF Pushed
<1>11. Len(ReturnStack) < Gap
  BY <1>3, Shape, StackShape, Layout
<1>12. Outcome' = Outcome
  BY <1>1, <1>2, <1>5, Onward
<1>13. Machine!Token >= Machine!BREAK /\ esi' = Machine!STATIC_TABLE(Machine!Token)
  BY <1>1, <1>2, <1>5, SameBreak, SameTable
<1> QED
  BY <1>2, <1>5, <1>8, <1>9, <1>10, <1>11, <1>12, <1>13 DEF Machine!Call

LEMMA ReturnStep ==
  ASSUME AbiInv, Stacks, Disciplined, Exit
  PROVE  Stacks' /\ Machine!Return
<1>1. At("EXIT") /\ Fetched /\ status = "run" /\ Machine!At("EXIT")
  BY SameWord DEF Exit, At
<1>2. Token \in Bytes /\ ebp < ReturnBase
  BY <1>1, Obeyed
<1>3. /\ Head(ReturnStack) = mem[ebp] /\ mem[ebp] \in Cells /\ ebp \in Segment
      /\ ReturnStack # << >> /\ Slice(mem, ebp + 1, ReturnBase) = Tail(ReturnStack)
  BY <1>2, ReturnTail
<1>4. /\ esi' = mem[ebp] /\ ebp' = ebp + 1 /\ eax' = Token
      /\ UNCHANGED << esp, mem, prog, out, faults, status >>
  BY <1>3 DEF Exit, Keep
<1>5. ebp + 1 \in Nat /\ DataBase <= ebp + 1 /\ ebp + 1 <= ReturnBase
  BY <1>2, Shape
<1>6. /\ Stacks' /\ DataStack' = DataStack
      /\ ReturnStack' = Slice(mem, ebp + 1, ReturnBase)
  BY <1>4, <1>5, Shape, Moved
<1>7. Outcome' = Outcome
  BY <1>1, <1>2, <1>4, Onward
<1> QED
  BY <1>1, <1>3, <1>4, <1>6, <1>7 DEF Machine!Return, Machine!Stackless

-----------------------------------------------------------------------------
(* System calls.                                                           *)

LEMMA CellsAreNumbers == \A n \in Cells : n \in Nat
BY DEF Cells

\* A text in the code or on the data stack is the same text to the machine.
LEMMA SameText ==
  ASSUME AbiInv, Stacks, NEW a, InCode(a) \/ a \in esp .. DataBase - 1
  PROVE  ByteAt(a) = Machine!ByteAt(a) /\ ByteAt(a) \in Bytes
<1>1. CASE a \in esp .. DataBase - 1
  <2>1. a \in Segment /\ mem[a] \in Cells
    BY <1>1, Shape, Layout
  <2>2. Machine!InData(a) /\ Machine!DataCell(a) = mem[a]
    BY <1>1, DataAt
  <2>3. mem[a] % 256 \in Bytes
    <3>1. \A n \in Nat : n % 256 \in Bytes
      BY DEF Bytes
    <3>2. mem[a] \in Nat
      BY <2>1, CellsAreNumbers
    <3> QED
      BY <3>1, <3>2
  <2> QED
    BY <2>1, <2>2, <2>3 DEF ByteAt, Machine!ByteAt
<1>2. CASE InCode(a)
  <2>1. CodeAt(prog, a) \in Bytes /\ a \in Nat
    BY <1>2, CodeBytes DEF AbiInv
  <2>2. a < StackEnd
    BY <1>2, <2>1, CodeEndRange, Layout DEF AbiInv, InCode
  <2>3. a \notin Segment /\ a \notin esp .. DataBase - 1
    BY <2>1, <2>2, Shape, Layout
  <2>4. ~Machine!InData(a)
    BY <2>3, DataAt
  <2> QED
    BY <2>1, <2>3, <2>4, SameCode DEF ByteAt, Machine!ByteAt
<1> QED
  BY <1>1, <1>2

\* What write puts out: the first bytes of the text.
LEMMA Written ==
  ASSUME AbiInv, Stacks, NEW a \in Nat, NEW n \in Nat, NEW done \in 0 .. n,
         \A b \in a .. a + n - 1 : InCode(b) \/ b \in esp .. DataBase - 1
  PROVE  /\ [i \in 1 .. done |-> ByteAt(a + i - 1)]
              = [i \in 1 .. done |-> Machine!ByteAt(a + i - 1)]
         /\ [i \in 1 .. done |-> ByteAt(a + i - 1)] \in Seq(Bytes)
<1>1. \A i \in 1 .. done : a + i - 1 \in a .. a + n - 1
  OBVIOUS
<1>2. \A i \in 1 .. done : /\ ByteAt(a + i - 1) = Machine!ByteAt(a + i - 1)
                           /\ ByteAt(a + i - 1) \in Bytes
  BY <1>1, SameText
<1> DEFINE e(i) == ByteAt(a + i - 1)
<1>3. \A i \in 1 .. done : e(i) \in Bytes
  BY <1>2
<1> HIDE DEF e
<1>4. [i \in 1 .. done |-> e(i)] \in Seq(Bytes)
  BY <1>3, IsASeq
<1> QED
  BY <1>2, <1>4 DEF e

\* syscall3 writes the text Forth means, all of it or less, or exits.
LEMMA SyscallStep ==
  ASSUME AbiInv, Stacks, Disciplined, Syscall3
  PROVE  Stacks' /\ Machine!Syscall3
<1>1. At("syscall3") /\ Fetched /\ status = "run" /\ Machine!At("syscall3")
  BY SameWord DEF Syscall3, At
<1>2. Uses("syscall3") = 1
  BY DEF Uses
<1>3. /\ eax \in Bytes /\ First = DataStack[1] /\ First \in Cells /\ esp + 1 <= DataBase
      /\ \/ First = 1
         \/ /\ First = 4 /\ esp + 4 <= DataBase
            /\ \A a \in Third .. Third + mem[esp + 3] - 1 :
                 InCode(a) \/ a \in esp .. DataBase - 1
  BY <1>1, <1>2, Given, Obeyed
<1>4. Fits(4, 0) /\ Len(DataStack) >= 1
  BY <1>3, Shape, StackShape, Layout, SMTT(30) DEF Fits
<1>5. CASE First = 1
  <2>1. Die("exited")
    BY <1>4, <1>5 DEF Syscall3
  <2>2. Stacks' /\ DataStack' = DataStack /\ ReturnStack' = ReturnStack
    BY <2>1, Shape, Moved DEF Die, registers
  <2>3. Outcome' = "exited"
    BY <1>3, <2>1 DEF Outcome, Die, registers, Bytes
  <2>4. UNCHANGED << prog, esi, out >>
    BY <2>1 DEF Die, registers
  <2> QED
    BY <1>1, <1>3, <1>4, <1>5, <2>2, <2>3, <2>4 DEF Machine!Syscall3
<1>6. CASE First # 1
  <2> DEFINE length == mem[esp + 3]
  <2>1. /\ First = 4 /\ esp + 4 <= DataBase
        /\ \A a \in Third .. Third + length - 1 : InCode(a) \/ a \in esp .. DataBase - 1
    BY <1>3, <1>6
  <2>2. /\ DataStack[3] = Third /\ Third \in Nat
        /\ DataStack[4] = length /\ length \in Cells /\ length \in Nat
    <3>1. esp + 3 <= DataBase
      BY <2>1, Shape
    <3>2. DataStack[3] = Third /\ Third \in Cells
      BY <3>1, OperandCells
    <3>3. DataStack[4] = length /\ length \in Cells
      BY <2>1, OperandCells
    <3> QED
      BY <3>2, <3>3, CellsAreNumbers
  <2> HIDE DEF length
  <2>3. PICK result \in 0 .. length \cup {True} :
               /\ Write(Third, length, result)
               /\ Replaced(4, << result >>)
               /\ esi' = esi + 1 /\ eax' = 0
               /\ UNCHANGED << prog, ebp, status >>
    BY <1>4, <1>6, <2>1 DEF Syscall3, length
  <2>4. PICK done \in 0 .. length :
               /\ result = done \/ (done = 0 /\ result = True)
               /\ out' = out \o [i \in 1 .. done |-> ByteAt(Third + i - 1)]
    BY <2>3 DEF Write
  <2> DEFINE text == [i \in 1 .. done |-> ByteAt(Third + i - 1)]
             seen == [i \in 1 .. done |-> Machine!ByteAt(Third + i - 1)]
  <2>5. text = seen /\ text \in Seq(Bytes)
    BY <2>1, <2>2, Written
  <2> HIDE DEF text, seen
  <2>6. out' = out \o text /\ out' \in Seq(Bytes)
    BY <2>4, <2>5, Shape DEF text
  <2>7. result \in Cells /\ << result >> \in Seq(Cells) /\ Len(<< result >>) = 1
    <3>1. result \in Cells
      BY <2>2, <2>3, Widths DEF Cells
    <3> QED
      BY <3>1
  <2>8. /\ Stacks'
        /\ DataStack' = << result >> \o SubSeq(DataStack, 4 + 1, Len(DataStack))
        /\ ReturnStack' = ReturnStack
    <3>1. 4 \in Nat /\ StackEnd <= esp + 4 - Len(<< result >>)
      BY <2>7, Shape
    <3> QED
      BY <2>1, <2>3, <2>6, <2>7, <3>1, Replacing
  <2>9. Outcome' = Outcome
    BY <1>1, <2>3, Onward, ZeroIsByte
  <2>10. Len(DataStack) >= 4 /\ 4 + 1 = 5
    BY <2>1, Shape, StackShape
  <2>11. result \in {done} \cup (IF done = 0 THEN Machine!MaxInt .. W - 1 ELSE {})
    <3>1. True \in MaxInt .. W - 1
      BY Widths DEF True
    <3> QED
      BY <2>4, <3>1, SameArithmetic
  <2>12. out' = out \o [i \in 1 .. done |-> Machine!ByteAt(DataStack[3] + i - 1)]
    BY <2>2, <2>5, <2>6 DEF seen
  <2>13. done \in 0 .. DataStack[4]
    BY <2>2, <2>4
  <2>14. /\ Machine!At("syscall3") /\ Len(DataStack) >= 1
         /\ DataStack[1] = 4 /\ Len(DataStack) >= 4
         /\ DataStack' = << result >> \o SubSeq(DataStack, 5, Len(DataStack))
         /\ esi' = esi + 1
         /\ UNCHANGED << prog, ReturnStack, Outcome >>
    BY <1>1, <1>3, <1>4, <2>1, <2>3, <2>8, <2>9, <2>10
  <2> QED
    BY <2>8, <2>11, <2>12, <2>13, <2>14 DEF Machine!Syscall3
<1> QED
  BY <1>5, <1>6

\* dupemit writes the low byte; a failed write is the machine's crash.
LEMMA EmitStep ==
  ASSUME AbiInv, Stacks, Disciplined, DupEmit
  PROVE  Stacks' /\ Machine!DupEmit
<1>1. At("dupemit") /\ Fetched /\ status = "run" /\ Machine!At("dupemit")
  BY SameWord DEF DupEmit, At
<1>2. Uses("dupemit") = 1
  BY DEF Uses
<1>3. /\ First = DataStack[1] /\ First \in Cells /\ esp + 1 <= DataBase
      /\ Len(DataStack) >= 1
  BY <1>1, <1>2, Given, Obeyed, Shape, StackShape
<1>4. PICK result \in {0, 1, True} : Write(esp, 1, result) /\ eax' = result
  BY DEF DupEmit
<1>5. esi' = esi + 1 /\ UNCHANGED << prog, esp, ebp, mem, status >>
  BY DEF DupEmit
<1>6. PICK done \in 0 .. 1 :
             /\ result = done \/ (done = 0 /\ result = True)
             /\ out' = out \o [i \in 1 .. done |-> ByteAt(esp + i - 1)]
  BY <1>4 DEF Write
<1>7. ByteAt(esp) = First % 256 /\ ByteAt(esp) \in Bytes
  <2>1. esp \in Segment /\ esp \in esp .. DataBase - 1
    BY <1>3, Shape, Layout
  <2> QED
    BY <2>1, SameText DEF ByteAt, First
<1>8. CASE done = 0
  <2>1. [i \in 1 .. done |-> ByteAt(esp + i - 1)] = << >>
    BY <1>8
  <2>2. out' = out
    BY <1>6, <2>1, Shape, ConcatEmptySeq
  <2>3. Stacks' /\ DataStack' = DataStack /\ ReturnStack' = ReturnStack
    BY <1>5, <2>2, Shape, Moved
  <2>4. CASE result = 0
    <3>1. Outcome' = Outcome
      BY <1>1, <1>4, <1>5, <2>4, Onward, ZeroIsByte
    <3> QED
      BY <1>1, <1>3, <1>5, <2>2, <2>3, <3>1 DEF Machine!DupEmit
  <2>5. CASE result = True
    <3>1. Outcome' = "crashed"
      <4>1. ~(True < 256)
        BY Widths DEF True
      <4> QED
        BY <1>4, <2>5, <4>1 DEF Outcome, True
    <3>2. esi' \in Nat
      BY <1>1, <1>5, Looked
    <3>3. DataStack' \in Seq(Machine!Cells) /\ ReturnStack' \in Seq(Machine!Cells)
      BY <2>3, StackShape, SameArithmetic
    <3>4. Machine!Crash
      BY <1>5, <2>2, <3>1, <3>2, <3>3 DEF Machine!Crash
    <3> QED
      BY <1>1, <1>3, <2>3, <3>4 DEF Machine!DupEmit
  <2> QED
    BY <1>6, <1>8, <2>4, <2>5
<1>9. CASE done = 1
  <2>1. [i \in 1 .. done |-> ByteAt(esp + i - 1)] = << First % 256 >>
    <3>1. esp + 1 - 1 = esp
      BY Shape
    <3>2. [i \in 1 .. 1 |-> ByteAt(esp + i - 1)] = << ByteAt(esp + 1 - 1) >>
      OBVIOUS
    <3> QED
      BY <1>7, <1>9, <3>1, <3>2
  <2>2. out' = out \o << First % 256 >> /\ out' \in Seq(Bytes)
    <3>1. << First % 256 >> \in Seq(Bytes)
      BY <1>7
    <3>2. out \in Seq(Bytes)
      BY Shape
    <3>3. out' = out \o << First % 256 >>
      BY <1>6, <2>1, Zenon
    <3>4. out \o << First % 256 >> \in Seq(Bytes)
      BY <3>1, <3>2, Chained
    <3> QED
      BY <3>3, <3>4
  <2>3. Stacks' /\ DataStack' = DataStack /\ ReturnStack' = ReturnStack
    BY <1>5, <2>2, Shape, Moved
  <2>4. eax' = 1 /\ 1 \in Bytes
    BY <1>4, <1>6, <1>9 DEF Bytes
  <2>5. Outcome' = Outcome
    BY <1>1, <1>5, <2>4, Onward
  <2> QED
    BY <1>1, <1>3, <1>5, <2>2, <2>3, <2>5 DEF Machine!DupEmit
<1> QED
  BY <1>8, <1>9

-----------------------------------------------------------------------------
(* The refinement.                                                         *)

\* Only a failed write leads a disciplined program astray, and the machine has
\* crashed by then.
LEMMA WildStep ==
  ASSUME AbiInv, Stacks, Disciplined, Wild
  PROVE  Stacks' /\ UNCHANGED Machine!vars
<1>1. status = "run" /\ ~Fetched /\ Die("wild")
  BY DEF Wild
<1>2. ~(eax < 256)
  BY <1>1 DEF Disciplined
<1>3. Outcome = "crashed" /\ Outcome' = "crashed"
  BY <1>1, <1>2 DEF Outcome, Die, registers
<1>4. Stacks' /\ DataStack' = DataStack /\ ReturnStack' = ReturnStack
  BY <1>1, Shape, Moved DEF Die, registers
<1> QED
  BY <1>1, <1>3, <1>4 DEF Machine!vars, Die, registers

\* Nothing happens: nothing happens to the machine.
LEMMA IdleStep ==
  ASSUME Stacks, UNCHANGED vars
  PROVE  Stacks' /\ UNCHANGED Machine!vars
<1>1. Stacks' /\ DataStack' = DataStack /\ ReturnStack' = ReturnStack
  BY Shape, Moved DEF vars
<1>2. Outcome' = Outcome
  BY DEF Outcome, vars
<1> QED
  BY <1>1, <1>2 DEF Machine!vars, vars

\* A disciplined program does not use 0lt.
LEMMA NoZeroLt ==
  ASSUME AbiInv, Disciplined
  PROVE  ~ZeroLt
BY Obeyed DEF ZeroLt

\* Every step of the interpreter is a step of the machine, or none.
LEMMA RefinesStep ==
  AbiInv /\ Stacks /\ Disciplined /\ [Next]_vars
    => Stacks' /\ [Machine!Next]_(Machine!vars)
<1> SUFFICES ASSUME AbiInv, Stacks, Disciplined, [Next]_vars
             PROVE  Stacks' /\ (Machine!Next \/ UNCHANGED Machine!vars)
  OBVIOUS
<1>1. CASE Swap \/ Dup \/ Over \/ Drop \/ Rot
  BY <1>1, ShuffleStep DEF Machine!Next
<1>2. CASE Plus \/ NotWord \/ Not2 \/ AndWord \/ OrWord \/ Nor \/ Nand \/ Nand2 \/ ZeroNe
  BY <1>2, ArithmeticStep DEF Machine!Next
<1>3. CASE DivMod
  BY <1>3, DivModStep DEF Machine!Next
<1>4. CASE Lit8 \/ Lit32 \/ String2 \/ SpAt \/ RpAt
  BY <1>4, LiteralStep DEF Machine!Next
<1>5. CASE Fetch
  BY <1>5, FetchStep DEF Machine!Next
<1>6. CASE Store
  BY <1>6, StoreStep DEF Machine!Next
<1>7. CASE Branch \/ ZBranch
  BY <1>7, JumpStep DEF Machine!Next
<1>8. CASE RsPush
  BY <1>8, RsPushStep DEF Machine!Next
<1>9. CASE While2
  BY <1>9, While2Step DEF Machine!Next
<1>10. CASE RDrop
  BY <1>10, RDropStep DEF Machine!Next
<1>11. CASE Docol
  BY <1>11, CallStep DEF Machine!Next
<1>12. CASE Exit
  BY <1>12, ReturnStep DEF Machine!Next
<1>13. CASE Syscall3
  BY <1>13, SyscallStep DEF Machine!Next
<1>14. CASE DupEmit
  BY <1>14, EmitStep DEF Machine!Next
<1>15. CASE Wild
  BY <1>15, WildStep
<1>16. CASE UNCHANGED vars
  BY <1>16, IdleStep
<1> QED
  BY <1>1, <1>2, <1>3, <1>4, <1>5, <1>6, <1>7, <1>8, <1>9, <1>10, <1>11, <1>12,
     <1>13, <1>14, <1>15, <1>16, NoZeroLt DEF Next

\* Both start alike.
LEMMA RefinesInit ==
  Init => Stacks /\ Machine!Init
<1> SUFFICES ASSUME Init
             PROVE  Stacks /\ Machine!Init
  OBVIOUS
<1>1. /\ prog \in Programs /\ esi = FORTH /\ esp = DataBase /\ ebp = ReturnBase
      /\ eax = 0 /\ out = << >> /\ status = "run"
      /\ mem = [a \in Segment |-> IF a = ReturnBase - 1 THEN FORTH ELSE 0]
  BY DEF Init
<1>2. FORTH \in Cells /\ 0 \in Cells
  <2>1. FORTH \in Nat /\ FORTH <= CodeEnd(prog)
    BY <1>1, DictionaryBytes, LayoutAssumption, LenProperties DEF CodeEnd
  <2> QED
    BY <1>1, <2>1, CodeEndRange, Layout, Widths
<1>3. mem \in [Segment -> Cells]
  BY <1>1, <1>2
<1>4. Stacks
  <2>1. << >> \in Seq(Bytes)
    OBVIOUS
  <2> QED
    BY <1>1, <1>3, <2>1, Layout DEF Stacks
<1>5. DataStack = << >> /\ ReturnStack = << >>
  <2>1. Len(DataStack) = 0 /\ DataStack \in Seq(Cells)
        /\ Len(ReturnStack) = 0 /\ ReturnStack \in Seq(Cells)
    BY <1>1, <1>4, StackShape, Layout
  <2> QED
    BY <2>1, EmptySeq
<1>6. Outcome = "run"
  BY <1>1 DEF Outcome
<1> QED
  BY <1>1, <1>4, <1>5, <1>6, SameDictionary DEF Machine!Init

\* Whatever the words do to registers and memory, each is a step of the Forth
\* machine (ImplementsForth): for every program that keeps within its stacks, its
\* code and its text, as Disciplined says, and whatever write answers.
THEOREM RefinesForth == Spec /\ []Disciplined => ImplementsForth
<1>1. Init => AbiInv /\ Stacks /\ Machine!Init
  BY AbiInit, RefinesInit
<1>2. AbiInv /\ Stacks /\ Disciplined /\ [Next]_vars
        => AbiInv' /\ Stacks' /\ [Machine!Next]_(Machine!vars)
  BY AbiStep, RefinesStep
<1> QED
  BY <1>1, <1>2, PTL DEF Spec, ImplementsForth, Machine!Spec
=============================================================================
