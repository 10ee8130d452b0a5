--------------------------- MODULE RegTrackProofs ---------------------------
(***************************************************************************)
(* Theorems about RegTrack, for every byte size Q, every set of operands   *)
(* the tracker does not mistake, every argument list and both settings of  *)
(* REG_SEARCH.  The argument: if what is tracked agrees with the           *)
(* registers, the instructions chosen by `set' deliver the operand (one    *)
(* lemma per family of idioms); hence every macro leaves a record that     *)
(* agrees again.                                                           *)
(***************************************************************************)
EXTENDS RegTrack, TLAPS

-----------------------------------------------------------------------------
(* Arithmetic.                                                             *)

\* A number below the divisor is its own remainder.
LEMMA ModSmall ==
  \A q \in Nat \ {0} : \A x \in 0 .. q - 1 : x % q = x /\ x \div q = 0
BY Z3

\* Quotient and remainder give the number back.
LEMMA DivMod ==
  \A q \in Nat \ {0} : \A x \in Int :
    /\ x = q * (x \div q) + (x % q)
    /\ x % q \in 0 .. q - 1
    /\ x \div q \in Int
BY Z3

\* There is only one way to write x with a quotient and a remainder by q.
OnlyForm(q, a, b, x) ==
  (q \in Nat \ {0} /\ a \in Int /\ b \in 0 .. q - 1 /\ x = q * a + b)
    => (x % q = b /\ x \div q = a)

LEMMA DivUnique == \A q, a, b, x : OnlyForm(q, a, b, x)
<1> SUFFICES ASSUME NEW q \in Nat \ {0}, NEW a \in Int, NEW b \in 0 .. q - 1
             PROVE  (q * a + b) % q = b /\ (q * a + b) \div q = a
  BY DEF OnlyForm
<1> QED
  BY Z3

\* The sizes of the parts of a word, relative to each other.
LEMMA Scales ==
  /\ Q \in Nat /\ Q >= 4
  /\ Q2 \in Nat /\ Q2 = Q * Q /\ Q2 >= 4 * Q
  /\ Q3 \in Nat /\ Q3 = Q * Q2 /\ Q3 >= 4 * Q2
  /\ M \in Nat /\ M = Q * Q3 /\ M = Q2 * Q2 /\ M >= 4 * Q3
  /\ Half \in Nat /\ M = 2 * Half /\ Half >= 2 * Q3
  /\ Q \div 2 \in Nat /\ Q = 2 * (Q \div 2)
  /\ Half = Q3 * (Q \div 2)
<1>1. Q \in Nat /\ Q >= 4 /\ Q \div 2 \in Nat /\ Q = 2 * (Q \div 2)
  BY QAssumption
<1>2. Q2 \in Nat /\ Q2 = Q * Q /\ Q2 >= 4 * Q
  BY <1>1 DEF Q2
<1>3. Q3 \in Nat /\ Q3 = Q * Q2 /\ Q3 >= 4 * Q2
  BY <1>1, <1>2 DEF Q3
<1>4. M \in Nat /\ M = Q2 * Q2
  BY <1>2 DEF M
<1>5. M = Q * Q3
  BY <1>1, <1>2, <1>3, <1>4
<1>6. M >= 4 * Q3
  BY <1>1, <1>3, <1>5
<1>7. Half = Q3 * (Q \div 2)
  BY <1>1, <1>2, <1>3 DEF Half
<1>8. Half \in Nat /\ Half >= 2 * Q3
  BY <1>1, <1>3, <1>7
<1>9. M = 2 * Half
  BY <1>1, <1>3, <1>5, <1>7
<1>10. QED
  BY <1>1, <1>2, <1>3, <1>4, <1>5, <1>6, <1>7, <1>8, <1>9

\* The operands for which the tracker is sound.
LegalNum(n) == n \in Operands \/ n \in 0 .. M - 2

\* int32 of a legal operand.
LEMMA Forms ==
  ASSUME NEW n \in -Half .. M - 2
  PROVE  /\ n >= 0 => Uint32(n) = n /\ Word(n) = n
         /\ n < 0 => Uint32(n) = M - n /\ Word(n) = M + n
         /\ n >= Half => Sint32(n) = n - M
         /\ n < Half => Sint32(n) = n
         /\ Word(n) \in Words
<1> USE Scales
<1>1. CASE n >= 0
  <2>1. n % (M - 1) = n /\ n % M = n
    BY <1>1, ModSmall
  <2>2. ASSUME n >= Half PROVE Sint32(n) = n - M
    <3>1. M * M - n \in Int /\ M * M - n = (M - 1) * M + (M - n)
      OBVIOUS
    <3>2. M - 1 \in Nat \ {0} /\ M - n \in 0 .. (M - 1) - 1
      BY <2>2
    <3>3. (M * M - n) % (M - 1) = M - n
      BY <3>1, <3>2, OnlyForm(M - 1, M, M - n, M * M - n), DivUnique
         DEF OnlyForm
    <3>4. QED
      BY <2>2, <3>3 DEF Sint32
  <2>3. QED
    BY <1>1, <2>1, <2>2 DEF Uint32, Sint32, Word, Words
<1>2. CASE n < 0
  <2>1. n \in Int /\ n = M * (-1) + (M + n) /\ M + n \in 0 .. M - 1
    BY <1>2
  <2>2. n % M = M + n
    BY <2>1, OnlyForm(M, -1, M + n, n), DivUnique DEF OnlyForm
  <2>3. QED
    BY <1>2, <2>1, <2>2 DEF Uint32, Sint32, Word, Words
<1>3. QED
  BY <1>1, <1>2

-----------------------------------------------------------------------------
(* Partial writes: what mov, dec, ror and bswap leave in a word.           *)

\* Writing the low byte of a word below a byte.
LEMMA LowByte ==
  ASSUME NEW w \in 0 .. Q - 1, NEW n \in 0 .. Q - 1
  PROVE  MovLow(w, n) = n
BY Scales, ModSmall, Q \in Nat \ {0} DEF MovLow

\* Writing the low 16 bits of a word below 16 bits.
LEMMA LowHalf ==
  ASSUME NEW w \in 0 .. Q2 - 1, NEW n \in 0 .. Q2 - 1
  PROVE  Mov16(w, n) = n
BY Scales, ModSmall, Q2 \in Nat \ {0} DEF Mov16

\* A multiple of the divisor is the divisor times its quotient, and the
\* quotient is bounded like the multiple.
LEMMA Multiple ==
  ASSUME NEW q \in Nat \ {0}, NEW p \in Nat \ {0}, NEW n \in 0 .. q * p - 1,
         n % q = 0
  PROVE  n \div q \in 0 .. p - 1 /\ n = q * (n \div q)
<1>1. n = q * (n \div q) /\ n \div q \in Int
  BY DivMod
<1>2. n \div q >= 0
  BY <1>1, Z3
<1>3. n \div q < p
  <2>1. SUFFICES ASSUME n \div q >= p PROVE FALSE
    BY <1>1
  <2>2. q * (n \div q) >= q * p
    BY <1>1, <2>1, Z3
  <2>3. QED
    BY <1>1, <2>2
<1>4. QED
  BY <1>1, <1>2, <1>3

\* A high byte moved into a cleared register.
LEMMA HighByte ==
  ASSUME NEW n \in Q .. Q2 - 1, n % Q = 0
  PROVE  MovHigh(0, NasmDiv(n, Q)) = n
<1> USE Scales
<1>1. n \div Q \in 0 .. Q - 1 /\ n = Q * (n \div Q)
  BY Multiple, Q \in Nat \ {0}, n \in 0 .. Q * Q - 1
<1>2. (n \div Q) % Q = n \div Q
  BY <1>1, ModSmall, Q \in Nat \ {0}
<1>3. 0 % Q2 = 0 /\ 0 % Q = 0
  BY ModSmall, Q \in Nat \ {0}, Q2 \in Nat \ {0}
<1>4. QED
  BY <1>1, <1>2, <1>3 DEF MovHigh, NasmDiv

\* The 16-bit decrement of a cleared register.
LEMMA AllOnes16 == Dec16(0) = Q2 - 1
BY Scales, ModSmall, Q2 \in Nat \ {0} DEF Dec16

\* bswap of a word of one byte moves it to the top.
LEMMA SwapLow ==
  ASSUME NEW k \in 0 .. Q - 1
  PROVE  Bswap(k) = k * Q3
<1> USE Scales
<1>1. k % Q = k /\ k \div Q = 0 /\ k \div Q2 = 0 /\ k \div Q3 = 0 /\ 0 % Q = 0
  BY ModSmall, Q \in Nat \ {0}, Q2 \in Nat \ {0}, Q3 \in Nat \ {0}
<1>2. Bswap(k) = (k * Q3) + (0 * Q2) + (0 * Q) + 0
  BY <1>1, Zenon DEF Bswap
<1>3. k * Q3 \in Int /\ 0 * Q2 = 0 /\ 0 * Q = 0
  OBVIOUS
<1>4. QED
  BY <1>2, <1>3

\* bswap of a word of two bytes moves them to the top, exchanged.
LEMMA SwapHigh ==
  ASSUME NEW k \in 0 .. Q - 1, NEW l \in 0 .. Q - 1
  PROVE  Bswap(Q * k + l) = l * Q3 + k * Q2
<1> USE Scales
<1>1. (Q * k + l) % Q = l /\ (Q * k + l) \div Q = k
  BY OnlyForm(Q, k, l, Q * k + l), DivUnique DEF OnlyForm
<1>2. Q * k + l \in 0 .. Q2 - 1
  BY Z3
<1>3. k % Q = k /\ 0 % Q = 0
  BY ModSmall, Q \in Nat \ {0}
<1>4. (Q * k + l) \div Q2 = 0 /\ (Q * k + l) \div Q3 = 0
  BY <1>2, ModSmall, Q2 \in Nat \ {0}, Q3 \in Nat \ {0}
<1>5. Bswap(Q * k + l) = (l * Q3) + (k * Q2) + (0 * Q) + 0
  BY <1>1, <1>3, <1>4, Zenon DEF Bswap
<1>6. l * Q3 \in Int /\ k * Q2 \in Int /\ 0 * Q = 0
  OBVIOUS
<1>7. QED
  BY <1>5, <1>6

-----------------------------------------------------------------------------
(* `set' from a register that holds 0 (setfz).                             *)

\* The highest byte: mov to the low one, then bswap.
LEMMA HighestByte ==
  ASSUME NEW n \in 0 .. M - 2, n % Q3 = 0
  PROVE  Bswap(MovLow(0, NasmDiv(n, Q3))) = Word(n)
<1>q. Q \in Nat \ {0} /\ Q3 \in Nat \ {0} /\ n \in 0 .. Q3 * Q - 1 /\ M \in Nat
  BY Scales
<1>1. n \div Q3 \in 0 .. Q - 1 /\ n = Q3 * (n \div Q3)
  BY <1>q, Multiple
<1>2. (n \div Q3) % Q = n \div Q3 /\ 0 % Q = 0
  BY <1>1, <1>q, ModSmall
<1>3. MovLow(0, NasmDiv(n, Q3)) = n \div Q3
  BY <1>q, <1>1, <1>2 DEF MovLow, NasmDiv
<1>4. Bswap(n \div Q3) = (n \div Q3) * Q3
  BY <1>1, SwapLow
<1>5. Word(n) = n
  BY Forms, Scales
<1>6. QED
  BY <1>q, <1>1, <1>3, <1>4, <1>5

\* The same for a negative operand: its quotient is taken on 64 bits, and mov
\* keeps the low byte of that.
LEMMA HighestByteOfNegative ==
  ASSUME NEW n \in -Half .. -1, (M - n) % Q3 = 0
  PROVE  Bswap(MovLow(0, NasmDiv(n, Q3))) = Word(n)
<1> DEFINE k == (M - n) \div Q3
           l == (Q + Q) - k
<1>q. Q \in Nat \ {0} /\ Q3 \in Nat \ {0} /\ M \in Nat
  BY Scales
<1>1. M - n = Q3 * k /\ k \in Int
  <2> DEFINE x == M - n
  <2>1. x \in Int
    BY Scales
  <2> HIDE DEF x
  <2>2. x = Q3 * (x \div Q3) + (x % Q3) /\ x \div Q3 \in Int
    BY <1>q, <2>1, DivMod
  <2>3. QED
    BY <1>q, <2>2 DEF x
<1> HIDE DEF k
<1>2. k > Q /\ k <= Q + (Q \div 2)
  <2>1. Q3 * k > Q3 * Q /\ Q3 * k <= Q3 * (Q + (Q \div 2))
    BY <1>1, Scales
  <2>2. QED
    BY <1>q, <1>1, <2>1, Z3, Scales
<1>3. l \in 0 .. Q - 1
  BY <1>1, <1>2, Scales
<1>4. M * M + n \in Int /\ M * M + n = Q3 * (M * Q + (Q - k)) + 0
  <2>1. n = Q3 * (Q - k)
    BY <1>1, Scales
  <2>2. M * M = Q3 * (M * Q)
    BY Scales
  <2>3. QED
    BY <1>q, <1>1, <2>1, <2>2
<1>5. (M * M + n) \div Q3 = M * Q + (Q - k)
  <2>1. M * Q + (Q - k) \in Int /\ 0 \in 0 .. Q3 - 1
    BY <1>1, <1>q
  <2>2. QED
    BY <1>q, <1>4, <2>1, DivUnique,
       OnlyForm(Q3, M * Q + (Q - k), 0, M * M + n) DEF OnlyForm
<1>6. (M * Q + (Q - k)) % Q = l
  <2>1. /\ M * Q + (Q - k) \in Int
        /\ M * Q + (Q - k) = Q * (M - 1) + l
        /\ M - 1 \in Int
    BY <1>1, <1>q
  <2>2. QED
    BY <1>q, <1>3, <2>1, DivUnique, ZenonT(60),
       OnlyForm(Q, M - 1, l, M * Q + (Q - k)) DEF OnlyForm
<1>7. 0 % Q = 0
  BY <1>q, ModSmall
<1>8. MovLow(0, NasmDiv(n, Q3)) = l
  BY <1>q, <1>3, <1>5, <1>6, <1>7, Scales DEF MovLow, NasmDiv
<1>9. Bswap(l) = l * Q3
  BY <1>3, SwapLow
<1>10. l * Q3 = M + n
  BY <1>1, Scales
<1>11. Word(n) = M + n
  BY Forms, Scales
<1>12. QED
  BY <1>8, <1>9, <1>10, <1>11

\* The second highest byte: mov to the high one, then bswap.
LEMMA SecondHighestByte ==
  ASSUME NEW n \in 0 .. M - 2, n % Q2 = 0, n <= (Q - 1) * Q2
  PROVE  Bswap(MovHigh(0, NasmDiv(n, Q2))) = Word(n)
<1> DEFINE k == n \div Q2
<1>q. Q \in Nat \ {0} /\ Q2 \in Nat \ {0} /\ n \in 0 .. Q2 * Q - 1
  BY Scales
<1>1. k \in 0 .. Q - 1 /\ n = Q2 * k
  BY <1>q, Multiple
<1>2. k % Q = k /\ 0 % Q2 = 0 /\ 0 % Q = 0
  BY <1>1, <1>q, ModSmall
<1>3. MovHigh(0, NasmDiv(n, Q2)) = Q * k + 0
  <2>1. MovHigh(0, k) = (0 - 0) + (k * Q) + 0
    BY <1>2, Zenon DEF MovHigh
  <2>2. NasmDiv(n, Q2) = k
    BY DEF NasmDiv
  <2>3. QED
    BY <1>q, <1>1, <2>1, <2>2
<1>4. Bswap(Q * k + 0) = 0 * Q3 + k * Q2
  BY <1>q, <1>1, SwapHigh, 0 \in 0 .. Q - 1
<1>5. Word(n) = n
  BY Forms, Scales
<1>6. QED
  BY <1>1, <1>3, <1>4, <1>5, Scales

\* dec and mov to the low byte: the small negative numbers.
LEMMA MinusByte ==
  ASSUME NEW n \in -Half .. M - 2, Sint32(n) < 0, Sint32(n) >= -Q
  PROVE  MovLow(Dec(0), n) = Word(n)
<1>q. Q \in Nat \ {0} /\ M \in Nat \ {0} /\ Q3 \in Nat
  BY Scales
<1>1. Dec(0) = M - 1
  BY <1>q, ModSmall DEF Dec
<1>2. (M - 1) % Q = Q - 1
  <2>1. M - 1 = Q * (Q3 - 1) + (Q - 1)
    BY Scales
  <2>2. QED
    BY <2>1, <1>q, DivUnique, OnlyForm(Q, Q3 - 1, Q - 1, M - 1) DEF OnlyForm
<1>3. CASE n < 0
  <2>1. n \in Int /\ n = Q * (-1) + (n + Q) /\ n + Q \in 0 .. Q - 1
    BY <1>3, Forms, Scales
  <2>2. n % Q = n + Q
    BY <2>1, <1>q, DivUnique, OnlyForm(Q, -1, n + Q, n) DEF OnlyForm
  <2>3. QED
    BY <1>1, <1>2, <1>3, <2>2, Forms, Scales DEF MovLow
<1>4. CASE n >= 0
  <2>1. n \in Int /\ n - (M - Q) \in 0 .. Q - 1
    BY <1>4, Forms, Scales
  <2>2. n = Q * (Q3 - 1) + (n - (M - Q))
    BY Scales
  <2>3. n % Q = n - (M - Q)
    BY <2>1, <2>2, <1>q, DivUnique, OnlyForm(Q, Q3 - 1, n - (M - Q), n)
       DEF OnlyForm
  <2>4. QED
    BY <1>1, <1>2, <1>4, <2>3, Forms, Scales DEF MovLow
<1>5. QED
  BY <1>3, <1>4, Scales

\* setfz: every idiom for a register that holds 0 delivers the operand.
LEMMA FromZeroDelivers ==
  ASSUME NEW r \in AllRegs, NEW n \in -Half .. M - 2, n # 0,
         NEW v, NEW g, g[r] = 0
  PROVE  Effect(FromZeroIdiom(r, n), v, g, r, n) = Word(n)
<1> DEFINE u == Uint32(n)
           idiom == FromZeroIdiom(r, n)
<1>s. /\ n \in Int /\ n \in -Half .. M - 2
      /\ Q \in Nat \ {0} /\ Q2 \in Nat \ {0} /\ Q3 \in Nat \ {0}
      /\ M \in Nat \ {0} /\ Half \in Nat
      /\ Q >= 4 /\ Q2 >= 4 * Q /\ Q3 >= 4 * Q2 /\ M >= 4 * Q3
      /\ Half >= 2 * Q3 /\ M = 2 * Half
  BY Scales
<1>w. /\ n >= 0 => u = n /\ Word(n) = n
      /\ n < 0 => u = M - n /\ Word(n) = M + n
      /\ n >= Half => Sint32(n) = n - M
      /\ n < Half => Sint32(n) = n
  BY Forms
<1> HIDE DEF u
<1>1. CASE idiom = "inc"
  <2>1. n = 1
    BY <1>1 DEF FromZeroIdiom
  <2>2. Inc(0) = 1
    BY <1>s, ModSmall DEF Inc
  <2>3. QED
    BY <1>1, <1>w, <2>1, <2>2 DEF Effect
<1>2. CASE idiom = "dec"
  <2>1. Sint32(n) = -1
    BY <1>2 DEF FromZeroIdiom
  <2>2. Dec(0) = M - 1 /\ n = -1
    BY <1>s, <1>w, <2>1, ModSmall DEF Dec
  <2>3. QED
    BY <1>2, <1>w, <1>s, <2>2 DEF Effect
<1>3. CASE idiom = "mov_low"
  <2>1. u < Q
    BY <1>3 DEF FromZeroIdiom, u
  <2>2. n \in 0 .. Q - 1 /\ 0 \in 0 .. Q - 1
    BY <1>s, <1>w, <2>1
  <2>3. QED
    BY <1>3, <1>w, <2>2, LowByte DEF Effect
<1>4. CASE idiom = "mov_high"
  <2>1. u % Q = 0 /\ u >= Q /\ u < Q2
    BY <1>4 DEF FromZeroIdiom, u
  <2>2. n \in Q .. Q2 - 1 /\ n % Q = 0
    BY <1>s, <1>w, <2>1
  <2>3. QED
    BY <1>4, <1>s, <1>w, <2>2, HighByte DEF Effect
<1>5. CASE idiom = "dec16"
  <2>1. u = Q2 - 1
    BY <1>5 DEF FromZeroIdiom, u
  <2>2. n = Q2 - 1 /\ n >= 0
    BY <1>s, <1>w, <2>1
  <2>3. QED
    BY <1>5, <1>w, <2>2, AllOnes16 DEF Effect
<1>6. CASE idiom = "lea_self"
  BY <1>6, <1>s DEF Effect
<1>7. CASE idiom = "dec_mov_low"
  <2>1. Sint32(n) < 0 /\ Sint32(n) >= -Q
    BY <1>7 DEF FromZeroIdiom
  <2>2. QED
    BY <1>7, <2>1, MinusByte DEF Effect
<1>8. CASE idiom = "dec16_inc"
  <2>1. u = Q2
    BY <1>8 DEF FromZeroIdiom, u
  <2>2. n = Q2 /\ n >= 0
    BY <1>s, <1>w, <2>1
  <2>3. Inc(Q2 - 1) = Q2
    BY <1>s, ModSmall DEF Inc
  <2>4. QED
    BY <1>8, <1>w, <2>2, <2>3, AllOnes16 DEF Effect
<1>9. CASE idiom = "inc_bswap"
  <2>1. u = Q3
    BY <1>9 DEF FromZeroIdiom, u
  <2>2. n = Q3 /\ n >= 0
    BY <1>s, <1>w, <2>1
  <2>3. Inc(0) = 1 /\ 1 \in 0 .. Q - 1
    BY <1>s, ModSmall DEF Inc
  <2>4. QED
    BY <1>9, <1>s, <1>w, <2>2, <2>3, SwapLow DEF Effect
<1>10. CASE idiom = "inc_ror"
  <2>1. u = Half
    BY <1>10 DEF FromZeroIdiom, u
  <2>2. n = Half /\ n >= 0
    BY <1>s, <1>w, <2>1
  <2>3. Inc(0) = 1
    BY <1>s, ModSmall DEF Inc
  <2>4. Ror1(1) = Half
    BY <1>s DEF Ror1
  <2>5. QED
    BY <1>10, <1>w, <2>2, <2>3, <2>4 DEF Effect
<1>11. CASE idiom = "mov16"
  <2>1. u < Q2
    BY <1>11 DEF FromZeroIdiom, u
  <2>2. n \in 0 .. Q2 - 1 /\ 0 \in 0 .. Q2 - 1
    BY <1>s, <1>w, <2>1
  <2>3. QED
    BY <1>11, <1>w, <2>2, LowHalf DEF Effect
<1>12. CASE idiom = "mov_low_bswap"
  <2>1. u % Q3 = 0
    BY <1>12 DEF FromZeroIdiom, u
  <2>2. n >= 0 => Bswap(MovLow(0, NasmDiv(n, Q3))) = Word(n)
    BY <1>s, <1>w, <2>1, HighestByte
  <2>3. n < 0 => Bswap(MovLow(0, NasmDiv(n, Q3))) = Word(n)
    BY <1>s, <1>w, <2>1, HighestByteOfNegative
  <2>4. QED
    BY <1>12, <1>s, <2>2, <2>3 DEF Effect
<1>13. CASE idiom = "mov_high_bswap"
  <2>1. u % Q2 = 0 /\ u <= (Q - 1) * Q2
    BY <1>13 DEF FromZeroIdiom, u
  <2>2. (Q - 1) * Q2 < M
    BY Scales
  <2>3. n \in 0 .. M - 2 /\ n % Q2 = 0 /\ n <= (Q - 1) * Q2
    BY <1>s, <1>w, <2>1, <2>2
  <2>4. QED
    BY <1>13, <2>3, SecondHighestByte DEF Effect
<1>14. CASE idiom = "inc_shl"
  <2>1. PowerOfTwo(u)
    BY <1>14 DEF FromZeroIdiom, u
  <2>2. n >= 0
    BY <1>s, <1>w, <2>1, WidthAssumption, n < 0 => -n \in 1 .. Half /\ M - n = M + (-n)
  <2>3. Inc(0) = 1 /\ 1 * u = u /\ u % M = Word(n)
    BY <1>s, <1>w, <2>2, ModSmall DEF Inc, Word
  <2>4. QED
    BY <1>14, <2>3 DEF Effect, u
<1>15. CASE idiom = "dec16_bswap"
  <2>1. u = M - Q2
    BY <1>15 DEF FromZeroIdiom, u
  <2>2. n = M - Q2 /\ n >= 0
    BY <1>s, <1>w, <2>1
  <2>3. Q2 - 1 = Q * (Q - 1) + (Q - 1)
    BY Scales
  <2>4. Bswap(Q2 - 1) = (Q - 1) * Q3 + (Q - 1) * Q2
    BY <1>s, <2>3, SwapHigh, Q - 1 \in 0 .. Q - 1
  <2>5. (Q - 1) * Q3 + (Q - 1) * Q2 = M - Q2
    BY Scales
  <2>6. QED
    BY <1>15, <1>w, <2>2, <2>4, <2>5, AllOnes16 DEF Effect
<1>16. CASE idiom = "mov"
  BY <1>16 DEF Effect
<1>17. QED
  BY <1>1, <1>2, <1>3, <1>4, <1>5, <1>6, <1>7, <1>8, <1>9, <1>10, <1>11,
     <1>12, <1>13, <1>14, <1>15, <1>16 DEF FromZeroIdiom

-----------------------------------------------------------------------------
(* What a sound record says of a word.                                     *)

Tags == NotMinus .. M + Half

\* The record v is sound for the registers g.
Matches(v, g) ==
  /\ v \in [AllRegs -> Tags]
  /\ g \in [AllRegs -> Words]
  /\ \A r \in AllRegs : Agrees(v[r], g[r])

\* A non-negative record is the word itself, or stands for one operand.
LEMMA KnownWord ==
  ASSUME NEW t, NEW w, Agrees(t, w), NEW n \in -Half .. M - 2, t = Uint32(n)
  PROVE  w = Word(n)
<1>s. M \in Nat /\ Half \in Nat
  BY Scales
<1>1. CASE n >= 0
  BY <1>s, <1>1, Forms DEF Agrees
<1>2. CASE n < 0
  <2>1. t = M - n /\ t >= M
    BY <1>s, <1>2, Forms
  <2>2. PICK m \in Operands : m < 0 /\ t = Uint32(m) /\ w = Word(m)
    BY <1>s, <2>1 DEF Agrees
  <2>3. m \in Int /\ Uint32(m) = M - m
    BY <1>s, <2>2, OperandsAssumption DEF Uint32
  <2>4. m = n
    BY <1>s, <2>1, <2>2, <2>3
  <2>5. QED
    BY <2>2, <2>4
<1>3. QED
  BY <1>s, <1>1, <1>2

LEMMA KnownZero ==
  ASSUME NEW w, Agrees(0, w)
  PROVE  w = 0
BY Scales DEF Agrees

\* A register of one byte, of two, or without a sign, is what rget says.
LEMMA Bounds ==
  ASSUME NEW t \in Tags, NEW w \in Words, Agrees(t, w)
  PROVE  /\ Is8bit(t) => w \in 0 .. Q - 1
         /\ Is16bit(t) => w \in 0 .. Q2 - 1
         /\ NotNeg(t) => w < Half
<1>s. /\ Q \in Nat /\ Q2 \in Nat /\ M \in Nat /\ Half \in Nat
      /\ Q < Q2 /\ Q2 < Half /\ Half < M
  BY Scales
<1>1. Is8bit(t) => w \in 0 .. Q - 1
  BY <1>s DEF Is8bit, Defined, Agrees, Words, Tags, Byte, NotMinus
<1>2. Is16bit(t) => w \in 0 .. Q2 - 1
  BY <1>s, <1>1 DEF Is16bit, Defined, Agrees, Words, Tags, Short, NotMinus
<1>3. NotNeg(t) => w < Half
  BY <1>s, <1>2 DEF NotNeg, Defined, Agrees, Words, Tags, NotMinus
<1>4. QED
  BY <1>1, <1>2, <1>3

\* A single `zero r' leaves 0.
LEMMA ClearedIsZero ==
  ASSUME NEW v, NEW g, Matches(v, g), NEW r
  PROVE  Cleared(v, g, r) = 0
<1>1. CASE r = "edx" /\ NotNeg(v["eax"])
  <2>1. "eax" \in AllRegs
    BY DEF AllRegs
  <2>2. v["eax"] \in Tags /\ g["eax"] \in Words /\ Agrees(v["eax"], g["eax"])
    BY <2>1 DEF Matches
  <2>3. g["eax"] < Half
    BY <1>1, <2>2, Bounds
  <2>4. SignWord(g["eax"]) = 0
    BY <2>2, <2>3, Scales DEF SignWord, Words
  <2>5. QED
    BY <1>1, <2>4 DEF Cleared
<1>2. CASE ~(r = "edx" /\ NotNeg(v["eax"]))
  BY <1>2 DEF Cleared
<1>3. QED
  BY <1>1, <1>2

\* A non-empty set of positions has a first and a last one.
LEMMA Extremes ==
  ASSUME NEW S \in SUBSET (1 .. 8), S # {}
  PROVE  /\ \E i \in S : \A j \in S : j <= i
         /\ \E i \in S : \A j \in S : i <= j
<1>1. \A i \in S : i \in 1 .. 8
  OBVIOUS
<1>2. \E k \in S : k \in {1, 2, 3, 4, 5, 6, 7, 8}
  <2>1. PICK k \in S : TRUE
    OBVIOUS
  <2>2. k \in 1 .. 8
    BY <1>1
  <2>3. k \in {1, 2, 3, 4, 5, 6, 7, 8}
    BY <2>2
  <2>4. QED
    BY <2>3
<1>3. ASSUME \A i \in S : \E j \in S : ~(j <= i) PROVE FALSE
  <2>1. 8 \notin S
    BY <1>1, <1>3
  <2>2. 7 \notin S
    BY <1>1, <1>3, <2>1
  <2>3. 6 \notin S
    BY <1>1, <1>3, <2>1, <2>2
  <2>4. 5 \notin S
    BY <1>1, <1>3, <2>1, <2>2, <2>3
  <2>5. 4 \notin S
    BY <1>1, <1>3, <2>1, <2>2, <2>3, <2>4
  <2>6. 3 \notin S
    BY <1>1, <1>3, <2>1, <2>2, <2>3, <2>4, <2>5
  <2>7. 2 \notin S
    BY <1>1, <1>3, <2>1, <2>2, <2>3, <2>4, <2>5, <2>6
  <2>8. 1 \notin S
    BY <1>1, <1>3, <2>1, <2>2, <2>3, <2>4, <2>5, <2>6, <2>7
  <2>9. QED
    BY <1>2, <2>1, <2>2, <2>3, <2>4, <2>5, <2>6, <2>7, <2>8
<1>4. ASSUME \A i \in S : \E j \in S : ~(i <= j) PROVE FALSE
  <2>1. 1 \notin S
    BY <1>1, <1>4
  <2>2. 2 \notin S
    BY <1>1, <1>4, <2>1
  <2>3. 3 \notin S
    BY <1>1, <1>4, <2>1, <2>2
  <2>4. 4 \notin S
    BY <1>1, <1>4, <2>1, <2>2, <2>3
  <2>5. 5 \notin S
    BY <1>1, <1>4, <2>1, <2>2, <2>3, <2>4
  <2>6. 6 \notin S
    BY <1>1, <1>4, <2>1, <2>2, <2>3, <2>4, <2>5
  <2>7. 7 \notin S
    BY <1>1, <1>4, <2>1, <2>2, <2>3, <2>4, <2>5, <2>6
  <2>8. 8 \notin S
    BY <1>1, <1>4, <2>1, <2>2, <2>3, <2>4, <2>5, <2>6, <2>7
  <2>9. QED
    BY <1>2, <2>1, <2>2, <2>3, <2>4, <2>5, <2>6, <2>7, <2>8
<1>5. QED
  BY <1>3, <1>4

\* Both orders list registers.
LEMMA Orders ==
  \A i \in 1 .. 8 : SearchOrder[i] \in AllRegs /\ ZeroOrder[i] \in AllRegs
<1> SUFFICES ASSUME NEW i \in 1 .. 8
             PROVE  SearchOrder[i] \in AllRegs /\ ZeroOrder[i] \in AllRegs
  OBVIOUS
<1>1. i = 1 \/ i = 2 \/ i = 3 \/ i = 4 \/ i = 5 \/ i = 6 \/ i = 7 \/ i = 8
  OBVIOUS
<1>2. QED
  BY <1>1 DEF SearchOrder, ZeroOrder, AllRegs

\* A register that reg_search finds holds what was looked for.
LEMMA SearchFinds ==
  ASSUME NEW v, NEW t, SearchMatch(v, t) # "none"
  PROVE  SearchMatch(v, t) \in AllRegs /\ v[SearchMatch(v, t)] = t
<1> DEFINE found == {i \in 1 .. 8 : v[SearchOrder[i]] = t}
           last == CHOOSE i \in found : \A j \in found : j <= i
<1>1. found \in SUBSET (1 .. 8) /\ found # {}
  BY DEF SearchMatch
<1>2. SearchMatch(v, t) = SearchOrder[last]
  BY <1>1 DEF SearchMatch
<1>3. last \in found
  <2>1. \E i \in found : \A j \in found : j <= i
    BY <1>1, Extremes
  <2>2. QED
    BY <2>1
<1>4. v[SearchOrder[last]] = t /\ last \in 1 .. 8
  BY <1>3
<1>5. SearchOrder[last] \in AllRegs
  BY <1>4, Orders
<1>6. QED
  BY <1>2, <1>4, <1>5

LEMMA ZeroFinds ==
  ASSUME NEW v, FindZero(v) # "none"
  PROVE  FindZero(v) \in AllRegs /\ v[FindZero(v)] = 0
<1> DEFINE found == {i \in 1 .. 8 : v[ZeroOrder[i]] = 0}
           first == CHOOSE i \in found : \A j \in found : i <= j
<1>1. found \in SUBSET (1 .. 8) /\ found # {}
  BY DEF FindZero
<1>2. FindZero(v) = ZeroOrder[first]
  BY <1>1 DEF FindZero
<1>3. first \in found
  <2>1. \E i \in found : \A j \in found : i <= j
    BY <1>1, Extremes
  <2>2. QED
    BY <2>1
<1>4. v[ZeroOrder[first]] = 0 /\ first \in 1 .. 8
  BY <1>3
<1>5. ZeroOrder[first] \in AllRegs
  BY <1>4, Orders
<1>6. QED
  BY <1>2, <1>4, <1>5

-----------------------------------------------------------------------------
(* `set' and `zero'.                                                       *)

\* Of two legal numbers whose records differ by one, the words do too.
LEMMA NextWord ==
  ASSUME Legal, NEW t \in Tags, NEW w \in Words, Agrees(t, w), Defined(t),
         NEW n \in -Half .. M - 2, LegalNum(n)
  PROVE  /\ Uint32(n) - t = 1 => Inc(w) = Word(n)
         /\ Uint32(n) - t = -1 => Dec(w) = Word(n)
<1>s. M \in Nat \ {0} /\ Half \in Nat /\ t \in Int /\ t >= 0 /\ n \in Int /\ M > 4
  BY Scales DEF Tags, Defined, NotMinus
<1>1. CASE n >= 0
  <2>1. Uint32(n) = n /\ Word(n) = n
    BY <1>1, Forms
  <2>2. ASSUME n - t = 1 PROVE Inc(w) = n
    <3>1. w = n - 1
      BY <1>s, <2>2 DEF Agrees
    <3>2. QED
      BY <1>s, <1>1, <3>1, ModSmall DEF Inc
  <2>3. ASSUME n - t = -1 PROVE Dec(w) = n
    <3>1. w = n + 1
      BY <1>s, <1>1, <2>3 DEF Agrees
    <3>2. n + M = M * 1 + n /\ n \in 0 .. M - 1
      BY <1>s, <1>1
    <3>3. (n + M) % M = n
      BY <1>s, <3>2, OnlyForm(M, 1, n, n + M), DivUnique DEF OnlyForm
    <3>4. QED
      BY <1>s, <3>1, <3>3 DEF Dec
  <2>4. QED
    BY <2>1, <2>2, <2>3
<1>2. CASE n < 0
  <2>1. Uint32(n) = M - n /\ n \in Operands
    BY <1>s, <1>2, Forms DEF LegalNum
  <2>2. SUFFICES ASSUME M - n - t = 1 \/ M - n - t = -1
                 PROVE  FALSE
    BY <1>s, <2>1
  <2>3. t >= M
    BY <1>s, <1>2, <2>2
  <2>4. PICK m \in Operands : m < 0 /\ t = Uint32(m)
    BY <1>s, <2>3 DEF Agrees
  <2>5. m \in Int /\ t = M - m
    BY <1>s, <2>4, OperandsAssumption DEF Uint32
  <2>6. m - n = 1 \/ n - m = 1
    BY <1>s, <2>2, <2>5
  <2>7. QED
    BY <1>2, <2>1, <2>4, <2>6 DEF Legal, GoodOperands
<1>3. QED
  BY <1>s, <1>1, <1>2

\* Every idiom of `set' leaves the operand in the register: what SetDelivers
\* says, for one sound record.
LEMMA SetNumDelivers ==
  ASSUME Legal, NEW v, NEW g, Matches(v, g), NEW r \in AllRegs,
         NEW n \in -Half .. M - 2, LegalNum(n)
  PROVE  Effect(SetIdiom(v, r, n), v, g, r, n) = Word(n)
<1> DEFINE u == Uint32(n)
           idiom == SetIdiom(v, r, n)
           old == v[r]
           w == g[r]
<1>s. /\ n \in Int
      /\ Q \in Nat \ {0} /\ Q2 \in Nat \ {0} /\ M \in Nat \ {0}
      /\ Q >= 4 /\ Q2 >= 4 * Q /\ M >= 16 * Q2
  BY Scales
<1>w. /\ n >= 0 => u = n /\ Word(n) = n
      /\ n < 0 => u = M - n /\ Word(n) = M + n
  BY Forms
<1>o. old \in Tags /\ w \in Words /\ Agrees(old, w)
  BY DEF Matches
<1>z. Cleared(v, g, r) = 0
  BY ClearedIsZero
<1> HIDE DEF u, old, w
<1>1. CASE old = u
  <2>1. idiom = "skip"
    BY <1>1 DEF SetIdiom, u, old
  <2>2. QED
    BY <1>1, <1>o, <2>1, KnownWord DEF Effect, u, w
<1>2. CASE old # u /\ old = 0
  <2>1. idiom = FromZeroIdiom(r, n)
    BY <1>2 DEF SetIdiom, u, old
  <2>2. w = 0
    BY <1>2, <1>o, KnownZero
  <2>3. n # 0
    BY <1>2, <1>s, <1>w
  <2>4. QED
    BY <2>1, <2>2, <2>3, FromZeroDelivers DEF w
<1> DEFINE fresh == old # u /\ old # 0
<1>3. CASE fresh /\ idiom = "inc"
  <2>1. Defined(old) /\ u - old = 1
    BY <1>3 DEF SetIdiom, u, old
  <2>2. QED
    BY <1>3, <1>o, <2>1, NextWord DEF Effect, u, w
<1>4. CASE fresh /\ idiom = "dec"
  <2>1. Defined(old) /\ u - old = -1
    BY <1>4 DEF SetIdiom, u, old
  <2>2. QED
    BY <1>4, <1>o, <2>1, NextWord DEF Effect, u, w
<1>5. CASE fresh /\ idiom = "copy"
  <2>1. SearchMatch(v, u) # "none"
    BY <1>5 DEF SetIdiom, u, old
  <2>2. SearchMatch(v, u) \in AllRegs /\ v[SearchMatch(v, u)] = u
    BY <2>1, SearchFinds
  <2>3. g[SearchMatch(v, u)] = Word(n)
    BY <2>2, KnownWord DEF Matches, u
  <2>4. QED
    BY <1>5, <2>3 DEF Effect, u
<1>6. CASE fresh /\ idiom = "zero"
  <2>1. n = 0
    BY <1>6 DEF SetIdiom, u, old
  <2>2. QED
    BY <1>6, <1>w, <1>z, <2>1 DEF Effect
<1>7. CASE fresh /\ idiom = "mov_low"
  <2>1. Is8bit(old) /\ u < Q
    BY <1>7 DEF SetIdiom, u, old
  <2>2. n \in 0 .. Q - 1 /\ w \in 0 .. Q - 1
    BY <1>s, <1>w, <1>o, <2>1, Bounds
  <2>3. QED
    BY <1>7, <1>w, <2>2, LowByte DEF Effect, w
<1>8. CASE fresh /\ idiom = "lea_zero"
  <2>1. SearchMatch(v, 0) # "none"
    BY <1>8 DEF SetIdiom, u, old
  <2>2. SearchMatch(v, 0) \in AllRegs /\ v[SearchMatch(v, 0)] = 0
    BY <2>1, SearchFinds
  <2>3. g[SearchMatch(v, 0)] = 0
    BY <2>2, KnownZero DEF Matches
  <2>4. QED
    BY <1>8, <1>s, <2>3 DEF Effect
<1>9. CASE fresh /\ idiom = "zero_inc"
  <2>1. n = 1
    BY <1>9 DEF SetIdiom, u, old
  <2>2. Inc(0) = 1
    BY <1>s, ModSmall DEF Inc
  <2>3. QED
    BY <1>9, <1>w, <1>z, <2>1, <2>2 DEF Effect
<1>10. CASE fresh /\ idiom = "zero_mov_low"
  <2>1. u < Q
    BY <1>10 DEF SetIdiom, u, old
  <2>2. n \in 0 .. Q - 1 /\ 0 \in 0 .. Q - 1
    BY <1>s, <1>w, <2>1
  <2>3. QED
    BY <1>10, <1>w, <1>z, <2>2, LowByte DEF Effect
<1>11. CASE fresh /\ idiom = "zero_mov_high"
  <2>1. u % Q = 0 /\ u >= Q /\ u < Q2
    BY <1>11 DEF SetIdiom, u, old
  <2>2. n \in Q .. Q2 - 1 /\ n % Q = 0
    BY <1>s, <1>w, <2>1
  <2>3. QED
    BY <1>11, <1>s, <1>w, <1>z, <2>2, HighByte DEF Effect
<1>12. CASE fresh /\ idiom = "zero_dec16"
  <2>1. u = Q2 - 1
    BY <1>12 DEF SetIdiom, u, old
  <2>2. n = Q2 - 1 /\ n >= 0
    BY <1>s, <1>w, <2>1
  <2>3. QED
    BY <1>12, <1>w, <1>z, <2>2, AllOnes16 DEF Effect
<1>13. CASE fresh /\ idiom = "mov16"
  <2>1. Is16bit(old) /\ u < Q2
    BY <1>13 DEF SetIdiom, u, old
  <2>2. n \in 0 .. Q2 - 1 /\ w \in 0 .. Q2 - 1
    BY <1>s, <1>w, <1>o, <2>1, Bounds
  <2>3. QED
    BY <1>13, <1>w, <2>2, LowHalf DEF Effect, w
<1>14. CASE fresh /\ idiom \in {"or", "push_pop", "mov"}
  BY <1>14 DEF Effect
<1>15. QED
  <2>1. fresh => idiom \in {"inc", "dec", "copy", "zero", "mov_low",
          "lea_zero", "zero_inc", "or", "push_pop", "zero_mov_low",
          "zero_mov_high", "zero_dec16", "mov16", "mov"}
    BY DEF SetIdiom, u, old
  <2>2. QED
    BY <2>1, <1>1, <1>2, <1>3, <1>4, <1>5, <1>6, <1>7, <1>8, <1>9, <1>10,
       <1>11, <1>12, <1>13, <1>14

-----------------------------------------------------------------------------
(* Every part of a macro leaves a record that matches the registers.       *)

StateOK(s) == Matches(s.val, s.reg)

LEMMA LegalRange ==
  ASSUME Legal, NEW n, LegalNum(n)
  PROVE  /\ n \in -Half .. M - 2
         /\ Uint32(n) \in Tags /\ Word(n) \in Words
         /\ Agrees(Uint32(n), Word(n))
<1>s. M \in Nat /\ Half \in Nat /\ M = 2 * Half /\ M > 4
  BY Scales
<1>1. n \in -Half .. M - 2
  <2>1. M - 1 \notin Operands
    BY DEF Legal, GoodOperands
  <2>2. CASE n \in Operands
    <3>1. n \in -Half .. M - 1 /\ n # M - 1
      BY <2>1, <2>2, OperandsAssumption
    <3>2. QED
      BY <1>s, <3>1
  <2>3. QED
    BY <1>s, <2>2 DEF LegalNum
<1>2. Uint32(n) \in Tags /\ Word(n) \in Words
  BY <1>s, <1>1, Forms DEF Tags, NotMinus, Words
<1>3. CASE n >= 0
  <2>1. Uint32(n) = n /\ Word(n) = n
    BY <1>1, <1>3, Forms
  <2>2. QED
    BY <1>s, <1>1, <1>2, <1>3, <2>1 DEF Agrees, Byte, Short, NotMinus
<1>4. CASE n < 0
  <2>1. Uint32(n) = M - n /\ n \in Operands
    BY <1>s, <1>1, <1>4, Forms DEF LegalNum
  <2>2. QED
    BY <1>s, <1>1, <1>2, <1>4, <2>1 DEF Agrees, Byte, Short, NotMinus
<1>5. QED
  BY <1>s, <1>1, <1>2, <1>3, <1>4

LEMMA WriteOK ==
  ASSUME NEW v, NEW g, Matches(v, g), NEW r \in AllRegs,
         NEW t \in Tags, NEW w \in Words, Agrees(t, w)
  PROVE  Matches([v EXCEPT ![r] = t], [g EXCEPT ![r] = w])
BY DEF Matches

LEMMA WriteAsOK ==
  ASSUME NEW s, StateOK(s), NEW r \in AllRegs,
         NEW t \in Tags, NEW w \in Words, Agrees(t, w)
  PROVE  StateOK(WriteAs(s, r, w, t))
BY WriteOK DEF StateOK, WriteAs

\* A tainted register may hold anything.
LEMMA UnknownAgrees == Unknown \in Tags /\ \A w : Agrees(Unknown, w)
BY Scales DEF Unknown, Tags, Agrees, Byte, Short, NotMinus

LEMMA ZeroAgrees == 0 \in Tags /\ 0 \in Words /\ Agrees(0, 0)
BY Scales DEF Tags, Words, Agrees, Byte, Short, NotMinus

LEMMA SetNumOK ==
  ASSUME Legal, NEW s, StateOK(s), NEW r \in AllRegs, NEW n, LegalNum(n)
  PROVE  /\ StateOK(SetNum(s, r, n))
         /\ SetNum(s, r, n).val = [s.val EXCEPT ![r] = Uint32(n)]
         /\ SetNum(s, r, n).reg = [s.reg EXCEPT ![r] = Word(n)]
<1>1. Effect(SetIdiom(s.val, r, n), s.val, s.reg, r, n) = Word(n)
  BY LegalRange, SetNumDelivers DEF StateOK
<1>2. /\ SetNum(s, r, n).val = [s.val EXCEPT ![r] = Uint32(n)]
      /\ SetNum(s, r, n).reg = [s.reg EXCEPT ![r] = Word(n)]
  BY <1>1 DEF SetNum
<1>3. QED
  BY <1>2, LegalRange, WriteOK DEF StateOK

LEMMA SetFromOK ==
  ASSUME NEW s, StateOK(s), NEW r \in AllRegs, NEW q \in AllRegs
  PROVE  /\ StateOK(SetFrom(s, r, q))
         /\ \A p \in AllRegs \ {r} : SetFrom(s, r, q).val[p] = s.val[p]
         /\ SetFrom(s, r, q).reg = [s.reg EXCEPT ![r] = s.reg[q]]
<1>1. s.val[q] \in Tags /\ s.reg[q] \in Words /\ Agrees(s.val[q], s.reg[q])
  BY DEF StateOK, Matches
<1>2. CASE r = q
  BY <1>2 DEF SetFrom, StateOK, Matches
<1>3. CASE r # q
  BY <1>1, <1>3, WriteOK DEF SetFrom, StateOK, Matches
<1>4. QED
  BY <1>2, <1>3

LEMMA OverwriteOK ==
  ASSUME NEW s, StateOK(s), NEW r \in AllRegs, s.val[r] = Unknown,
         NEW w \in Words
  PROVE  StateOK(Overwrite(s, r, w))
BY UnknownAgrees DEF Overwrite, StateOK, Matches

\* An operand of `syscall', `memset' or `memcpy'.
IsOperand(o) ==
  CASE o.kind = "num" -> o.arg \in Operands
    [] o.kind = "reg" -> o.arg \in AllRegs
    [] o.kind = "pop" -> o.arg \in Words
    [] OTHER          -> o.kind = "x"

LEMMA ParamOK ==
  ASSUME Legal, NEW s, StateOK(s), NEW r \in AllRegs, NEW o, IsOperand(o),
         o.kind = "pop" => s.val[r] = Unknown
  PROVE  /\ StateOK(Param(s, r, o))
         /\ \A p \in AllRegs \ {r} : Param(s, r, o).val[p] = s.val[p]
         /\ Param(s, r, o).reg =
              CASE o.kind = "num" -> [s.reg EXCEPT ![r] = Word(o.arg)]
                [] o.kind = "reg" -> [s.reg EXCEPT ![r] = s.reg[o.arg]]
                [] o.kind = "pop" -> [s.reg EXCEPT ![r] = o.arg]
                [] OTHER          -> s.reg
<1>1. CASE o.kind = "num"
  <2>1. Param(s, r, o) = SetNum(s, r, o.arg) /\ LegalNum(o.arg)
    BY <1>1 DEF Param, IsOperand, LegalNum
  <2>2. /\ StateOK(Param(s, r, o))
        /\ Param(s, r, o).val = [s.val EXCEPT ![r] = Uint32(o.arg)]
        /\ Param(s, r, o).reg = [s.reg EXCEPT ![r] = Word(o.arg)]
    BY <2>1, SetNumOK
  <2>3. \A p \in AllRegs \ {r} : Param(s, r, o).val[p] = s.val[p]
    BY <2>2 DEF StateOK, Matches
  <2>4. QED
    BY <1>1, <2>2, <2>3
<1>2. CASE o.kind = "reg"
  <2>1. Param(s, r, o) = SetFrom(s, r, o.arg) /\ o.arg \in AllRegs
    BY <1>2 DEF Param, IsOperand
  <2>2. QED
    BY <1>2, <2>1, SetFromOK
<1>3. CASE o.kind = "pop"
  <2>1. Param(s, r, o) = Overwrite(s, r, o.arg) /\ o.arg \in Words
    BY <1>3 DEF Param, IsOperand
  <2>2. QED
    BY <1>3, <2>1, OverwriteOK DEF Overwrite
<1>4. CASE o.kind = "x"
  BY <1>4 DEF Param
<1>5. QED
  BY <1>1, <1>2, <1>3, <1>4 DEF IsOperand

\* memset and memcpy have no `pop'.
LEMMA BlockParamOK ==
  ASSUME Legal, NEW s, StateOK(s), NEW r \in AllRegs, NEW o, IsOperand(o),
         o.kind # "pop"
  PROVE  StateOK(Param(s, r, o))
BY ParamOK

\* `zero' clears its list, keeps the rest, and says so.
LEMMA ZeroOK ==
  ASSUME Legal, NEW s, StateOK(s), NEW list \in Seq(AllRegs)
  PROVE  /\ StateOK(Zero(s, list))
         /\ \A r \in AllRegs :
              Zero(s, list).reg[r] = IF r \in Members(list) THEN 0
                                     ELSE s.reg[r]
<1> DEFINE done == ZeroedAtOnce(s.val, list)
           t == AtOnce(s, list)
           clear(u, r) == IF u.val[r] = 0 THEN u.reg[r]
                          ELSE Cleared(u.val, u.reg, r)
           noEax == WriteAs(t, "eax", clear(t, "eax"), 0)
<1>s. M \in Nat \ {0} /\ 0 % M = 0 /\ 0 \div M = 0
  BY Scales, ModSmall
<1>1. done \subseteq Members(list)
  BY DEF ZeroedAtOnce, NotYetZero
<1>2. done = {} \/ done = ByteRegs \/ FindZero(s.val) # "none"
  BY DEF ZeroedAtOnce
<1>3. FindZero(s.val) # "none" => s.reg["eax"] * s.reg[FindZero(s.val)] = 0
  <2>1. SUFFICES ASSUME FindZero(s.val) # "none"
                 PROVE  s.reg["eax"] * s.reg[FindZero(s.val)] = 0
    OBVIOUS
  <2>2. FindZero(s.val) \in AllRegs /\ s.val[FindZero(s.val)] = 0
    BY <2>1, ZeroFinds
  <2>3. s.reg[FindZero(s.val)] = 0
    BY <2>2, KnownZero DEF StateOK, Matches
  <2>4. s.reg["eax"] \in Int
    BY Scales DEF StateOK, Matches, Words, AllRegs
  <2>5. QED
    BY <2>3, <2>4
<1>4. /\ t.val = [r \in AllRegs |-> IF r \in done THEN 0 ELSE s.val[r]]
      /\ t.reg = [r \in AllRegs |-> IF r \in done THEN 0 ELSE s.reg[r]]
  <2>1. done = ByteRegs => \A r \in done : CpuidAnswer[r] = 0
    BY DEF Legal, CpuidZeros
  <2> QED  BY <1>s, <1>2, <1>3, <2>1 DEF AtOnce
<1>5. StateOK(t)
  BY <1>4, ZeroAgrees DEF StateOK, Matches
<1>6. \A r \in AllRegs : clear(t, r) = 0
  BY <1>5, KnownZero, ClearedIsZero DEF StateOK, Matches
<1>7. StateOK(noEax)
  BY <1>5, <1>6, ZeroAgrees, WriteAsOK DEF AllRegs
<1>8. clear(noEax, "edx") = 0
  BY <1>7, KnownZero, ClearedIsZero DEF StateOK, Matches, AllRegs
<1>9. /\ Zero(s, list).val = [r \in AllRegs |-> IF r \in Members(list) THEN 0
                                                ELSE t.val[r]]
      /\ Zero(s, list).reg = [r \in AllRegs |-> IF r \in Members(list) THEN 0
                                                ELSE t.reg[r]]
  BY <1>6, <1>8 DEF Zero
<1>10. \A r \in AllRegs : r \notin Members(list) => t.reg[r] = s.reg[r]
  BY <1>1, <1>4
<1>11. StateOK(Zero(s, list))
  BY <1>5, <1>9, ZeroAgrees DEF StateOK, Matches
<1>12. QED
  BY <1>9, <1>10, <1>11

-----------------------------------------------------------------------------
(* `syscall': the registers are filled one by one.                         *)

LEMMA ArgRegisters ==
  \A i, j \in 1 .. 7 :
    ArgOrder[i] \in AllRegs /\ (ArgOrder[i] = ArgOrder[j] => i = j)
<1> SUFFICES ASSUME NEW i \in 1 .. 7, NEW j \in 1 .. 7
             PROVE  /\ ArgOrder[i] \in AllRegs
                    /\ ArgOrder[i] = ArgOrder[j] => i = j
  OBVIOUS
<1>1. i = 1 \/ i = 2 \/ i = 3 \/ i = 4 \/ i = 5 \/ i = 6 \/ i = 7
  OBVIOUS
<1>2. j = 1 \/ j = 2 \/ j = 3 \/ j = 4 \/ j = 5 \/ j = 6 \/ j = 7
  OBVIOUS
<1>3. QED
  BY <1>1, <1>2 DEF ArgOrder, AllRegs

\* A call the program may make when the record is v.
CallOK(v, call) ==
  /\ Len(call) \in 1 .. 7
  /\ \A i \in 1 .. Len(call) :
       IsOperand(call[i]) /\ (call[i].kind = "pop" => v[ArgOrder[i]] = Unknown)

\* The first k operands have been dealt with, starting from s.
Filled(s, call, k, t) ==
  /\ StateOK(t)
  /\ \A p \in AllRegs : (\A j \in 1 .. k : p # ArgOrder[j]) => t.val[p] = s.val[p]
  /\ \A p \in AllRegs :
       (\A j \in 1 .. k : j <= Len(call) /\ call[j].kind # "x" => p # ArgOrder[j])
         => t.reg[p] = s.reg[p]
  /\ Independent(call) =>
       \A j \in 1 .. k :
         j <= Len(call) => t.reg[ArgOrder[j]] = Asked(s.reg, call, j)

LEMMA FillOne ==
  ASSUME Legal, NEW s, StateOK(s), NEW call, CallOK(s.val, call),
         NEW k \in 0 .. 6, NEW t, Filled(s, call, k, t)
  PROVE  Filled(s, call, k + 1, Fill(t, call, k + 1))
<1> DEFINE i == k + 1
           r == ArgOrder[i]
           o == call[i]
           t2 == Fill(t, call, i)
<1>1. i \in 1 .. 7 /\ r \in AllRegs /\ \A j \in 1 .. k : j \in 1 .. 7 /\ r # ArgOrder[j]
  <2>1. i \in 1 .. 7 /\ \A j \in 1 .. k : j \in 1 .. 7 /\ j # i
    OBVIOUS
  <2>2. QED
    BY <2>1, ArgRegisters
<1>2. \A j \in 1 .. i : j \in 1 .. k \/ j = i
  OBVIOUS
<1>3. CASE i > Len(call)
  <2>1. t2 = t
    BY <1>3 DEF Fill, CallOK
  <2>2. QED
    BY <1>1, <1>2, <1>3, <2>1 DEF Filled, CallOK
<1>4. CASE i <= Len(call)
  <2>1. i \in 1 .. Len(call) /\ IsOperand(o) /\ t2 = Param(t, r, o)
    BY <1>1, <1>4 DEF Fill, CallOK
  <2>2. o.kind = "pop" => t.val[r] = Unknown
    BY <1>1, <2>1 DEF CallOK, Filled
  <2>3. /\ StateOK(t2)
        /\ \A p \in AllRegs \ {r} : t2.val[p] = t.val[p]
        /\ t2.reg = CASE o.kind = "num" -> [t.reg EXCEPT ![r] = Word(o.arg)]
                      [] o.kind = "reg" -> [t.reg EXCEPT ![r] = t.reg[o.arg]]
                      [] o.kind = "pop" -> [t.reg EXCEPT ![r] = o.arg]
                      [] OTHER          -> t.reg
    BY <1>1, <2>1, <2>2, ParamOK DEF Filled
  <2>4. \A p \in AllRegs \ {r} : t2.reg[p] = t.reg[p]
    BY <2>3 DEF Filled, StateOK, Matches
  <2>5. o.kind = "x" => t2.reg = t.reg
    BY <2>3
  <2>6. ASSUME Independent(call) PROVE t2.reg[r] = Asked(s.reg, call, i)
    <3>1. CASE o.kind = "num"
      BY <1>1, <2>3, <3>1 DEF Filled, StateOK, Matches, Asked
    <3>2. CASE o.kind = "reg"
      <4>1. t2.reg[r] = t.reg[o.arg] /\ o.arg \in AllRegs
        BY <1>1, <2>1, <2>3, <3>2 DEF Filled, StateOK, Matches, IsOperand
      <4>2. \A j \in 1 .. k : call[j].kind # "x" => ArgOrder[j] # o.arg
        BY <2>1, <2>6, <3>2 DEF Independent
      <4>3. t.reg[o.arg] = s.reg[o.arg]
        BY <4>1, <4>2 DEF Filled
      <4>4. QED
        BY <3>2, <4>1, <4>3 DEF Asked
    <3>3. CASE o.kind = "pop"
      BY <1>1, <2>3, <3>3 DEF Filled, StateOK, Matches, Asked
    <3>4. CASE o.kind = "x"
      <4>1. t2.reg[r] = t.reg[r]
        BY <2>5, <3>4
      <4>2. t.reg[r] = s.reg[r]
        BY <1>1 DEF Filled
      <4>3. QED
        BY <3>4, <4>1, <4>2 DEF Asked
    <3>5. QED
      BY <2>1, <3>1, <3>2, <3>3, <3>4 DEF IsOperand
  <2>7. \A p \in AllRegs : (\A j \in 1 .. i : p # ArgOrder[j]) => t2.val[p] = s.val[p]
    BY <1>2, <2>3 DEF Filled
  <2>8. \A p \in AllRegs :
          (\A j \in 1 .. i : j <= Len(call) /\ call[j].kind # "x" => p # ArgOrder[j])
            => t2.reg[p] = s.reg[p]
    BY <1>2, <1>4, <2>4, <2>5 DEF Filled
  <2>9. Independent(call) =>
          \A j \in 1 .. i :
            j <= Len(call) => t2.reg[ArgOrder[j]] = Asked(s.reg, call, j)
    <3>1. \A j \in 1 .. k : ArgOrder[j] \in AllRegs \ {r}
      BY <1>1, ArgRegisters
    <3>2. QED
      BY <1>2, <2>4, <2>6, <3>1 DEF Filled
  <2>10. QED
    BY <2>3, <2>7, <2>8, <2>9 DEF Filled
<1>5. QED
  BY <1>1, <1>3, <1>4 DEF CallOK

LEMMA AtTrapOK ==
  ASSUME Legal, NEW s, StateOK(s), NEW call, CallOK(s.val, call)
  PROVE  Filled(s, call, 7, AtTrap(s, call))
<1> DEFINE s1 == Fill(s,  call, 1)
           s2 == Fill(s1, call, 2)
           s3 == Fill(s2, call, 3)
           s4 == Fill(s3, call, 4)
           s5 == Fill(s4, call, 5)
           s6 == Fill(s5, call, 6)
           s7 == Fill(s6, call, 7)
<1>0. Filled(s, call, 0, s)
  BY DEF Filled
<1>1. Filled(s, call, 1, s1)
  BY <1>0, FillOne, 0 + 1 = 1
<1> HIDE DEF s1
<1>2. Filled(s, call, 2, s2)
  BY <1>1, FillOne, 1 + 1 = 2
<1> HIDE DEF s2
<1>3. Filled(s, call, 3, s3)
  BY <1>2, FillOne, 2 + 1 = 3
<1> HIDE DEF s3
<1>4. Filled(s, call, 4, s4)
  BY <1>3, FillOne, 3 + 1 = 4
<1> HIDE DEF s4
<1>5. Filled(s, call, 5, s5)
  BY <1>4, FillOne, 4 + 1 = 5
<1> HIDE DEF s5
<1>6. Filled(s, call, 6, s6)
  BY <1>5, FillOne, 5 + 1 = 6
<1> HIDE DEF s6
<1>7. Filled(s, call, 7, s7)
  BY <1>6, FillOne, 6 + 1 = 7
<1>8. AtTrap(s, call) = s7
  BY DEF AtTrap, s1, s2, s3, s4, s5, s6
<1>9. QED
  BY <1>7, <1>8

-----------------------------------------------------------------------------
(* The invariant.                                                          *)

\* TypeOK and Sound are inductive together: the choice of instructions is
\* right only while the record is, and the record stays right only while the
\* instructions deliver what it says.
IInv == TypeOK /\ Sound

LEMMA IInvMatches == IInv <=> StateOK(State) /\ pushed \in Words
BY DEF IInv, TypeOK, Sound, StateOK, State, Matches, Tags

\* Some macros end with a state and leave `pushed' alone.
LEMMA BecomeOK ==
  ASSUME NEW s, StateOK(s), Become(s), pushed' \in Words
  PROVE  IInv'
BY DEF Become, IInv, TypeOK, Sound, StateOK, Matches, Tags

LEMMA WordOfInt == \A x \in Int : Word(x) \in Words
BY Scales, DivMod, M \in Nat \ {0} DEF Word, Words

\* rep leaves a pointer nobody tracks, and ecx at 0.
LEMMA AdvanceOK ==
  ASSUME NEW s, StateOK(s), NEW r \in AllRegs
  PROVE  StateOK(Advance(s, r)) /\ StateOK(CountedOut(s))
<1>1. s.reg[r] \in Int /\ s.reg["ecx"] \in Int /\ "ecx" \in AllRegs
  BY Scales DEF StateOK, Matches, Words, AllRegs
<1>2. Word(s.reg[r] + s.reg["ecx"]) \in Words
  BY <1>1, WordOfInt
<1>3. QED
  BY <1>1, <1>2, WriteAsOK, UnknownAgrees, ZeroAgrees DEF Advance, CountedOut

\* push0 pushes 0, whichever register it takes it from.
LEMMA ZeroWordIsZero ==
  ASSUME NEW s, StateOK(s)
  PROVE  ZeroWord(s) = 0
BY ZeroFinds, KnownZero DEF ZeroWord, StateOK, Matches

LEMMA InitIInv == Init => IInv /\ PushesZero
<1> SUFFICES ASSUME Init PROVE IInv /\ PushesZero
  OBVIOUS
<1>1. pushed = 0 /\ 0 \in Words
  BY ZeroAgrees DEF Init
<1>2. PICK stack \in Inputs :
        \/ /\ val = [r \in AllRegs |-> Unknown]
           /\ \E w \in Inputs :
                reg = [r \in AllRegs |-> IF r = "esp" THEN stack ELSE w]
        \/ /\ val = [r \in AllRegs |-> IF r = "esp" THEN Unknown ELSE 0]
           /\ reg = [r \in AllRegs |-> IF r = "esp" THEN stack ELSE 0]
  BY DEF Init
<1>3. \A w \in Inputs : w \in Words
  BY InputsAssumption
<1>4. Matches(val, reg)
  BY <1>2, <1>3, UnknownAgrees, ZeroAgrees DEF Matches
<1>5. QED
  BY <1>1, <1>4, IInvMatches DEF StateOK, State, PushesZero

LEMMA StepIInv ==
  ASSUME Legal, IInv, [Next]_vars
  PROVE  IInv'
<1>i. StateOK(State) /\ pushed \in Words /\ State.val = val /\ State.reg = reg
  BY IInvMatches DEF State
<1>r. \A r \in Regs : r \in AllRegs
  BY RegsAssumption
<1>w. \A w \in Inputs \cup Labels : w \in Words
  BY InputsAssumption
<1>u. Unknown \in Tags /\ \A w : Agrees(Unknown, w)
  BY UnknownAgrees
<1>n. \A n \in Operands : LegalNum(n)
  BY DEF LegalNum
<1>1. ASSUME NEW r \in Regs, NEW n \in Operands, Set(r, n) PROVE IInv'
  BY <1>1, <1>i, <1>r, <1>n, SetNumOK, BecomeOK DEF Set
<1>2. ASSUME NEW r \in Regs, NEW q \in Regs \cup {"esp"}, SetRegister(r, q)
      PROVE IInv'
  <2>1. q \in AllRegs
    BY <1>r DEF AllRegs
  <2>2. QED
    BY <1>2, <2>1, <1>i, <1>r, SetFromOK, BecomeOK DEF SetRegister
<1>3. ASSUME NEW r \in Regs, NEW q \in Regs, Exchange(r, q) PROVE IInv'
  <2>1. /\ val[q] \in Tags /\ reg[q] \in Words /\ Agrees(val[q], reg[q])
        /\ val[r] \in Tags /\ reg[r] \in Words /\ Agrees(val[r], reg[r])
    BY <1>i, <1>r DEF StateOK, Matches
  <2>2. StateOK(WriteAs(State, r, reg[q], val[q]))
    BY <2>1, <1>i, <1>r, WriteAsOK
  <2>3. StateOK(WriteAs(WriteAs(State, r, reg[q], val[q]), q, reg[r], val[r]))
    BY <2>1, <2>2, <1>r, WriteAsOK
  <2>4. QED
    BY <1>3, <2>3, <1>i, BecomeOK DEF Exchange
<1>4. ASSUME NEW r \in Regs, Taint(r) PROVE IInv'
  BY <1>4, <1>i, <1>u, <1>r
     DEF Taint, IInv, TypeOK, Sound, StateOK, Matches, Tags
<1>5. ASSUME NEW r \in Regs, NEW w \in Labels, SetLabel(r, w) PROVE IInv'
  <2>1. val[r] = Unknown
    BY <1>5 DEF SetLabel, MayGoStale, Legal
  <2>2. QED
    BY <1>5, <2>1, <1>i, <1>r, <1>w, OverwriteOK, BecomeOK DEF SetLabel
<1>6. ASSUME NEW r \in Regs, NEW w \in Labels, SetHere(r, w) PROVE IInv'
  BY <1>6, <1>i, <1>r, <1>w, <1>u, WriteAsOK, BecomeOK DEF SetHere
<1>7. ASSUME NEW r \in Regs, NEW w \in Inputs, Instruction(r, w) PROVE IInv'
  <2>1. PICK t \in TrueClaims(w) : Become(WriteAs(State, r, w, t))
    BY <1>7 DEF Instruction
  <2>2. t \in Tags /\ Agrees(t, w)
    BY <1>w, Scales
       DEF TrueClaims, Tags, Agrees, Unknown, Byte, Short, NotMinus, Words
  <2>3. pushed' \in Words
    BY <1>7, <1>i DEF Instruction
  <2>4. QED
    BY <2>1, <2>2, <2>3, <1>i, <1>r, <1>w, WriteAsOK, BecomeOK
<1>8. ASSUME NEW list \in ZeroLists, ZeroRegisters(list) PROVE IInv'
  <2>1. list \in Seq(AllRegs)
    BY <1>r, ZeroListsAssumption
  <2>2. QED
    BY <1>8, <2>1, <1>i, ZeroOK, BecomeOK DEF ZeroRegisters
<1>9. CASE TaintAll
  BY <1>9, <1>i, <1>u
     DEF TaintAll, IInv, TypeOK, Sound, StateOK, Matches, Tags
<1>10. CASE Push0
  <2>1. pushed' \in Words /\ UNCHANGED << val, reg >>
    BY <1>10, <1>i, ZeroWordIsZero, ZeroAgrees DEF Push0
  <2>2. QED
    BY <2>1 DEF IInv, TypeOK, Sound
<1>11. ASSUME NEW n \in Stored, Stos(n) PROVE IInv'
  <2> DEFINE s == SetNum(State, "eax", n)
  <2>1. "eax" \in AllRegs /\ "edi" \in AllRegs
    BY DEF AllRegs
  <2>2. StateOK(s) /\ s.val = [val EXCEPT !["eax"] = Uint32(n)]
    <3>1. LegalNum(n)
      BY <1>n, SizesAssumption
    <3>2. StateOK(s)
      BY <2>1, <3>1, <1>i, SetNumOK
    <3>3. s.val = [State.val EXCEPT !["eax"] = Uint32(n)]
      BY DEF SetNum
    <3>4. QED
      BY <3>2, <3>3, <1>i
  <2> HIDE DEF s
  <2>3. val["edi"] = Unknown
    BY <1>11 DEF Stos, MayGoStale, Legal
  <2>4. s.val["edi"] = Unknown
    BY <2>1, <2>2, <2>3, <1>i DEF StateOK, Matches
  <2>5. Word(s.reg["edi"] + 1) \in Words
    <3>1. s.reg["edi"] + 1 \in Int
      BY <2>1, <2>2, Scales DEF StateOK, Matches, Words
    <3>2. QED
      BY <3>1, WordOfInt
  <2>6. StateOK(Overwrite(s, "edi", Word(s.reg["edi"] + 1)))
    BY <2>1, <2>2, <2>4, <2>5, OverwriteOK
  <2>7. QED
    BY <1>11, <2>6, <1>i, BecomeOK DEF Stos, s
<1>12. ASSUME NEW n \in Sizes, Alloca2(n) PROVE IInv'
  <2> DEFINE s == SetNum(State, "ecx", (n + 3) \div 4)
  <2>1. LegalNum((n + 3) \div 4)
    <3>0. n \in Operands /\ n > 0
      BY <1>12, SizesAssumption DEF Alloca2
    <3>1. n \in 0 .. M - 1 /\ M \in Nat /\ M >= 16
      BY <3>0, OperandsAssumption, Scales
    <3>2. QED
      BY <3>1 DEF LegalNum
  <2>2. StateOK(s)
    BY <2>1, <1>i, SetNumOK DEF AllRegs
  <2>3. StateOK(CountedOut(s)) /\ ZeroWord(s) = 0
    BY <2>2, AdvanceOK, ZeroWordIsZero DEF AllRegs
  <2>4. QED
    BY <1>12, <2>3, ZeroAgrees, BecomeOK DEF Alloca2
<1>b. ASSUME NEW args \in Blocks, NEW i \in 1 .. 3
      PROVE  IsOperand(args[i]) /\ args[i].kind # "pop"
  <2>1. Len(args) = 3 /\ args[i].kind \in {"num", "reg"}
    BY CallsAssumption
  <2>2. IsOperand(args[i])
    BY <2>1, CallsAssumption DEF IsOperand
  <2>3. QED
    BY <2>1, <2>2
<1>13. ASSUME NEW args \in Blocks, Memset(args) PROVE IInv'
  <2> DEFINE s1 == Param(State, "edi", args[1])
             s2 == Param(s1, "eax", args[2])
             s3 == Param(s2, "ecx", args[3])
  <2>0. {"edi", "eax", "ecx"} \subseteq AllRegs /\ {1, 2, 3} \subseteq 1 .. 3
    BY DEF AllRegs
  <2>1. StateOK(s1)
    BY <2>0, <1>b, <1>i, BlockParamOK
  <2> HIDE DEF s1
  <2>2. StateOK(s2)
    BY <2>0, <2>1, <1>b, BlockParamOK
  <2> HIDE DEF s2
  <2>3. StateOK(s3)
    BY <2>0, <2>2, <1>b, BlockParamOK
  <2>4. StateOK(AtStosb(State, args))
    BY <2>3 DEF AtStosb, s1, s2
  <2>5. StateOK(CountedOut(Advance(AtStosb(State, args), "edi")))
    BY <2>0, <2>4, AdvanceOK
  <2>6. QED
    BY <1>13, <2>5, <1>i, BecomeOK DEF Memset
<1>14. ASSUME NEW args \in Blocks, Memcpy(args) PROVE IInv'
  <2> DEFINE s1 == Param(State, "edi", args[1])
             s2 == Param(s1, "esi", args[2])
             s3 == Param(s2, "ecx", args[3])
  <2>0. {"edi", "esi", "ecx"} \subseteq AllRegs /\ {1, 2, 3} \subseteq 1 .. 3
    BY DEF AllRegs
  <2>1. StateOK(s1)
    BY <2>0, <1>b, <1>i, BlockParamOK
  <2> HIDE DEF s1
  <2>2. StateOK(s2)
    BY <2>0, <2>1, <1>b, BlockParamOK
  <2> HIDE DEF s2
  <2>3. StateOK(s3)
    BY <2>0, <2>2, <1>b, BlockParamOK
  <2>4. StateOK(AtMovsb(State, args))
    BY <2>3 DEF AtMovsb, s1, s2
  <2>5. StateOK(Advance(AtMovsb(State, args), "edi"))
    BY <2>0, <2>4, AdvanceOK
  <2>6. StateOK(CountedOut(Advance(Advance(AtMovsb(State, args), "edi"), "esi")))
    BY <2>0, <2>5, AdvanceOK
  <2>7. QED
    BY <1>14, <2>6, <1>i, BecomeOK DEF Memcpy
<1>15. ASSUME NEW call \in Calls, NEW answer \in Inputs, Syscall(call, answer)
       PROVE  IInv'
  <2>1. CallOK(State.val, call)
    BY <1>15, <1>i, CallsAssumption
       DEF CallOK, IsOperand, Syscall, Allowed, MayGoStale, Legal
  <2>2. StateOK(AtTrap(State, call))
    BY <2>1, <1>i, AtTrapOK DEF Filled
  <2>3. StateOK(WriteAs(AtTrap(State, call), "eax", answer, Unknown))
    BY <2>2, <1>w, <1>u, WriteAsOK DEF AllRegs
  <2>4. QED
    BY <1>15, <2>3, <1>i, BecomeOK DEF Syscall
<1>16. CASE UNCHANGED vars
  BY <1>16 DEF vars, IInv, TypeOK, Sound
<1>17. QED
  BY <1>1, <1>2, <1>3, <1>4, <1>5, <1>6, <1>7, <1>8, <1>9, <1>10, <1>11,
     <1>12, <1>13, <1>14, <1>15, <1>16 DEF Next

\* Every push0 and every alloca2 pushes 0.
LEMMA StepPushes ==
  ASSUME Legal, IInv, PushesZero, [Next]_vars
  PROVE  PushesZero'
<1>0. UNCHANGED pushed => PushesZero'
  BY DEF PushesZero
<1>i. StateOK(State)
  BY IInvMatches
<1>1. CASE Push0
  BY <1>1, <1>i, ZeroWordIsZero DEF Push0, PushesZero
<1>2. ASSUME NEW n \in Sizes, Alloca2(n) PROVE PushesZero'
  <2> DEFINE s == SetNum(State, "ecx", (n + 3) \div 4)
  <2>1. LegalNum((n + 3) \div 4)
    <3>0. n \in Operands /\ n > 0
      BY <1>2, SizesAssumption DEF Alloca2
    <3>1. n \in 0 .. M - 1 /\ M \in Nat /\ M >= 16
      BY <3>0, OperandsAssumption, Scales
    <3>2. QED
      BY <3>1 DEF LegalNum
  <2>2. StateOK(s)
    BY <2>1, <1>i, SetNumOK DEF AllRegs
  <2>3. QED
    BY <1>2, <2>2, ZeroWordIsZero DEF Alloca2, PushesZero
<1>3. CASE \E r \in Regs :
             \/ Taint(r)
             \/ \E n \in Operands : Set(r, n)
             \/ \E q \in Regs \cup {"esp"} : SetRegister(r, q)
             \/ \E q \in Regs : Exchange(r, q)
             \/ \E w \in Labels : SetLabel(r, w)
             \/ \E w \in Labels : SetHere(r, w)
             \/ \E w \in Inputs : Instruction(r, w)
  BY <1>0, <1>3 DEF Taint, Set, SetRegister, Exchange, SetLabel, SetHere,
                    Instruction
<1>4. CASE (\E list \in ZeroLists : ZeroRegisters(list)) \/ TaintAll
  BY <1>0, <1>4 DEF ZeroRegisters, TaintAll
<1>5. CASE \/ \E n \in Stored : Stos(n)
           \/ \E args \in Blocks : Memset(args)
           \/ \E args \in Blocks : Memcpy(args)
           \/ \E call \in Calls, answer \in Inputs : Syscall(call, answer)
  BY <1>0, <1>5 DEF Stos, Memset, Memcpy, Syscall
<1>6. CASE UNCHANGED vars
  BY <1>0, <1>6 DEF vars
<1>7. QED
  BY <1>1, <1>2, <1>3, <1>4, <1>5, <1>6 DEF Next

-----------------------------------------------------------------------------
(* What the invariant gives.                                               *)

\* `set r, n' delivers n wherever the record is right.
LEMMA IInvSetDelivers == Legal /\ IInv => SetDelivers
<1> SUFFICES ASSUME Legal, IInv, NEW r \in Regs, NEW n \in Operands
             PROVE  SetNum(State, r, n).reg[r] = Word(n)
  BY DEF SetDelivers
<1>1. StateOK(State) /\ r \in AllRegs /\ LegalNum(n)
  BY IInvMatches, RegsAssumption DEF LegalNum
<1>2. SetNum(State, r, n).reg[r] = Effect(SetIdiom(State.val, r, n), State.val, State.reg, r, n)
  BY <1>1 DEF SetNum, StateOK, Matches
<1>3. QED
  BY <1>1, <1>2, LegalRange, SetNumDelivers DEF StateOK, Matches

\* `zero list' clears its list and nothing else wherever the record is right.
LEMMA IInvZeroClears == Legal /\ IInv => ZeroClears
<1> SUFFICES ASSUME Legal, IInv, NEW list \in ZeroLists, NEW r \in AllRegs
             PROVE  Zero(State, list).reg[r] = IF r \in Members(list) THEN 0
                                               ELSE reg[r]
  BY DEF ZeroClears
<1>1. StateOK(State) /\ State.reg = reg
  BY IInvMatches DEF State
<1>2. list \in Seq(AllRegs)
  BY RegsAssumption, ZeroListsAssumption
<1>3. QED
  BY <1>1, <1>2, ZeroOK

\* A system call receives its operands wherever the record is right.
LEMMA IInvSyscallReceives == Legal /\ IInv => SyscallReceives
<1> SUFFICES ASSUME Legal, IInv, NEW call \in Calls, Independent(call),
                    Allowed(call), NEW i \in 1 .. Len(call)
             PROVE  AtTrap(State, call).reg[ArgOrder[i]] = Asked(reg, call, i)
  BY DEF SyscallReceives
<1>1. StateOK(State) /\ State.val = val /\ State.reg = reg
  BY IInvMatches DEF State
<1>2. CallOK(State.val, call)
  BY <1>1, CallsAssumption DEF CallOK, IsOperand, Allowed, MayGoStale, Legal
<1>3. Filled(State, call, 7, AtTrap(State, call))
  BY <1>1, <1>2, AtTrapOK
<1>4. i \in 1 .. 7 /\ i <= Len(call)
  BY <1>2 DEF CallOK
<1>5. QED
  BY <1>1, <1>3, <1>4 DEF Filled

-----------------------------------------------------------------------------
(* The theorems: each holds of every program whose operands are legal and  *)
(* that tells the tracker what it writes, for every width of a byte.       *)

\* The record of generic.mac agrees with the processor in every reachable
\* state, so every choice the macros base on it is a right one.
THEOREM Soundness == ASSUME Legal PROVE Spec => []Sound
<1>1. Init => IInv
  BY InitIInv
<1>2. IInv /\ [Next]_vars => IInv'
  BY StepIInv
<1>3. IInv => Sound
  BY DEF IInv
<1>4. QED
  BY <1>1, <1>2, <1>3, PTL DEF Spec

\* The record holds a tag or a word's value, a register a word, forever: no
\* macro of generic.mac computes a value NASM or the processor cannot hold.
THEOREM TypeCorrect == ASSUME Legal PROVE Spec => []TypeOK
<1>1. Init => IInv
  BY InitIInv
<1>2. IInv /\ [Next]_vars => IInv'
  BY StepIInv
<1>3. IInv => TypeOK
  BY DEF IInv
<1>4. QED
  BY <1>1, <1>2, <1>3, PTL DEF Spec

\* After any program, `set' (generic.mac) delivers its operand with the idiom
\* that __set_num or setfz chooses.
THEOREM SetIsRight == ASSUME Legal PROVE Spec => []SetDelivers
<1>1. Init => IInv
  BY InitIInv
<1>2. IInv /\ [Next]_vars => IInv'
  BY StepIInv
<1>3. IInv => SetDelivers
  BY IInvSetDelivers
<1>4. QED
  BY <1>1, <1>2, <1>3, PTL DEF Spec

\* After any program, `zero' (generic.mac) clears exactly its registers.
THEOREM ZeroIsRight == ASSUME Legal PROVE Spec => []ZeroClears
<1>1. Init => IInv
  BY InitIInv
<1>2. IInv /\ [Next]_vars => IInv'
  BY StepIInv
<1>3. IInv => ZeroClears
  BY IInvZeroClears
<1>4. QED
  BY <1>1, <1>2, <1>3, PTL DEF Spec

\* After any program, `syscall' (syscall.mac) hands the kernel what the
\* program wrote, if no operand reads a register already filled.
THEOREM SyscallIsRight == ASSUME Legal PROVE Spec => []SyscallReceives
<1>1. Init => IInv
  BY InitIInv
<1>2. IInv /\ [Next]_vars => IInv'
  BY StepIInv
<1>3. IInv => SyscallReceives
  BY IInvSyscallReceives
<1>4. QED
  BY <1>1, <1>2, <1>3, PTL DEF Spec

\* push0 and alloca2 (generic.mac) only ever push 0.
THEOREM PushIsRight == ASSUME Legal PROVE Spec => []PushesZero
<1>1. Init => IInv /\ PushesZero
  BY InitIInv
<1>2. IInv /\ PushesZero /\ [Next]_vars => (IInv /\ PushesZero)'
  BY StepIInv, StepPushes
<1>3. QED
  BY <1>1, <1>2, PTL DEF Spec
=============================================================================
