----------------------------- MODULE MCRegTrack -----------------------------
(***************************************************************************)
(* RegTrack for TLC: programs of any length on eax and edx.  With Q = 4 a  *)
(* word has 256 values, 16-bit values are below 16, and -2 .. 1 is the     *)
(* range of a sign-extended byte.                                          *)
(***************************************************************************)
EXTENDS RegTrack

\* One operand for every idiom of `set': 0, 1, inside a byte, a high byte
\* (8), 0xFFFF (15), 0x10000 (16), 16 bits (6), the second highest byte (48),
\* 0x01000000 (64), 0x80000000 (128), another power of two (32), the highest
\* byte (192), 0xFFFF0000 (240), 32 bits (77, 78), -1, -4 (below a byte's
\* range) and 0xFFFFFFFE (254).
MCOperands == {0, 1, 3, 6, 8, 15, 16, 32, 48, 64, 78, 128, 192, 240, 254,
               -1, -4}
\* Operands the tracker mistakes for each other.
MinusOneMinusTwo == {-1, -2}

\* The processor answers a leaf it does not have with zeros.
MCZeros == [r \in ByteRegs |-> 0]

MCInputs == {2, 7, 200}
MCZeroLists == { << "eax", "edx" >>, << "edx", "eax" >>, << "edx" >> }
MCCalls == { << Num(6), Keep, Keep, Reg("eax") >>,
             << Num(3), Keep, Keep, Num(0) >>,
             << Reg("edx"), Keep, Keep, Num(6) >>,
             << Num(3), Keep, Keep, Pop(7) >> }
=============================================================================
