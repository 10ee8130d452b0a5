--------------------------- MODULE MCRegTrackWide ---------------------------
(***************************************************************************)
(* RegTrack for TLC: every register and every macro, in programs of at     *)
(* most MaxLen macros.                                                     *)
(***************************************************************************)
EXTENDS RegTrack

CONSTANT MaxLen

VARIABLE len    \* the number of macros the program has used

MCOperands == {0, 1, 8, 128, 254, -1}
MCZeros == [r \in ByteRegs |-> 0]
MCInputs == {200}
MCZeroLists ==
  { << "eax", "edi" >>, << "eax", "edx" >>, << "edx", "eax" >>,
    << "eax", "ebx", "ecx", "edx" >>, << "ecx", "edx", "eax", "ebx" >> }
MCCalls ==
  { << Num(8), Num(8), Reg("esp"), Num(8), Reg("edi"), Num(0), Keep >>,
    << Num(8), Reg("edi"), Reg("esi"), Num(-1), Keep, Reg("edx"), Num(8) >>,
    << Num(254), Keep, Pop(7), Num(254) >>,
    << Num(0), Num(0), Reg("eax") >> }
MCBlocks == { << Num(8), Num(0), Num(8) >>, << Reg("esp"), Num(8), Num(254) >> }
MCSizes == {1, 8, 254}

MCInit == Init /\ len = 0
MCNext == len < MaxLen /\ Next /\ len' = len + 1
MCSpec == MCInit /\ [][MCNext]_<< vars, len >>
=============================================================================
