----------------------------- MODULE AltCallProofs -----------------------------
(***************************************************************************)
(* Theorems about AltCall, however many signals other processes send: whom *)
(* the handler serves (Filtered), what it serves and in which order        *)
(* (ServedInOrder), and what can kill the process (OnlySegvKills).         *)
(***************************************************************************)
EXTENDS AltCall, SequenceTheorems, TLAPS

Handlers == [sig : Int, code : Int, step : {"entered", "hlt"}]

\* Instructions whose trap the handler takes for one of main's.
Illegals == {"ud0", "ud1", "ud2", "vmcall"}
Hlts     == {"hlt", "in", "out"}

TypeCorrect ==
  /\ ip \in 0 .. 30
  /\ frames \in Seq(Handlers)
  /\ memory \in [Pointers -> {0, MAPERR, ACCERR}]

(***************************************************************************)
(* Why the siginfo fields tell enough.  A handler that another one is      *)
(* interrupted by was sent by a process: the handler's own hlt never gets  *)
(* to a second one, as SIGSEGV is at its default or blocked by then.  And  *)
(* while main's handler runs, ip stays where the instruction it reports    *)
(* has left it.                                                            *)
(***************************************************************************)
Innermost ==
  /\ \A f \in 2 .. Len(frames) : frames[f].code = SI_USER
  /\ \A f \in 1 .. Len(frames) : frames[f].step = "hlt" => default = TRUE
Reports ==
  frames # <<>> =>
    /\ ExecInt(frames[1]) =>
         /\ ip - 1 \in 0 .. 30
         /\ Code[ip - 1].name = (IF frames[1].code = 1 THEN "int1" ELSE "int3")
    /\ ExecHlt(frames[1]) => Code[ip].name \in Hlts
    /\ Illegal(frames[1]) => Code[ip].name \in Illegals
Inv == TypeCorrect /\ Innermost /\ Reports

-----------------------------------------------------------------------------
(* main's bytes.                                                           *)

\* Execution stays within the bytes, as it does behind what the handler moves
\* past.
LEMMA Bytes ==
  ASSUME NEW o \in 0 .. 30
  PROVE  /\ Code[o].next \in 0 .. 30
         /\ Code[o].name \in {"int1", "int3"} => Code[o].next = o + 1
         /\ Code[o].name \in Hlts \cup Illegals => o + 2 <= 30
         /\ Code[o].name \in Hlts \cup Illegals \cup {"int1", "int3"} => Code[o].at \notin Pointers
<1> DEFINE Says(n, next, reg) ==
      Code[o].name = n /\ Code[o].next = next /\ Code[o].at = reg
<1>1. CASE o = 0
  <2>1. Says("hlt", 1, "none")
    BY <1>1 DEF Code, I, M
  <2> QED  BY <2>1, <1>1 DEF Hlts, Illegals, Pointers
<1>2. CASE o = 1
  <2>1. Says("ud2", 3, "none")
    BY <1>2 DEF Code, I, M
  <2> QED  BY <2>1, <1>2 DEF Hlts, Illegals, Pointers
<1>3. CASE o = 2
  <2>1. Says("or", 4, "edi")
    BY <1>3 DEF Code, I, M
  <2> QED  BY <2>1, <1>3 DEF Hlts, Illegals, Pointers
<1>4. CASE o = 3
  <2>1. Says("ud2", 5, "none")
    BY <1>4 DEF Code, I, M
  <2> QED  BY <2>1, <1>4 DEF Hlts, Illegals, Pointers
<1>5. CASE o = 4
  <2>1. Says("or", 6, "none")
    BY <1>5 DEF Code, I, M
  <2> QED  BY <2>1, <1>5 DEF Hlts, Illegals, Pointers
<1>6. CASE o = 5
  <2>1. Says("int3", 6, "none")
    BY <1>6 DEF Code, I, M
  <2> QED  BY <2>1, <1>6 DEF Hlts, Illegals, Pointers
<1>7. CASE o = 6
  <2>1. Says("int1", 7, "none")
    BY <1>7 DEF Code, I, M
  <2> QED  BY <2>1, <1>7 DEF Hlts, Illegals, Pointers
<1>8. CASE o = 7
  <2>1. Says("ud1", 10, "none")
    BY <1>8 DEF Code, I, M
  <2> QED  BY <2>1, <1>8 DEF Hlts, Illegals, Pointers
<1>9. CASE o = 9
  <2>1. Says("add", 11, "edi")
    BY <1>9 DEF Code, I, M
  <2> QED  BY <2>1, <1>9 DEF Hlts, Illegals, Pointers
<1>10. CASE o = 10
  <2>1. Says("ud2", 12, "none")
    BY <1>10 DEF Code, I, M
  <2> QED  BY <2>1, <1>10 DEF Hlts, Illegals, Pointers
<1>11. CASE o = 11
  <2>1. Says("or", 13, "edi")
    BY <1>11 DEF Code, I, M
  <2> QED  BY <2>1, <1>11 DEF Hlts, Illegals, Pointers
<1>12. CASE o = 12
  <2>1. Says("ud0", 15, "none")
    BY <1>12 DEF Code, I, M
  <2> QED  BY <2>1, <1>12 DEF Hlts, Illegals, Pointers
<1>13. CASE o = 13
  <2>1. Says("inc", 15, "eax")
    BY <1>13 DEF Code, I, M
  <2> QED  BY <2>1, <1>13 DEF Hlts, Illegals, Pointers
<1>14. CASE o = 14
  <2>1. Says("add", 16, "edi")
    BY <1>14 DEF Code, I, M
  <2> QED  BY <2>1, <1>14 DEF Hlts, Illegals, Pointers
<1>15. CASE o = 15
  <2>1. Says("vmcall", 18, "none")
    BY <1>15 DEF Code, I, M
  <2> QED  BY <2>1, <1>15 DEF Hlts, Illegals, Pointers
<1>16. CASE o = 16
  <2>1. Says("add", 18, "none")
    BY <1>16 DEF Code, I, M
  <2> QED  BY <2>1, <1>16 DEF Hlts, Illegals, Pointers
<1>17. CASE o = 17
  <2>1. Says("shl", 21, "esi")
    BY <1>17 DEF Code, I, M
  <2> QED  BY <2>1, <1>17 DEF Hlts, Illegals, Pointers
<1>18. CASE o = 18
  <2>1. Says("mov", 22, "none")
    BY <1>18 DEF Code, I, M
  <2> QED  BY <2>1, <1>18 DEF Hlts, Illegals, Pointers
<1>19. CASE o = 21
  <2>1. Says("add", 23, "none")
    BY <1>19 DEF Code, I, M
  <2> QED  BY <2>1, <1>19 DEF Hlts, Illegals, Pointers
<1>20. CASE o = 22
  <2>1. Says("out", 23, "none")
    BY <1>20 DEF Code, I, M
  <2> QED  BY <2>1, <1>20 DEF Hlts, Illegals, Pointers
<1>21. CASE o = 23
  <2>1. Says("kill0", 27, "none")
    BY <1>21 DEF Code, I, M
  <2> QED  BY <2>1, <1>21 DEF Hlts, Illegals, Pointers
<1>22. CASE o = 24
  <2>1. Says("in", 25, "none")
    BY <1>22 DEF Code, I, M
  <2> QED  BY <2>1, <1>22 DEF Hlts, Illegals, Pointers
<1>23. CASE o = 25
  <2>1. Says("return", 30, "none")
    BY <1>23 DEF Code, I, M
  <2> QED  BY <2>1, <1>23 DEF Hlts, Illegals, Pointers
<1>24. CASE o = 26
  <2>1. Says("kill0", 27, "none")
    BY <1>24 DEF Code, I, M
  <2> QED  BY <2>1, <1>24 DEF Hlts, Illegals, Pointers
<1>25. CASE o = 27
  <2>1. Says("killill", 28, "none")
    BY <1>25 DEF Code, I, M
  <2> QED  BY <2>1, <1>25 DEF Hlts, Illegals, Pointers
<1>26. CASE o = 8
  <2>1. Says("return", 30, "none")
    BY <1>26 DEF Code, I, M
  <2> QED  BY <2>1, <1>26 DEF Hlts, Illegals, Pointers
<1>27. CASE o = 19
  <2>1. Says("return", 30, "none")
    BY <1>27 DEF Code, I, M
  <2> QED  BY <2>1, <1>27 DEF Hlts, Illegals, Pointers
<1>28. CASE o = 20
  <2>1. Says("return", 30, "none")
    BY <1>28 DEF Code, I, M
  <2> QED  BY <2>1, <1>28 DEF Hlts, Illegals, Pointers
<1>29. CASE o = 28
  <2>1. Says("int3", 29, "none")
    BY <1>29 DEF Code, I, M
  <2> QED  BY <2>1, <1>29 DEF Hlts, Illegals, Pointers
<1>30. CASE o = 29
  <2>1. Says("int1", 30, "none")
    BY <1>30 DEF Code, I, M
  <2> QED  BY <2>1, <1>30 DEF Hlts, Illegals, Pointers
<1>31. CASE o = 30
  <2>1. Says("return", 30, "none")
    BY <1>31 DEF Code, I, M
  <2> QED  BY <2>1, <1>31 DEF Hlts, Illegals, Pointers
<1> QED  BY <1>1, <1>2, <1>3, <1>4, <1>5, <1>6, <1>7, <1>8, <1>9, <1>10, <1>11, <1>12, <1>13, <1>14, <1>15, <1>16, <1>17, <1>18, <1>19, <1>20, <1>21, <1>22, <1>23, <1>24, <1>25, <1>26, <1>27, <1>28, <1>29, <1>30, <1>31

\* What the fields of a trap say of its instruction.
LEMMA Fields ==
  ASSUME TypeCorrect
  PROVE  LET r == Raises(Now)
         IN  /\ r[1] \in Int /\ r[2] \in Int
             /\ r[1] = SIGTRAP => \/ (Now.name = "int3" /\ r[2] = SI_KERNEL)
                                  \/ (Now.name = "int1" /\ r[2] = 1)
             /\ r[1] = SIGILL => Now.name \in Illegals
             /\ r[1] = SIGSEGV /\ r[2] = SI_KERNEL => Now.name \in Hlts
<1> DEFINE r == Raises(Now)
<1> USE DEF SIGTRAP, SIGILL, SIGSEGV, SI_KERNEL, MAPERR, ACCERR
<1>0. Now.name \in Hlts \cup Illegals \cup {"int1", "int3"} =>
        ~(Now.at \in DOMAIN memory /\ memory[Now.at] # 0)
  <2>1. ip \in 0 .. 30 /\ Now = Code[ip] /\ DOMAIN memory = Pointers
    BY DEF TypeCorrect, Now
  <2> QED  BY <2>1, Bytes
<1>1. CASE Now.name \in Hlts
  <2>1. r = <<11, 128>>
    BY <1>0, <1>1 DEF Raises, Hlts
  <2> QED  BY <2>1, <1>1
<1>2. CASE Now.name = "int3"
  <2>1. r = <<5, 128>>
    BY <1>0, <1>2 DEF Raises
  <2> QED  BY <2>1, <1>2
<1>3. CASE Now.name = "int1"
  <2>1. r = <<5, 1>>
    BY <1>0, <1>3 DEF Raises
  <2> QED  BY <2>1, <1>3
<1>4. CASE Now.name \in {"ud0", "ud1", "ud2"}
  <2>1. r = <<4, 2>>
    BY <1>0, <1>4 DEF Raises, Illegals
  <2> QED  BY <2>1, <1>4 DEF Illegals
<1>5. CASE Now.name = "vmcall" /\ ~vmcall
  <2>1. r = <<4, 2>>
    BY <1>0, <1>5 DEF Raises, Illegals
  <2> QED  BY <2>1, <1>5 DEF Illegals
<1>6. CASE Now.name \notin Hlts \cup {"int1", "int3", "ud0", "ud1", "ud2"} /\ ~(Now.name = "vmcall" /\ ~vmcall)
  <2>1. CASE Now.at \in DOMAIN memory /\ memory[Now.at] # 0
    <3>1. memory[Now.at] \in {1, 2}
      BY <2>1 DEF TypeCorrect
    <3>2. r = <<11, memory[Now.at]>>
      BY <1>6, <2>1 DEF Raises, Hlts
    <3> QED  BY <3>1, <3>2
  <2>2. CASE ~(Now.at \in DOMAIN memory /\ memory[Now.at] # 0)
    <3>1. r = <<0, 0>>
      BY <1>6, <2>2 DEF Raises, Hlts
    <3> QED  BY <3>1
  <2> QED  BY <2>1, <2>2
<1> QED  BY <1>1, <1>2, <1>3, <1>4, <1>5, <1>6

-----------------------------------------------------------------------------
(* The stack of handlers.                                                  *)

\* A signal another process sends starts a handler that has SI_USER.
LEMMA Sent ==
  ASSUME Inv, NEW s \in Int, frames' = Append(frames, Frame(s, SI_USER)),
         ip' = ip, memory' = memory, default' = default
  PROVE  Inv'
<1> DEFINE h == Frame(s, SI_USER)
<1>1. h \in Handlers /\ h.code = SI_USER /\ h.step = "entered" /\ h.sig = s
  BY DEF Frame, Handlers, SI_USER
<1>2. /\ frames' \in Seq(Handlers) /\ Len(frames') = Len(frames) + 1
      /\ frames'[Len(frames) + 1] = h
      /\ \A f \in 1 .. Len(frames) : frames'[f] = frames[f]
  BY <1>1 DEF Inv, TypeCorrect
<1>3. Len(frames) \in Nat
  BY DEF Inv, TypeCorrect
<1>4. TypeCorrect'
  BY <1>2 DEF Inv, TypeCorrect
<1>5. Innermost'
  <2>1. ASSUME NEW f \in 2 .. Len(frames')  PROVE frames'[f].code = SI_USER
    <3>1. f = Len(frames) + 1 \/ f \in 2 .. Len(frames)
      BY <1>2, <1>3
    <3> QED  BY <3>1, <1>1, <1>2, <1>3 DEF Inv, Innermost
  <2>2. ASSUME NEW f \in 1 .. Len(frames'), frames'[f].step = "hlt"  PROVE default' = TRUE
    <3>1. f = Len(frames) + 1 \/ f \in 1 .. Len(frames)
      BY <1>2, <1>3
    <3> QED  BY <3>1, <2>2, <1>1, <1>2, <1>3 DEF Inv, Innermost
  <2> QED  BY <2>1, <2>2 DEF Innermost
<1>6. Reports'
  <2>1. CASE frames = <<>>
    <3>1. frames'[1] = h
      BY <2>1, <1>2
    <3>2. ~ExecInt(h) /\ ~ExecHlt(h) /\ ~Illegal(h)
      BY <1>1 DEF ExecInt, ExecHlt, Illegal, SI_USER, SI_KERNEL
    <3> QED  BY <3>1, <3>2 DEF Reports
  <2>2. CASE frames # <<>>
    <3>1. frames'[1] = frames[1]
      BY <2>2, <1>2, <1>3 DEF Inv, TypeCorrect
    <3> QED  BY <2>2, <3>1 DEF Inv, Reports, ExecInt, ExecHlt, Illegal
  <2> QED  BY <2>1, <2>2
<1> QED  BY <1>4, <1>5, <1>6 DEF Inv

\* The handler of a trap of main's.
LEMMA Trapped ==
  ASSUME Inv, Traps, frames' = Append(frames, Frame(Raises(Now)[1], Raises(Now)[2]))
  PROVE  Inv'
<1> DEFINE r == Raises(Now)
           h == Frame(r[1], r[2])
<1>1. frames = <<>> /\ memory' = memory /\ default' = default
      /\ ip' = (IF Now.name \in {"int1", "int3"} THEN Now.next ELSE ip)
  BY DEF Traps, Ready, InMain, world
<1>2. ip \in 0 .. 30 /\ Now = Code[ip] /\ TypeCorrect
  BY DEF Inv, TypeCorrect, Now
<1>3. /\ r[1] \in Int /\ r[2] \in Int
      /\ r[1] = SIGTRAP => \/ (Now.name = "int3" /\ r[2] = SI_KERNEL)
                           \/ (Now.name = "int1" /\ r[2] = 1)
      /\ r[1] = SIGILL => Now.name \in Illegals
      /\ r[1] = SIGSEGV /\ r[2] = SI_KERNEL => Now.name \in Hlts
  BY <1>2, Fields
<1>4. /\ Now.next \in 0 .. 30
      /\ Now.name \in {"int1", "int3"} => Now.next = ip + 1
  BY <1>2, Bytes
<1>5. h \in Handlers /\ h.sig = r[1] /\ h.code = r[2] /\ h.step = "entered"
  BY <1>3 DEF Frame, Handlers
<1>6. frames' = <<h>>
  BY <1>1
<1>7. TypeCorrect'
  BY <1>1, <1>2, <1>4, <1>5, <1>6 DEF TypeCorrect
<1>8. Innermost'
  BY <1>5, <1>6 DEF Innermost
<1>9. Reports'
  <2>1. frames'[1] = h
    BY <1>6
  <2>2. CASE Now.name \in {"int1", "int3"}
    <3>1. ip' - 1 = ip
      BY <2>2, <1>1, <1>2, <1>4
    <3>2. ~ExecHlt(h) /\ ~Illegal(h)
      BY <2>2, <1>3, <1>5 DEF Hlts, Illegals, ExecHlt, Illegal
    <3>3. ExecInt(h) => Now.name = (IF h.code = 1 THEN "int1" ELSE "int3")
      BY <1>3, <1>5 DEF ExecInt, SI_KERNEL
    <3> QED  BY <2>1, <3>1, <3>2, <3>3, <1>2 DEF Reports, ExecInt, ExecHlt, Illegal
  <2>3. CASE Now.name \notin {"int1", "int3"}
    <3>1. ip' = ip
      BY <2>3, <1>1
    <3>2. ~ExecInt(h)
      BY <2>3, <1>3, <1>5 DEF ExecInt
    <3>3. (ExecHlt(h) => Now.name \in Hlts) /\ (Illegal(h) => Now.name \in Illegals)
      BY <1>3, <1>5 DEF ExecHlt, Illegal
    <3> QED  BY <2>1, <3>1, <3>2, <3>3, <1>2 DEF Reports, ExecInt, ExecHlt, Illegal
  <2> QED  BY <2>2, <2>3
<1> QED  BY <1>7, <1>8, <1>9 DEF Inv

\* The handler that goes back to main is main's own, and no other one runs.
LEMMA GoesBack ==
  ASSUME Inv, setcontext
  PROVE  /\ Len(frames) = 1 /\ Top = frames[1] /\ Top.code # SI_USER
         /\ frames' = <<>> /\ ip' = ip + Skip(frames[1])
         /\ memory' = memory /\ default' = default
         /\ ExecInt(frames[1]) \/ ExecHlt(frames[1]) \/ Illegal(frames[1])
<1>1. /\ frames # <<>> /\ frames' = Front(frames) /\ ip' = ip + Skip(Top)
      /\ ExecInt(Top) \/ ExecHlt(Top) \/ Illegal(Top)
      /\ memory' = memory /\ default' = default
  BY DEF setcontext, InTrap, world
<1>2. Top = frames[Len(frames)]
  BY DEF Top, Last
<1>3. Top.code # SI_USER
  BY <1>1 DEF ExecInt, ExecHlt, Illegal, SI_USER, SI_KERNEL
<1>4. Len(frames) \in Nat /\ Len(frames) # 0
  BY <1>1 DEF Inv, TypeCorrect
<1>5. Len(frames) = 1
  <2>1. Len(frames) \notin 2 .. Len(frames)
    BY <1>2, <1>3 DEF Inv, Innermost
  <2> QED  BY <2>1, <1>4
<1>6. frames' = <<>>
  BY <1>1, <1>5 DEF Front, Inv, TypeCorrect
<1> QED  BY <1>1, <1>2, <1>3, <1>5, <1>6

-----------------------------------------------------------------------------
(* The invariant.                                                          *)

LEMMA InitInv == Init => Inv
<1> SUFFICES ASSUME Init  PROVE Inv
  OBVIOUS
<1>1. ip = 0 /\ frames = <<>>
  BY DEF Init
<1>2. memory \in [Pointers -> {0, MAPERR, ACCERR}]
  BY DEF Init
<1> QED  BY <1>1, <1>2 DEF Inv, TypeCorrect, Innermost, Reports

LEMMA StepInv == Inv /\ [Next]_vars => Inv'
<1> SUFFICES ASSUME Inv, [Next]_vars  PROVE Inv'
  OBVIOUS
<1> USE DEF SIGILL, SIGTRAP, SIGUSR1, SIGSEGV, SIGINT, SIGCHLD
<1>0. TypeCorrect /\ Innermost /\ Reports
  BY DEF Inv
<1>1. ASSUME ip' = ip, memory' = memory, frames' = frames, default' = default \/ default' = TRUE
      PROVE  Inv'
  BY <1>0, <1>1 DEF Inv, TypeCorrect, Innermost, Reports
<1>2. CASE sigaction \/ UNCHANGED vars
  BY <1>1, <1>2 DEF sigaction, vars, world
<1>3. CASE Run
  <2>1. frames = <<>> /\ frames' = frames /\ ip' = Now.next /\ memory' = memory
    BY <1>3 DEF Run, Ready, InMain, world
  <2>2. ip' \in 0 .. 30
    BY <1>0, <2>1, Bytes DEF Now, TypeCorrect
  <2> QED  BY <1>0, <2>1, <2>2 DEF Inv, TypeCorrect, Innermost, Reports
<1>4. CASE Traps
  <2>1. CASE frames' = Append(frames, Frame(Raises(Now)[1], Raises(Now)[2]))
    BY <1>4, <2>1, Trapped
  <2>2. CASE UNCHANGED frames
    <3>1. frames = <<>> /\ frames' = <<>> /\ memory' = memory
          /\ ip' = (IF Now.name \in {"int1", "int3"} THEN Now.next ELSE ip)
      BY <1>4, <2>2 DEF Traps, Ready, InMain, world
    <3>2. ip' \in 0 .. 30
      BY <1>0, <3>1, Bytes DEF Now, TypeCorrect
    <3> QED  BY <1>0, <3>1, <3>2 DEF Inv, TypeCorrect, Innermost, Reports
  <2> QED  BY <1>4, <2>1, <2>2 DEF Traps, Fault
<1>5. CASE kill
  <2>1. frames = <<>> /\ ip' = Now.next /\ memory' = memory /\ default' = default
    BY <1>5 DEF kill, Ready, InMain, world
  <2>2. ip' \in 0 .. 30
    BY <1>0, <2>1, Bytes DEF Now, TypeCorrect
  <2>3. CASE frames' = Append(frames, Frame(SIGILL, SI_USER))
    <3> DEFINE h == Frame(SIGILL, SI_USER)
    <3>1. h \in Handlers /\ h.code = SI_USER /\ h.step = "entered" /\ h.sig = SIGILL
      BY DEF Frame, Handlers, SI_USER
    <3>2. frames' = <<h>>
      BY <2>1, <2>3
    <3>3. frames'[1] = h
      BY <3>2
    <3>4. Reports'
      BY <3>1, <3>3 DEF Reports, ExecInt, ExecHlt, Illegal, SI_USER, SI_KERNEL
    <3>5. Innermost'
      BY <3>1, <3>2 DEF Innermost
    <3> QED  BY <1>0, <2>1, <2>2, <3>1, <3>2, <3>4, <3>5 DEF Inv, TypeCorrect
  <2>4. CASE UNCHANGED frames
    <3>1. frames' = <<>>
      BY <2>1, <2>4
    <3> QED  BY <1>0, <2>1, <2>2, <3>1 DEF Inv, TypeCorrect, Innermost, Reports
  <2> QED  BY <1>5, <2>3, <2>4 DEF kill, Fault
<1>6. CASE setcontext
  <2>1. /\ Len(frames) = 1 /\ frames' = <<>> /\ ip' = ip + Skip(frames[1])
        /\ memory' = memory
        /\ ExecInt(frames[1]) \/ ExecHlt(frames[1]) \/ Illegal(frames[1])
    BY <1>6, GoesBack
  <2>2. frames # <<>> /\ ip \in 0 .. 30
    <3>1. Len(frames) = 1
      BY <2>1
    <3>2. frames # <<>>
      BY <3>1
    <3>3. ip \in 0 .. 30
      BY <1>0 DEF TypeCorrect
    <3> QED  BY <3>2, <3>3
  <2>3. CASE ExecInt(frames[1])
    <3>1. Skip(frames[1]) = 0
      BY <2>3 DEF Skip
    <3> QED  BY <1>0, <2>1, <2>2, <3>1 DEF Inv, TypeCorrect, Innermost, Reports
  <2>4. CASE ~ExecInt(frames[1])
    <3>1. Skip(frames[1]) \in {1, 2}
      BY <2>4 DEF Skip
    <3>2. Code[ip].name \in Hlts \cup Illegals
      BY <1>0, <2>1, <2>2, <2>4 DEF Reports
    <3>3. ip + 2 <= 30
      BY <2>2, <3>2, Bytes
    <3>4. ip' \in 0 .. 30
      <4>1. ip' = ip + Skip(frames[1]) /\ ip \in 0 .. 30
        BY <2>1, <2>2
      <4> QED  BY <4>1, <3>1, <3>3
    <3> QED  BY <1>0, <2>1, <3>4 DEF Inv, TypeCorrect, Innermost, Reports
  <2> QED  BY <2>3, <2>4
<1>7. CASE other
  <2>1. /\ frames # <<>> /\ frames' = [frames EXCEPT ![Len(frames)].step = "hlt"]
        /\ default' = TRUE /\ ip' = ip /\ memory' = memory
    BY <1>7 DEF other, InTrap, At, world
  <2>2. Len(frames) \in Nat /\ Len(frames) # 0 /\ frames \in Seq(Handlers)
    BY <1>0, <2>1 DEF TypeCorrect
  <2>3. frames' \in Seq(Handlers) /\ Len(frames') = Len(frames)
    <3>1. [frames[Len(frames)] EXCEPT !.step = "hlt"] \in Handlers
      <4>1. frames[Len(frames)] \in Handlers
        BY <2>2
      <4> QED  BY <4>1 DEF Handlers
    <3> QED  BY <2>1, <2>2, <3>1
  <2>4. \A f \in 1 .. Len(frames) : frames'[f].sig = frames[f].sig /\ frames'[f].code = frames[f].code
    <3>1. SUFFICES ASSUME NEW f \in 1 .. Len(frames)
                   PROVE  frames'[f].sig = frames[f].sig /\ frames'[f].code = frames[f].code
      OBVIOUS
    <3>2. frames[f] \in Handlers
      BY <2>2
    <3> QED  BY <2>1, <2>2, <3>2 DEF Handlers
  <2>5. Innermost'
    BY <1>0, <2>1, <2>2, <2>3, <2>4 DEF Innermost
  <2>6. frames'[1].sig = frames[1].sig /\ frames'[1].code = frames[1].code
    BY <2>2, <2>4
  <2>7. Reports'
    BY <1>0, <2>1, <2>6 DEF Reports, ExecInt, ExecHlt, Illegal
  <2> QED  BY <1>0, <2>1, <2>3, <2>5, <2>7 DEF Inv, TypeCorrect
<1>8. CASE hlt
  <2>1. ip' = ip /\ memory' = memory /\ default' = default
    BY <1>8 DEF hlt, world
  <2>2. frames # <<>> /\ Top = frames[Len(frames)]
    BY <1>8 DEF hlt, InTrap, Top, Last
  <2>3. Len(frames) \in 1 .. Len(frames) /\ DOMAIN frames = 1 .. Len(frames)
    BY <1>0, <2>2 DEF TypeCorrect
  <2>4. SIGSEGV \in Blocked \/ ~Handled(SIGSEGV)
    <3>1. CASE InTrap("hlt")
      <4>1. default = TRUE
        BY <1>0, <2>2, <2>3, <3>1 DEF InTrap, Innermost
      <4> QED  BY <4>1 DEF Handled
    <3>2. CASE Unmapped(Top)
      BY <2>2, <2>3, <3>2 DEF Unmapped, Blocked
    <3> QED  BY <1>8, <3>1, <3>2 DEF hlt
  <2>5. frames' = frames
    BY <1>8, <2>4 DEF hlt, Fault
  <2> QED  BY <1>1, <2>1, <2>5
<1>9. ASSUME NEW s \in Signals, Send(s) \/ Deliver(s)
      PROVE  Inv'
  <2>1. ip' = ip /\ memory' = memory /\ default' = default
    BY <1>9 DEF Send, Deliver, world
  <2>2. frames' = frames \/ frames' = Append(frames, Frame(s, SI_USER))
    BY <1>9 DEF Send, Deliver
  <2>3. s \in Int
    BY DEF Signals
  <2> QED  BY <1>1, <2>1, <2>2, <2>3, Sent
<1> QED  BY <1>2, <1>3, <1>4, <1>5, <1>6, <1>7, <1>8, <1>9 DEF Next

\* Execution stays within main, with handlers only where the processor or a
\* process has started one.
THEOREM InvHolds == Spec => []Inv
BY InitInv, StepInv, PTL DEF Spec

-----------------------------------------------------------------------------
(* hello2.c's comment.                                                     *)

LEMMA StepFilters ==
  ASSUME Inv, [Next]_vars, served' # served
  PROVE  /\ Len(frames) = 1 /\ Top.code # SI_USER
         /\ served' = Append(served, Code[IF ExecInt(Top) THEN ip - 1 ELSE ip].name)
<1>1. setcontext
  BY DEF Next, sigaction, Run, Traps, kill, other, hlt, Send, Deliver, vars
<1>2. Len(frames) = 1 /\ Top = frames[1] /\ Top.code # SI_USER
  BY <1>1, GoesBack
<1>3. frames # <<>>
  BY <1>1 DEF setcontext, InTrap
<1>4. served' = Append(served, IF ExecInt(Top) THEN (IF Top.code = 1 THEN "int1" ELSE "int3")
                               ELSE Code[ip].name)
  BY <1>1 DEF setcontext, Now
<1>5. ExecInt(Top) => Code[ip - 1].name = (IF Top.code = 1 THEN "int1" ELSE "int3")
  BY <1>2, <1>3 DEF Inv, Reports
<1> QED  BY <1>2, <1>4, <1>5

\* "We can filter out 'real' signals": only main's own traps are served, one
\* by one, whatever anybody sends.
THEOREM Filtered == Spec => Filters
<1>1. Inv /\ [Next]_vars =>
        [served' # served =>
           /\ Len(frames) = 1 /\ Top.code # SI_USER
           /\ served' = Append(served, Code[IF ExecInt(Top) THEN ip - 1 ELSE ip].name)]_vars
  BY StepFilters
<1> QED  BY <1>1, InvHolds, PTL DEF Spec, Filters

-----------------------------------------------------------------------------
(* What is served: main's way through its bytes.                           *)

\* The offset of the instruction main is at, or has trapped on.
Place == IF frames # <<>> /\ ExecInt(frames[1]) THEN ip - 1 ELSE ip

\* Up to the ud1 the way is straight, and told by how many have been served.
Early(p, n) ==
  IF arch = "i386"
    THEN \/ p = 0 /\ n = 0
         \/ p \in {2, 4, 6} /\ n = 1
         \/ p = 7 /\ n = 2
    ELSE \/ p = 0 /\ n = 0
         \/ p = 1 /\ n = 1
         \/ p = 3 /\ n = 2
         \/ p = 5 /\ n = 3
         \/ p = 6 /\ n = 4
         \/ p = 7 /\ n = 5

\* The offsets behind it.  24 and 26 are where the two bytes that i386 skips for
\* the out lead to, and those it skips there; amd64 would go on at 25, but
\* skips one byte for the out.
Late == {9, 11, 13, 15, 17, 18, 21, 22, 23, 24, 25, 26, 27}

\* Those that were due, then any that the way behind the ud1 has.
Servable == Hlts \cup Illegals \cup {"int1", "int3"}
Due(k, name) ==
  IF k <= Len(Expected) THEN name = Expected[k] ELSE name \in {"vmcall", "out", "in"}
AsDue == served \in Seq(Servable) /\ \A k \in 1 .. Len(served) : Due(k, served[k])

\* Nobody gets behind kill(0, SIGILL): its handler does not come back.
Lost == dead # 0 \/ (frames # <<>> /\ frames[1].code = SI_USER)
Way ==
  /\ AsDue
  /\ \/ Early(Place, Len(served))
     \/ Place \in Late /\ Len(served) >= Len(Expected)
     \/ Place = 28 /\ Len(served) >= Len(Expected) /\ Lost

\* sigaction has been called in order.
Installed ==
  /\ installed \in Seq(Int) /\ Len(installed) <= 6
  /\ \A k \in 1 .. Len(installed) : installed[k] = Order[k]

\* The instructions on the way.
Is(o, n, next) == Code[o].name = n /\ Code[o].next = next
LEMMA Stations ==
  /\ Is(0, "hlt", 1) /\ Is(1, "ud2", 3) /\ Is(2, "or", 4) /\ Is(3, "ud2", 5)
  /\ Is(4, "or", 6) /\ Is(5, "int3", 6) /\ Is(6, "int1", 7) /\ Is(7, "ud1", 10)
  /\ Is(9, "add", 11) /\ Is(11, "or", 13) /\ Is(13, "inc", 15)
  /\ Is(15, "vmcall", 18) /\ Is(17, "shl", 21) /\ Is(18, "mov", 22)
  /\ Is(21, "add", 23) /\ Is(22, "out", 23) /\ Is(23, "kill0", 27)
  /\ Is(24, "in", 25) /\ Is(25, "return", 30) /\ Is(26, "kill0", 27) /\ Is(27, "killill", 28)
<1>1. Is(0, "hlt", 1) /\ Is(1, "ud2", 3) /\ Is(2, "or", 4) /\ Is(3, "ud2", 5)
  BY DEF Is, Code, I, M
<1>2. Is(4, "or", 6) /\ Is(5, "int3", 6) /\ Is(6, "int1", 7) /\ Is(7, "ud1", 10)
  BY DEF Is, Code, I, M
<1>3. Is(9, "add", 11) /\ Is(11, "or", 13) /\ Is(13, "inc", 15)
  BY DEF Is, Code, I, M
<1>4. Is(15, "vmcall", 18) /\ Is(17, "shl", 21) /\ Is(18, "mov", 22)
  BY DEF Is, Code, I, M
<1>5. Is(21, "add", 23) /\ Is(22, "out", 23) /\ Is(23, "kill0", 27)
  BY DEF Is, Code, I, M
<1>6. Is(24, "in", 25) /\ Is(25, "return", 30) /\ Is(26, "kill0", 27) /\ Is(27, "killill", 28)
  BY DEF Is, Code, I, M
<1> QED  BY <1>1, <1>2, <1>3, <1>4, <1>5, <1>6

\* Main's last instruction is the only one on the way that kills it by SIGILL.
LEMMA LastStation ==
  ASSUME NEW o, o \in 0 .. 7 \/ o \in Late, Code[o].name = "killill"
  PROVE  o = 27
<1>1. o \notin {0, 1, 2, 3}
  BY Stations DEF Is
<1>2. o \notin {4, 5, 6, 7}
  BY Stations DEF Is
<1>3. o \notin {9, 11, 13, 15}
  BY Stations DEF Is
<1>4. o \notin {17, 18, 21, 22}
  BY Stations DEF Is
<1>5. o \notin {23, 24, 25, 26}
  BY Stations DEF Is
<1>6. CASE o \in 0 .. 7
  BY <1>1, <1>2, <1>6
<1>7. CASE o \in Late
  <2>1. o \in {9, 11, 13, 15} \cup {17, 18, 21, 22} \cup {23, 24, 25, 26} \cup {27}
    BY <1>7 DEF Late
  <2> QED  BY <2>1, <1>3, <1>4, <1>5
<1> QED  BY <1>6, <1>7

\* These never let main go on by itself.
LEMMA Trapping ==
  ASSUME TypeCorrect, Now.name \in Hlts \cup {"int1", "int3", "ud0", "ud1", "ud2"}
  PROVE  /\ Raises(Now)[1] # 0
         /\ Now.name \in {"int1", "int3"} =>
              Raises(Now)[1] = SIGTRAP /\ Raises(Now)[2] \in {SI_KERNEL, 1}
<1> DEFINE r == Raises(Now)
<1> USE DEF SIGTRAP, SIGILL, SIGSEGV, SI_KERNEL
<1>0. ~(Now.at \in DOMAIN memory /\ memory[Now.at] # 0)
  <2>1. ip \in 0 .. 30 /\ Now = Code[ip] /\ DOMAIN memory = Pointers
    BY DEF TypeCorrect, Now
  <2> QED  BY <2>1, Bytes DEF Illegals
<1>1. CASE Now.name \in Hlts
  <2>1. r = <<11, 128>>
    BY <1>0, <1>1 DEF Raises, Hlts
  <2> QED  BY <2>1, <1>1 DEF Hlts
<1>2. CASE Now.name = "int3"
  <2>1. r = <<5, 128>>
    BY <1>0, <1>2 DEF Raises
  <2> QED  BY <2>1
<1>3. CASE Now.name = "int1"
  <2>1. r = <<5, 1>>
    BY <1>0, <1>3 DEF Raises
  <2> QED  BY <2>1
<1>4. CASE Now.name \in {"ud0", "ud1", "ud2"}
  <2>1. r = <<4, 2>>
    BY <1>0, <1>4 DEF Raises
  <2> QED  BY <2>1, <1>4
<1> QED  BY <1>1, <1>2, <1>3, <1>4

\* Only these signals come of an instruction.
LEMMA Signalled ==
  ASSUME TypeCorrect
  PROVE  Raises(Now)[1] \in {0, SIGSEGV, SIGTRAP, SIGILL}
<1>1. Raises(Now) \in {0, SIGSEGV, SIGTRAP, SIGILL} \X Int
  BY DEF Raises, TypeCorrect, SIGTRAP, SIGILL, SIGSEGV, SI_KERNEL, MAPERR, ACCERR
<1> QED  BY <1>1

\* Before main runs, every signal has its handler, but SIGSEGV may be back at
\* its default.
LEMMA AllHandled ==
  ASSUME Installed, Len(installed) = Len(Order), NEW s \in Signals, s # SIGSEGV
  PROVE  Handled(s)
<1> USE DEF SIGILL, SIGTRAP, SIGUSR1, SIGSEGV, SIGINT, SIGCHLD
<1>1. PICK k \in 1 .. 6 : Order[k] = s
  BY DEF Signals, Order
<1>2. Len(Order) = 6
  BY DEF Order
<1>3. k \in DOMAIN installed /\ installed[k] = s
  BY <1>1, <1>2 DEF Installed
<1>4. s \in Range(installed)
  BY <1>3 DEF Range
<1> QED  BY <1>4 DEF Handled

LEMMA InstalledStep ==
  ASSUME Installed, [Next]_vars
  PROVE  Installed'
<1>1. CASE sigaction
  <2>1. /\ installed' = Append(installed, Order[Len(installed) + 1])
        /\ Len(installed) < 6 /\ installed \in Seq(Int)
    BY <1>1 DEF sigaction, Order, Installed
  <2>2. Order[Len(installed) + 1] \in Int
    BY <2>1 DEF Order, SIGILL, SIGTRAP, SIGUSR1, SIGSEGV, SIGINT, SIGCHLD
  <2>3. installed' \in Seq(Int) /\ Len(installed') = Len(installed) + 1
        /\ installed'[Len(installed) + 1] = Order[Len(installed) + 1]
        /\ \A k \in 1 .. Len(installed) : installed'[k] = installed[k]
    BY <2>1, <2>2
  <2> QED  BY <2>1, <2>3 DEF Installed
<1>2. CASE ~sigaction
  <2>1. installed' = installed
    BY <1>2 DEF Next, Run, Traps, kill, setcontext, other, hlt, Send, Deliver, vars
  <2> QED  BY <2>1 DEF Installed
<1> QED  BY <1>1, <1>2

-----------------------------------------------------------------------------
(* The way, step by step.                                                  *)

\* Main goes on to the next instruction.
LEMMA RunsOn ==
  ASSUME Inv, Way, Run
  PROVE  Way'
<1>1. /\ frames = <<>> /\ frames' = <<>> /\ ip' = Now.next /\ Now = Code[ip]
      /\ Raises(Now)[1] = 0 /\ Now.name \notin {"killill", "return"} /\ TypeCorrect
      /\ served' = served /\ arch' = arch /\ dead' = dead /\ dead = 0
  BY DEF Run, Ready, InMain, Alive, Now, world, Inv
<1>2. Place = ip /\ Place' = Now.next /\ ~Lost
  BY <1>1 DEF Place, Lost
<1>3. Now.name \notin Hlts \cup {"int1", "int3", "ud0", "ud1", "ud2"}
  BY <1>1, Trapping
<1>0. AsDue /\ AsDue' /\ Len(Expected)' = Len(Expected)
  BY <1>1 DEF Way, AsDue, Due, Expected
<1>4. CASE Early(ip, Len(served))
  <2>1. arch = "i386" /\ ip \in {2, 4} /\ Len(served) = 1
    BY <1>1, <1>3, <1>4, Stations, SMTT(40) DEF Early, Is, Hlts
  <2>2. Now.next \in {4, 6}
    BY <1>1, <2>1, Stations DEF Is
  <2>3. Early(Place, Len(served))'
    BY <1>1, <1>2, <2>1, <2>2 DEF Early
  <2> QED  BY <1>0, <2>3 DEF Way
<1>5. CASE ip \in Late /\ Len(served) >= Len(Expected)
  <2>1. Now.next \in Late
    <3>1. ip \in {9, 11, 13, 15, 17, 18, 21, 23, 26}
      BY <1>1, <1>3, <1>5, Stations, SMTT(40) DEF Late, Is, Hlts
    <3>2. CASE ip \in {9, 11, 13}
      BY <1>1, <3>2, Stations, SMTT(40) DEF Late, Is
    <3>3. CASE ip \in {15, 17, 18}
      BY <1>1, <3>3, Stations, SMTT(40) DEF Late, Is
    <3>4. CASE ip \in {21, 23, 26}
      BY <1>1, <3>4, Stations, SMTT(40) DEF Late, Is
    <3> QED  BY <3>1, <3>2, <3>3, <3>4
  <2> QED  BY <1>1, <1>2, <1>5, <1>0, <2>1 DEF Way
<1> QED  BY <1>2, <1>4, <1>5 DEF Way

\* A trap leaves main in its place.
LEMMA TrapStays ==
  ASSUME Inv, Installed, Way, Traps
  PROVE  Place' = Place /\ ~Lost
<1>1. /\ frames = <<>> /\ Now = Code[ip] /\ TypeCorrect /\ ip \in 0 .. 30 /\ dead = 0
      /\ Len(installed) = Len(Order)
      /\ ip' = (IF Now.name \in {"int1", "int3"} THEN Now.next ELSE ip)
      /\ Fault(Raises(Now)[1], Raises(Now)[2])
  BY DEF Traps, Ready, InMain, Alive, Now, Inv, TypeCorrect
<1>2. Place = ip /\ ~Lost
  BY <1>1 DEF Place, Lost
<1> DEFINE h == Frame(Raises(Now)[1], Raises(Now)[2])
<1>3. h.sig = Raises(Now)[1] /\ h.code = Raises(Now)[2]
  BY DEF Frame
<1>4. CASE Now.name \in {"int1", "int3"}
  <2>1. Raises(Now)[1] = SIGTRAP /\ Raises(Now)[2] \in {SI_KERNEL, 1}
    BY <1>1, <1>4, Trapping
  <2>2. Handled(SIGTRAP) /\ SIGTRAP \notin Blocked
    <3>1. SIGTRAP \in Signals /\ SIGTRAP # SIGSEGV
      BY DEF Signals, SIGTRAP, SIGSEGV
    <3> QED  BY <1>1, <3>1, AllHandled DEF Blocked
  <2>3. frames' = <<h>>
    BY <1>1, <2>1, <2>2 DEF Fault
  <2>4. frames'[1] = h /\ frames' # <<>>
    BY <2>3
  <2>5. ExecInt(h)
    BY <1>3, <2>1 DEF ExecInt
  <2>6. ip' = ip + 1
    BY <1>1, <1>4, Bytes
  <2> QED  BY <1>1, <1>2, <2>4, <2>5, <2>6 DEF Place, ExecInt
<1>5. CASE Now.name \notin {"int1", "int3"}
  <2>1. ip' = ip
    BY <1>1, <1>5
  <2>2. Raises(Now)[1] # SIGTRAP
    BY <1>1, <1>5, Fields
  <2>3. ~ExecInt(h)
    BY <1>3, <2>2 DEF ExecInt
  <2>4. frames' = <<>> \/ frames' = <<h>>
    BY <1>1 DEF Fault
  <2>5. frames' = <<>> \/ frames'[1] = h
    BY <2>4
  <2> QED  BY <1>2, <2>1, <2>3, <2>5 DEF Place, ExecInt
<1> QED  BY <1>2, <1>4, <1>5

\* What is served is the instruction main is at, and the way goes on behind it.
LEMMA ServedOne ==
  ASSUME Inv, Way, setcontext
  PROVE  LET n == Code[Place].name
         IN  /\ served' = Append(served, n) /\ Place' = ip'
             /\ n \in Hlts \cup Illegals \cup {"int1", "int3"}
             /\ ip' = Place + (IF n \in {"int1", "int3"} THEN 1
                             ELSE IF n \in Hlts /\ arch # "i386" THEN 1 ELSE 2)
             /\ ~Lost
<1>1. /\ Top = frames[1] /\ Top.code # SI_USER /\ frames' = <<>>
      /\ ip' = ip + Skip(frames[1]) /\ frames # <<>>
      /\ ExecInt(Top) \/ ExecHlt(Top) \/ Illegal(Top)
      /\ served' = Append(served, IF ExecInt(Top) THEN (IF Top.code = 1 THEN "int1" ELSE "int3")
                                 ELSE Code[ip].name)
  <2>1. frames # <<>> /\ dead = 0
    BY DEF setcontext, InTrap, Alive
  <2> QED  BY <2>1, GoesBack DEF setcontext, Now
<1>2. ip \in 0 .. 30 /\ dead = 0
  BY DEF setcontext, InTrap, Alive, Inv, TypeCorrect
<1>3. ~Lost /\ Place' = ip'
  BY <1>1, <1>2 DEF Lost, Place
<1>4. CASE ExecInt(Top)
  <2>1. Place = ip - 1 /\ Code[Place].name = (IF Top.code = 1 THEN "int1" ELSE "int3")
    BY <1>1, <1>4 DEF Place, Inv, Reports
  <2>2. ip' = Place + 1
    BY <1>1, <1>2, <1>4, <2>1 DEF Skip
  <2> QED  BY <1>1, <1>3, <1>4, <2>1, <2>2
<1>5. CASE ExecHlt(Top)
  <2>1. ~ExecInt(Top)
    BY <1>5 DEF ExecHlt, ExecInt, SIGSEGV, SIGTRAP
  <2>2. Place = ip /\ Code[ip].name \in Hlts
    BY <1>1, <1>5, <2>1 DEF Place, Inv, Reports
  <2>3. ip' = Place + (IF arch # "i386" THEN 1 ELSE 2)
    BY <1>1, <1>5, <2>1, <2>2 DEF Skip
  <2>4. Code[ip].name \notin {"int1", "int3"}
    BY <2>2 DEF Hlts
  <2> QED  BY <1>1, <1>3, <2>1, <2>2, <2>3, <2>4
<1>6. CASE Illegal(Top)
  <2>1. ~ExecInt(Top) /\ ~ExecHlt(Top)
    BY <1>6 DEF ExecHlt, ExecInt, Illegal, SIGSEGV, SIGTRAP, SIGILL
  <2>2. Place = ip /\ Code[ip].name \in Illegals
    BY <1>1, <1>6, <2>1 DEF Place, Inv, Reports
  <2>3. ip' = Place + 2
    BY <1>1, <2>1, <2>2 DEF Skip
  <2>4. Code[ip].name \notin Hlts \cup {"int1", "int3"}
    BY <2>2 DEF Hlts, Illegals
  <2> QED  BY <1>1, <1>3, <2>1, <2>2, <2>3, <2>4
<1> QED  BY <1>1, <1>4, <1>5, <1>6

\* What is due, by number.
LEMMA DueNames ==
  /\ arch = "i386" => /\ Len(Expected) = 3 /\ Expected[1] = "hlt"
                      /\ Expected[2] = "int1" /\ Expected[3] = "ud1"
  /\ arch # "i386" => /\ Len(Expected) = 6 /\ Expected[1] = "hlt"
                      /\ Expected[2] = "ud2" /\ Expected[3] = "ud2"
                      /\ Expected[4] = "int3" /\ Expected[5] = "int1"
                      /\ Expected[6] = "ud1"
<1>1. CASE arch = "i386"
  <2>1. Expected = <<"hlt", "int1", "ud1">>
    BY <1>1 DEF Expected
  <2> QED  BY <1>1, <2>1
<1>2. CASE arch # "i386"
  <2>1. Expected = <<"hlt", "ud2", "ud2", "int3", "int1", "ud1">>
    BY <1>2 DEF Expected
  <2> QED  BY <1>2, <2>1
<1> QED  BY <1>1, <1>2

\* One more, if it is due.
LEMMA OneMore ==
  ASSUME AsDue, NEW n \in Servable, served' = Append(served, n), arch' = arch,
         Due(Len(served) + 1, n)
  PROVE  /\ AsDue' /\ Len(served') = Len(served) + 1 /\ Len(served) \in Nat
         /\ Len(Expected)' = Len(Expected)
<1>1. served \in Seq(Servable) /\ Len(served) \in Nat /\ Expected' = Expected
  BY DEF AsDue, Expected
<1>2. /\ served' \in Seq(Servable) /\ Len(served') = Len(served) + 1
      /\ served'[Len(served) + 1] = n
      /\ \A k \in 1 .. Len(served) : served'[k] = served[k]
  BY <1>1
<1>3. ASSUME NEW k \in 1 .. Len(served')  PROVE Due(k, served'[k])
  <2>1. k = Len(served) + 1 \/ k \in 1 .. Len(served)
    BY <1>1, <1>2
  <2> QED  BY <1>2, <2>1 DEF AsDue
<1>4. \A k, m : Due(k, m)' = Due(k, m)
  BY <1>1 DEF Due
<1>5. \A k \in 1 .. Len(served') : Due(k, served[k])'
  BY <1>1, <1>3 DEF Due
<1> QED  BY <1>1, <1>2, <1>5 DEF AsDue

\* And main is where the next one is.
LEMMA Onwards ==
  ASSUME Way, NEW n \in Servable, served' = Append(served, n), arch' = arch,
         Place' = ip', Due(Len(served) + 1, n),
         \/ Early(ip', Len(served) + 1)
         \/ ip' \in Late /\ Len(served) + 1 >= Len(Expected)
  PROVE  Way'
<1>1. AsDue' /\ Len(served') = Len(served) + 1 /\ Len(Expected)' = Len(Expected)
  BY OneMore DEF Way
<1>2. Early(ip', Len(served) + 1) => Early(Place, Len(served))'
  BY <1>1 DEF Early
<1> QED  BY <1>1, <1>2 DEF Way

\* The instruction that is served is the one that is due.
LEMMA GoesOn ==
  ASSUME Inv, Way, setcontext
  PROVE  Way'
<1> DEFINE n == Code[Place].name
           l == Len(served)
<1>1. /\ served' = Append(served, n) /\ Place' = ip'
      /\ n \in Servable
      /\ ip' = Place + (IF n \in {"int1", "int3"} THEN 1
                      ELSE IF n \in Hlts /\ arch # "i386" THEN 1 ELSE 2)
      /\ ~Lost
  BY ServedOne DEF Servable
<1>2. arch' = arch /\ AsDue /\ l \in Nat
  BY DEF setcontext, world, Way, AsDue
<1>3. Len(Expected) \in Nat /\ (arch = "i386" => Len(Expected) = 3) /\ (arch # "i386" => Len(Expected) = 6)
  BY DueNames
<1>4. CASE Place \in Late /\ l >= Len(Expected)
  <2>1. Place \in {15, 22, 24}
    BY <1>1, <1>4, Stations DEF Late, Is, Servable, Hlts, Illegals
  <2>2. n \in {"vmcall", "out", "in"} /\ ip' \in Late
    <3>1. CASE Place = 15
      BY <1>1, <3>1, Stations DEF Is, Late, Hlts
    <3>2. CASE Place = 22
      BY <1>1, <3>2, Stations DEF Is, Late, Hlts
    <3>3. CASE Place = 24
      BY <1>1, <3>3, Stations DEF Is, Late, Hlts
    <3> QED  BY <2>1, <3>1, <3>2, <3>3
  <2>3. l + 1 >= Len(Expected) /\ ~(l + 1 <= Len(Expected))
    BY <1>2, <1>3, <1>4
  <2> HIDE DEF n, l
  <2>4. Due(l + 1, n)
    BY <2>2, <2>3 DEF Due
  <2> QED  BY <1>1, <1>2, <2>2, <2>3, <2>4, Onwards DEF l
<1>5. CASE Early(Place, l) /\ arch = "i386"
  <2>1. Place \in {0, 6, 7}
    BY <1>1, <1>5, Stations DEF Early, Is, Servable, Hlts, Illegals
  <2>2. CASE Place = 0
    <3>1. n = "hlt" /\ ip' = 2 /\ l = 0
      BY <1>1, <1>5, <2>2, Stations DEF Is, Hlts, Early
    <3> HIDE DEF n, l
    <3>2. Early(ip', l + 1)
      BY <1>5, <3>1 DEF Early
    <3>3. Due(l + 1, n)
      BY <1>5, <3>1, DueNames DEF Due
    <3> QED  BY <1>1, <1>2, <3>2, <3>3, Onwards DEF l
  <2>3. CASE Place = 6
    <3>1. n = "int1" /\ ip' = 7 /\ l = 1
      BY <1>1, <1>5, <2>3, Stations DEF Is, Hlts, Early
    <3> HIDE DEF n, l
    <3>2. Early(ip', l + 1)
      BY <1>5, <3>1 DEF Early
    <3>3. Due(l + 1, n)
      BY <1>5, <3>1, DueNames DEF Due
    <3> QED  BY <1>1, <1>2, <3>2, <3>3, Onwards DEF l
  <2>4. CASE Place = 7
    <3>1. n = "ud1" /\ ip' = 9 /\ l = 2
      BY <1>1, <1>5, <2>4, Stations DEF Is, Hlts, Early
    <3> HIDE DEF n, l
    <3>2. ip' \in Late
      BY <3>1 DEF Late
    <3>3. l = 2 /\ Len(Expected) = 3
      BY <1>3, <1>5, <3>1
    <3>4. l + 1 >= Len(Expected)
      BY <3>3
    <3>5. ip' \in Late /\ l + 1 >= Len(Expected)
      BY <3>2, <3>4
    <3>6. Due(l + 1, n)
      BY <1>5, <3>1, DueNames DEF Due
    <3> QED  BY <1>1, <1>2, <3>5, <3>6, Onwards DEF l
  <2> QED  BY <2>1, <2>2, <2>3, <2>4
<1>6. CASE Early(Place, l) /\ arch # "i386"
  <2>1. CASE Place = 0
    <3>1. n = "hlt" /\ ip' = 1 /\ l = 0
      BY <1>1, <1>6, <2>1, Stations DEF Is, Hlts, Early
    <3> HIDE DEF n, l
    <3>2. Early(ip', l + 1)
      BY <1>6, <3>1 DEF Early
    <3>3. Due(l + 1, n)
      BY <1>6, <3>1, DueNames DEF Due
    <3> QED  BY <1>1, <1>2, <3>2, <3>3, Onwards DEF l
  <2>2. CASE Place = 1
    <3>1. n = "ud2" /\ ip' = 3 /\ l = 1
      BY <1>1, <1>6, <2>2, Stations DEF Is, Hlts, Early
    <3> HIDE DEF n, l
    <3>2. Early(ip', l + 1)
      BY <1>6, <3>1 DEF Early
    <3>3. Due(l + 1, n)
      BY <1>6, <3>1, DueNames DEF Due
    <3> QED  BY <1>1, <1>2, <3>2, <3>3, Onwards DEF l
  <2>3. CASE Place = 3
    <3>1. n = "ud2" /\ ip' = 5 /\ l = 2
      BY <1>1, <1>6, <2>3, Stations DEF Is, Hlts, Early
    <3> HIDE DEF n, l
    <3>2. Early(ip', l + 1)
      BY <1>6, <3>1 DEF Early
    <3>3. Due(l + 1, n)
      BY <1>6, <3>1, DueNames DEF Due
    <3> QED  BY <1>1, <1>2, <3>2, <3>3, Onwards DEF l
  <2>4. CASE Place = 5
    <3>1. n = "int3" /\ ip' = 6 /\ l = 3
      BY <1>1, <1>6, <2>4, Stations DEF Is, Hlts, Early
    <3> HIDE DEF n, l
    <3>2. Early(ip', l + 1)
      BY <1>6, <3>1 DEF Early
    <3>3. Due(l + 1, n)
      BY <1>6, <3>1, DueNames DEF Due
    <3> QED  BY <1>1, <1>2, <3>2, <3>3, Onwards DEF l
  <2>5. CASE Place = 6
    <3>1. n = "int1" /\ ip' = 7 /\ l = 4
      BY <1>1, <1>6, <2>5, Stations DEF Is, Hlts, Early
    <3> HIDE DEF n, l
    <3>2. Early(ip', l + 1)
      BY <1>6, <3>1 DEF Early
    <3>3. Due(l + 1, n)
      BY <1>6, <3>1, DueNames DEF Due
    <3> QED  BY <1>1, <1>2, <3>2, <3>3, Onwards DEF l
  <2>6. CASE Place = 7
    <3>1. n = "ud1" /\ ip' = 9 /\ l = 5
      BY <1>1, <1>6, <2>6, Stations DEF Is, Hlts, Early
    <3> HIDE DEF n, l
    <3>2. ip' \in Late
      BY <3>1 DEF Late
    <3>3. l = 5 /\ Len(Expected) = 6
      BY <1>3, <1>6, <3>1
    <3>4. l + 1 >= Len(Expected)
      BY <3>3
    <3>5. ip' \in Late /\ l + 1 >= Len(Expected)
      BY <3>2, <3>4
    <3>6. Expected[6] = "ud1"
      BY <1>6, DueNames
    <3>7. Due(l + 1, n)
      BY <3>1, <3>6, <1>3, <1>6 DEF Due
    <3> QED  BY <1>1, <1>2, <3>5, <3>7, Onwards DEF l
  <2> QED  BY <1>6, <2>1, <2>2, <2>3, <2>4, <2>5, <2>6 DEF Early
<1> QED  BY <1>1, <1>4, <1>5, <1>6 DEF Way

\* A step that leaves main and what it has served alone.
LEMMA Stays ==
  ASSUME Way, Place' = Place, served' = served, arch' = arch, ~Lost \/ Lost'
  PROVE  Way'
<1>1. Expected' = Expected
  BY DEF Expected
<1>2. Early(Place, Len(served)) => Early(Place, Len(served))'
  BY DEF Early
<1>3. AsDue'
  BY <1>1 DEF AsDue, Due, Way
<1> QED  BY <1>1, <1>2, <1>3 DEF Way

LEMMA WayStep ==
  ASSUME Inv, Installed, Way, [Next]_vars
  PROVE  Way'
<1>0. TypeCorrect
  BY DEF Inv
<1>1. CASE sigaction
  <2>1. frames' = frames /\ ip' = ip /\ served' = served /\ arch' = arch /\ dead' = dead
    BY <1>1 DEF sigaction, world
  <2> QED  BY <2>1, Stays DEF Place, ExecInt, Lost
<1>2. CASE Run
  BY <1>2, RunsOn
<1>3. CASE Traps
  <2>1. served' = served /\ arch' = arch
    BY <1>3 DEF Traps, world
  <2> QED  BY <1>3, <2>1, TrapStays, Stays
<1>4. CASE kill
  <2>1. /\ frames = <<>> /\ dead = 0 /\ ip \in 0 .. 30 /\ Code[ip].name = "killill"
        /\ ip' = Code[ip].next /\ Fault(SIGILL, SI_USER)
        /\ served' = served /\ arch' = arch
    BY <1>0, <1>4 DEF kill, Ready, InMain, Alive, Now, world, TypeCorrect
  <2>2. Place = ip /\ ~Lost
    BY <2>1 DEF Place, Lost
  <2>3. ip = 27 /\ Len(served) >= Len(Expected)
    <3>1. Early(ip, Len(served)) \/ (ip \in Late /\ Len(served) >= Len(Expected))
      BY <2>2 DEF Way
    <3>2. CASE Early(ip, Len(served))
      <4>1. ip \in 0 .. 7
        BY <3>2 DEF Early
      <4> QED  BY <4>1, <2>1, LastStation
    <3>3. CASE ip \in Late /\ Len(served) >= Len(Expected)
      BY <3>3, <2>1, LastStation
    <3> QED  BY <3>1, <3>2, <3>3
  <2>4. ip' = 28
    BY <2>1, <2>3, Stations DEF Is
  <2>5. Lost' /\ Place' = ip'
    <3>1. CASE dead' = SIGILL /\ frames' = <<>>
      BY <3>1 DEF Lost, Place, SIGILL
    <3>2. CASE frames' = Append(frames, Frame(SIGILL, SI_USER))
      <4> DEFINE h == Frame(SIGILL, SI_USER)
      <4>1. h.sig = SIGILL /\ h.code = SI_USER
        BY DEF Frame
      <4>2. frames' = <<h>>
        BY <2>1, <3>2
      <4>3. frames' # <<>> /\ frames'[1] = h
        BY <4>2
      <4>4. ~ExecInt(h)
        BY <4>1 DEF ExecInt, SIGILL, SIGTRAP
      <4> QED  BY <4>1, <4>3, <4>4 DEF Lost, Place, ExecInt
    <3> QED  BY <2>1, <3>1, <3>2 DEF Fault
  <2>6. AsDue' /\ Len(Expected)' = Len(Expected)
    BY <2>1 DEF AsDue, Due, Way, Expected
  <2> QED  BY <2>1, <2>3, <2>4, <2>5, <2>6 DEF Way
<1>5. CASE setcontext
  BY <1>5, GoesOn
<1>6. CASE other \/ hlt
  <2>1. /\ frames # <<>> /\ ip' = ip /\ served' = served /\ arch' = arch /\ dead = 0
        /\ Len(frames) \in Nat \ {0} /\ frames \in Seq(Handlers)
    BY <1>0, <1>6 DEF other, hlt, InTrap, Alive, world, TypeCorrect
  <2>2. frames' # <<>> /\ frames'[1].sig = frames[1].sig /\ frames'[1].code = frames[1].code
    <3>1. CASE frames' = [frames EXCEPT ![Len(frames)].step = "hlt"]
      <4>1. frames[1] \in Handlers
        BY <2>1
      <4>2. frames' \in Seq(Handlers) /\ Len(frames') = Len(frames)
        <5>1. [frames[Len(frames)] EXCEPT !.step = "hlt"] \in Handlers
          <6>1. frames[Len(frames)] \in Handlers
            BY <2>1
          <6> QED  BY <6>1 DEF Handlers
        <5> QED  BY <2>1, <3>1, <5>1
      <4>3. frames' # <<>>
        BY <2>1, <4>2
      <4> QED  BY <2>1, <3>1, <4>1, <4>3 DEF Handlers
    <3>2. CASE \E h : frames' = Append(frames, h)
      <4>1. PICK h : frames' = Append(frames, h)
        BY <3>2
      <4> QED  BY <2>1, <4>1
    <3>3. CASE frames' = frames
      BY <2>1, <3>3
    <3> QED  BY <1>6, <3>1, <3>2, <3>3 DEF other, hlt, At, Fault
  <2> QED  BY <2>1, <2>2, Stays DEF Place, Lost, ExecInt
<1>7. ASSUME NEW s \in Signals, Send(s) \/ Deliver(s)
      PROVE  Way'
  <2>1. /\ ip' = ip /\ served' = served /\ arch' = arch /\ dead = 0
        /\ frames' = frames \/ frames' = Append(frames, Frame(s, SI_USER))
    BY <1>7 DEF Send, Deliver, Alive, world
  <2>2. CASE frames' = frames
    BY <2>1, <2>2, Stays DEF Place, Lost, ExecInt
  <2>3. CASE frames' = Append(frames, Frame(s, SI_USER)) /\ frames = <<>>
    <3> DEFINE h == Frame(s, SI_USER)
    <3>1. h.code = SI_USER
      BY DEF Frame
    <3>2. frames' = <<h>>
      BY <2>3
    <3>3. frames' # <<>> /\ frames'[1] = h
      BY <3>2
    <3>4. ~ExecInt(h)
      BY <3>1 DEF ExecInt, SI_USER, SI_KERNEL
    <3> QED  BY <2>1, <2>3, <3>1, <3>3, <3>4, Stays DEF Place, Lost, ExecInt
  <2>4. CASE frames' = Append(frames, Frame(s, SI_USER)) /\ frames # <<>>
    <3>1. frames' # <<>> /\ frames'[1] = frames[1]
      <4>1. frames \in Seq(Handlers) /\ Len(frames) \in Nat \ {0}
        BY <1>0, <2>4 DEF TypeCorrect
      <4> QED  BY <2>4, <4>1
    <3> QED  BY <2>1, <2>4, <3>1, Stays DEF Place, Lost, ExecInt
  <2> QED  BY <2>1, <2>2, <2>3, <2>4
<1>8. CASE UNCHANGED vars
  BY <1>8, Stays DEF vars, Place, Lost, ExecInt
<1> QED  BY <1>1, <1>2, <1>3, <1>4, <1>5, <1>6, <1>7, <1>8 DEF Next

\* What hello2's traps are taken for, in which order, on either processor:
\* the handler's two bytes for hlt and for illegal instructions make it pass
\* over some of main's traps, whatever the memory, the hypervisor and other
\* processes do.
THEOREM ServedInOrder == Spec => []Served
<1>1. Init => Installed /\ Way
  <2> SUFFICES ASSUME Init  PROVE Installed /\ Way
    OBVIOUS
  <2>1. installed = <<>> /\ served = <<>> /\ ip = 0 /\ frames = <<>>
    BY DEF Init
  <2>2. AsDue /\ Len(served) = 0
    BY <2>1 DEF AsDue
  <2>3. Early(Place, Len(served))
    BY <2>1, <2>2 DEF Early, Place
  <2> QED  BY <2>1, <2>2, <2>3 DEF Installed, Way
<1>2. Inv /\ Installed /\ Way /\ [Next]_vars => Installed' /\ Way'
  BY InstalledStep, WayStep
<1>3. Way => Served
  <2> SUFFICES ASSUME Way  PROVE Served
    OBVIOUS
  <2>1. /\ served \in Seq(Servable) /\ Len(served) \in Nat
        /\ \A k \in 1 .. Len(served) : Due(k, served[k])
    BY DEF Way, AsDue
  <2>2. Len(Expected) \in {3, 6} /\ Expected = [k \in 1 .. Len(Expected) |-> Expected[k]]
    <3> DEFINE S == {"hlt", "int1", "int3", "ud1", "ud2"}
    <3>1. Expected \in Seq(S)
      <4>1. CASE arch = "i386"
        <5>1. Expected = <<"hlt", "int1", "ud1">>
          BY <4>1 DEF Expected
        <5> QED  BY <5>1
      <4>2. CASE arch # "i386"
        <5>1. Expected = <<"hlt", "ud2", "ud2", "int3", "int1", "ud1">>
          BY <4>2 DEF Expected
        <5> QED  BY <5>1
      <4> QED  BY <4>1, <4>2
    <3> QED  BY <3>1, DueNames
  <2>3. \A k \in DOMAIN served : k > Len(Expected) => served[k] \in {"vmcall", "out", "in"}
    BY <2>1, <2>2 DEF Due
  <2>4. CASE Len(served) <= Len(Expected)
    <3>1. \A k \in 1 .. Len(served) : served[k] = Expected[k]
      BY <2>1, <2>2, <2>4 DEF Due
    <3>2. SubSeq(served, 1, Len(served)) = SubSeq(Expected, 1, Len(served))
      BY <2>1, <2>2, <2>4, <3>1
    <3> QED  BY <2>3, <2>4, <3>2 DEF Served, IsPrefix
  <2>5. CASE Len(served) > Len(Expected)
    <3>1. \A k \in 1 .. Len(Expected) : served[k] = Expected[k]
      BY <2>1, <2>2, <2>5 DEF Due
    <3>2. SubSeq(Expected, 1, Len(Expected)) = SubSeq(served, 1, Len(Expected))
      BY <2>1, <2>2, <2>5, <3>1
    <3>3. Len(Expected) <= Len(served) /\ Expected # served
      BY <2>1, <2>2, <2>5
    <3> QED  BY <2>3, <3>2, <3>3 DEF Served, IsPrefix, IsStrictPrefix
  <2> QED  BY <2>1, <2>2, <2>4, <2>5
<1> QED  BY <1>1, <1>2, <1>3, InvHolds, PTL DEF Spec

-----------------------------------------------------------------------------
(* What kills the process.                                                 *)

\* Once the six handlers are in place, nothing but SIGSEGV kills: the others
\* stay handled, and no fault of another kind comes up in a handler.
LEMMA KilledStep ==
  ASSUME Inv, Installed, KilledBySegv, [Next]_vars
  PROVE  KilledBySegv'
<1>1. ASSUME installed' = installed, dead' = dead  PROVE KilledBySegv'
  BY <1>1 DEF KilledBySegv
<1>2. ASSUME NEW s, NEW c, Fault(s, c), dead = 0, installed' = installed,
             Len(installed) = Len(Order) => s = SIGSEGV \/ (s \in Signals /\ s \notin Blocked)
      PROVE  KilledBySegv'
  <2>1. dead' = s \/ dead' = dead
    BY <1>2 DEF Fault
  <2>2. CASE Len(installed) = Len(Order) /\ s # SIGSEGV
    <3>1. Handled(s)
      BY <1>2, <2>2, AllHandled
    <3> QED  BY <1>2, <2>2, <3>1 DEF Fault, KilledBySegv
  <2> QED  BY <1>2, <2>1, <2>2 DEF KilledBySegv
<1>3. CASE sigaction
  BY <1>3 DEF sigaction, InMain, Alive, KilledBySegv
<1>4. CASE Run \/ setcontext \/ other \/ UNCHANGED vars
  BY <1>1, <1>4 DEF Run, setcontext, other, vars
<1>5. CASE Traps
  <2>1. /\ Fault(Raises(Now)[1], Raises(Now)[2]) /\ dead = 0 /\ installed' = installed
        /\ frames = <<>> /\ Raises(Now)[1] # 0
    BY <1>5 DEF Traps, Ready, InMain, Alive
  <2>2. Raises(Now)[1] \in Signals
    <3>1. Raises(Now)[1] \in {0, SIGSEGV, SIGTRAP, SIGILL}
      BY Signalled DEF Inv
    <3> QED  BY <2>1, <3>1 DEF Signals
  <2>3. Blocked = {}
    BY <2>1 DEF Blocked
  <2> QED  BY <1>2, <2>1, <2>2, <2>3
<1>6. CASE kill
  <2>1. Fault(SIGILL, SI_USER) /\ dead = 0 /\ installed' = installed /\ frames = <<>>
    BY <1>6 DEF kill, Ready, InMain, Alive
  <2>2. Blocked = {} /\ SIGILL \in Signals
    BY <2>1 DEF Blocked, Signals
  <2> QED  BY <1>2, <2>1, <2>2
<1>7. CASE hlt
  <2>1. Fault(SIGSEGV, SI_KERNEL) /\ dead = 0 /\ installed' = installed
    BY <1>7 DEF hlt, InTrap, Alive
  <2> QED  BY <1>2, <2>1
<1>8. ASSUME NEW s \in Signals, Send(s) \/ Deliver(s)  PROVE KilledBySegv'
  <2>1. CASE Send(s)
    BY <1>1, <2>1 DEF Send
  <2>2. CASE Deliver(s)
    <3>1. CASE Handled(s)
      BY <1>1, <2>2, <3>1 DEF Deliver
    <3>2. CASE ~Handled(s)
      <4>1. installed' = installed /\ dead' \in {0, s}
        BY <2>2, <3>2 DEF Deliver
      <4>2. Len(installed) = Len(Order) => s = SIGSEGV
        BY <3>2, AllHandled
      <4> QED  BY <4>1, <4>2 DEF KilledBySegv
    <3> QED  BY <3>1, <3>2
  <2> QED  BY <1>8, <2>1, <2>2
<1> QED  BY <1>3, <1>4, <1>5, <1>6, <1>7, <1>8 DEF Next

\* Whatever the processor misreads and whoever sends what: with the handlers in
\* place only SIGSEGV kills (the part of KilledInTheEnd that is no liveness).
THEOREM OnlySegvKills == Spec => []KilledBySegv
<1>1. Init => Installed /\ KilledBySegv
  <2> SUFFICES ASSUME Init  PROVE Installed /\ KilledBySegv
    OBVIOUS
  <2>1. installed = <<>> /\ dead = 0
    BY DEF Init
  <2> QED  BY <2>1 DEF Installed, KilledBySegv
<1>2. Inv /\ Installed /\ KilledBySegv /\ [Next]_vars => Installed' /\ KilledBySegv'
  BY InstalledStep, KilledStep
<1> QED  BY <1>1, <1>2, InvHolds, PTL DEF Spec
=============================================================================
