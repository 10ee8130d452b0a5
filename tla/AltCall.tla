------------------------------- MODULE AltCall -------------------------------
(***************************************************************************)
(* hello2.c, "alternative calling conventions": main runs instructions     *)
(* that trap, and a signal handler tells them apart by the siginfo fields, *)
(* moves the instruction pointer past them and goes on with setcontext.    *)
(* The processor, the kernel's delivery of signals and the processes that  *)
(* may send some are external.                                             *)
(***************************************************************************)
EXTENDS Integers, Sequences, SequencesExt, FiniteSets

CONSTANT MaxSent      \* how many signals other processes send, at most

ASSUME MaxSentAssumption == MaxSent \in Nat

SIGILL  == 4
SIGTRAP == 5
SIGUSR1 == 10
SIGSEGV == 11
SIGINT  == 2
SIGCHLD == 17
Signals == {SIGILL, SIGTRAP, SIGUSR1, SIGSEGV, SIGINT, SIGCHLD}
MAPERR    == 1
ACCERR    == 2
SI_USER   == 0
SI_KERNEL == 128

VARIABLES
  arch,       \* i386 or amd64
  memory,     \* the si_code of using the memory at edi, eax, esi; 0: none
  vmcall,     \* the hypervisor takes vmcall
  installed,  \* the signals sigaction has been called for
  default,    \* SIGSEGV has been put back to SIG_DFL
  ip,         \* the offset main is at, in the bytes of its asm statements
  frames,     \* the handlers running, the innermost last
  pending, sent,
  served,     \* the instructions the handler moved past, in order
  dead        \* 0, then the signal that killed the process
vars == <<arch, memory, vmcall, installed, default, ip, frames, pending, sent, served, dead>>
world == <<arch, memory, vmcall>>

(***************************************************************************)
(* main's bytes, f4 0f 0b 0f 0b cc f1 0f b9 00 0f 0b 0f ff 00 0f 01 c1 66  *)
(* ba f8 03 ee, decoded from every offset execution can come to: what it   *)
(* is, where the next one starts, and the register it finds memory at.     *)
(* From 23 on they are the compiler's: kill(0, 0), kill(0, SIGILL) and the *)
(* two traps behind it.  The first call starts with 83 ec 08, sub esp, 8:  *)
(* at 24 that is ec, in al,dx, and from 26 on the call's pushes.           *)
(***************************************************************************)
I(n, next)      == [name |-> n, next |-> next, at |-> "none"]
M(n, next, reg) == [name |-> n, next |-> next, at |-> reg]
Code == [o \in 0..30 |->
  CASE o = 0  -> I("hlt", 1)           [] o = 1  -> I("ud2", 3)
    [] o = 2  -> M("or", 4, "edi")     [] o = 3  -> I("ud2", 5)
    [] o = 4  -> I("or", 6)            [] o = 5  -> I("int3", 6)
    [] o = 6  -> I("int1", 7)          [] o = 7  -> I("ud1", 10)
    [] o = 9  -> M("add", 11, "edi")   [] o = 10 -> I("ud2", 12)
    [] o = 11 -> M("or", 13, "edi")    [] o = 12 -> I("ud0", 15)
    [] o = 13 -> M("inc", 15, "eax")   [] o = 14 -> M("add", 16, "edi")
    [] o = 15 -> I("vmcall", 18)       [] o = 16 -> I("add", 18)
    [] o = 17 -> M("shl", 21, "esi")   [] o = 18 -> I("mov", 22)
    [] o = 21 -> I("add", 23)          [] o = 22 -> I("out", 23)
    [] o = 23 -> I("kill0", 27)        [] o = 24 -> I("in", 25)
    [] o = 26 -> I("kill0", 27)        [] o = 27 -> I("killill", 28)
    [] o = 28 -> I("int3", 29)         [] o = 29 -> I("int1", 30)
    [] OTHER -> I("return", 30)]
Now == Code[ip]

\* What an instruction raises: a signal and its si_code.
Raises(i) ==
  CASE i.name \in {"hlt", "in", "out"} -> <<SIGSEGV, SI_KERNEL>>
    [] i.name = "int3" -> <<SIGTRAP, SI_KERNEL>>
    [] i.name = "int1" -> <<SIGTRAP, 1>>
    [] i.name \in {"ud0", "ud1", "ud2"} -> <<SIGILL, 2>>
    [] i.name = "vmcall" /\ ~vmcall -> <<SIGILL, 2>>
    [] i.at \in DOMAIN memory /\ memory[i.at] # 0 -> <<SIGSEGV, memory[i.at]>>
    [] OTHER -> <<0, 0>>

Pointers == {"edi", "eax", "esi"}
Init ==
  /\ arch \in {"i386", "amd64"} /\ vmcall \in BOOLEAN
  /\ \E bad \in SUBSET Pointers, code \in {MAPERR, ACCERR} :
        memory = [r \in Pointers |-> IF r \in bad THEN code ELSE 0]
  /\ installed = <<>> /\ default = FALSE /\ ip = 0 /\ frames = <<>>
  /\ pending = {} /\ sent = 0 /\ served = <<>> /\ dead = 0

Alive   == dead = 0
InMain  == Alive /\ frames = <<>>
Blocked == {frames[f].sig : f \in DOMAIN frames}     \* no SA_NODEFER
Handled(s) == s \in Range(installed) /\ ~(s = SIGSEGV /\ default)
Frame(s, c) == [sig |-> s, code |-> c, step |-> "entered"]
Top == Last(frames)

\* A fault cannot be put off: blocked or at its default, it kills.
Fault(s, c) ==
  IF s \in Blocked \/ ~Handled(s) THEN dead' = s /\ UNCHANGED frames
  ELSE frames' = Append(frames, Frame(s, c)) /\ UNCHANGED dead

(***************************************************************************)
(* main.                                                                   *)
(***************************************************************************)
Order == <<SIGTRAP, SIGSEGV, SIGUSR1, SIGINT, SIGILL, SIGCHLD>>
sigaction ==
  /\ InMain /\ Len(installed) < Len(Order)
  /\ installed' = Append(installed, Order[Len(installed) + 1])
  /\ UNCHANGED <<world, default, ip, frames, pending, sent, served, dead>>

Ready == InMain /\ Len(installed) = Len(Order)

Run ==        \* an instruction that raises nothing, misread ones included
  /\ Ready /\ Raises(Now)[1] = 0 /\ Now.name \notin {"killill", "return"}
  /\ ip' = Now.next
  /\ UNCHANGED <<world, installed, default, frames, pending, sent, served, dead>>

Traps ==      \* a trap leaves ip behind its instruction, a fault at it
  /\ Ready /\ Raises(Now)[1] # 0
  /\ Fault(Raises(Now)[1], Raises(Now)[2])
  /\ ip' = (IF Now.name \in {"int1", "int3"} THEN Now.next ELSE ip)
  /\ UNCHANGED <<world, installed, default, pending, sent, served>>

kill ==       \* kill(0, SIGILL) comes back only when its signal was handled
  /\ Ready /\ Now.name = "killill"
  /\ Fault(SIGILL, SI_USER) /\ ip' = Now.next
  /\ UNCHANGED <<world, installed, default, pending, sent, served>>

(***************************************************************************)
(* Signals of other processes.  A process cannot send another one a        *)
(* siginfo with a code above 0.                                            *)
(***************************************************************************)
Send(s) ==
  /\ Alive /\ sent < MaxSent /\ s \notin pending
  /\ pending' = pending \cup {s} /\ sent' = sent + 1
  /\ UNCHANGED <<world, installed, default, ip, frames, served, dead>>

Deliver(s) ==
  /\ Alive /\ s \in pending \ Blocked /\ pending' = pending \ {s}
  /\ IF Handled(s) THEN frames' = Append(frames, Frame(s, SI_USER)) /\ UNCHANGED dead
     ELSE dead' = (IF s = SIGCHLD THEN 0 ELSE s) /\ UNCHANGED frames
  /\ UNCHANGED <<world, installed, default, ip, sent, served>>

(***************************************************************************)
(* trap, the handler.                                                      *)
(***************************************************************************)
InTrap(step) == Alive /\ frames # <<>> /\ Top.step = step
At(step) == frames' = [frames EXCEPT ![Len(frames)].step = step]

Unmapped(f)  == f.sig = SIGSEGV /\ f.code = MAPERR
ExecInt(f)   == f.sig = SIGTRAP /\ f.code \in {SI_KERNEL, 1}
ExecHlt(f)   == f.sig = SIGSEGV /\ f.code = SI_KERNEL
IllegalAny(f) == f.sig = SIGILL          \* mutant: the code is not looked at
Illegal(f)   == f.sig = SIGILL /\ f.code > 0
SkipTwo(f) == IF ExecInt(f) THEN 0 ELSE 2   \* mutant: two bytes everywhere
Skip(f) == IF ExecInt(f) THEN 0
           ELSE IF ExecHlt(f) THEN (IF arch = "i386" THEN 2 ELSE 1) ELSE 2

\* setcontext puts back the registers and the signal mask.
setcontext ==
  /\ InTrap("entered") /\ (ExecInt(Top) \/ ExecHlt(Top) \/ Illegal(Top))
  /\ served' = Append(served, IF ExecInt(Top) THEN (IF Top.code = 1 THEN "int1" ELSE "int3")
                              ELSE Now.name)
  /\ ip' = ip + Skip(Top)
  /\ frames' = Front(frames)
  /\ UNCHANGED <<world, installed, default, pending, sent, dead>>

otherReturns ==   \* mutant: an unknown signal is just ignored
  /\ InTrap("entered") /\ ~(ExecInt(Top) \/ ExecHlt(Top) \/ Illegal(Top) \/ Unmapped(Top))
  /\ default' = TRUE /\ frames' = Front(frames)
  /\ UNCHANGED <<world, installed, ip, pending, sent, served, dead>>

other ==      \* RET OTHER: signal(SIGSEGV, SIG_DFL)
  /\ InTrap("entered") /\ ~(ExecInt(Top) \/ ExecHlt(Top) \/ Illegal(Top) \/ Unmapped(Top))
  /\ default' = TRUE /\ At("hlt")
  /\ UNCHANGED <<world, installed, ip, pending, sent, served, dead>>

hlt ==        \* the handler's own hlt
  /\ InTrap("hlt") \/ (InTrap("entered") /\ Unmapped(Top))
  /\ Fault(SIGSEGV, SI_KERNEL)
  /\ UNCHANGED <<world, installed, default, ip, pending, sent, served>>

Next ==
  \/ sigaction \/ Run \/ Traps \/ kill \/ setcontext \/ other \/ hlt
  \/ \E s \in Signals : Send(s) \/ Deliver(s)

\* The process runs and the kernel delivers; nobody has to send.
Process == sigaction \/ Run \/ Traps \/ kill \/ setcontext \/ other \/ hlt
Spec == Init /\ [][Next]_vars /\ WF_vars(Process)

(***************************************************************************)
(* "We can filter out 'real' signals from ones created by int1.. by the    *)
(* siginfo fields": main moves on from a handler only past an instruction  *)
(* of its own that trapped, once, and never because of a signal someone    *)
(* sent; nor does one the handler is interrupted by let it come back.      *)
(***************************************************************************)
Filters ==
  [][served' # served =>
       /\ Len(frames) = 1 /\ Top.code # SI_USER
       /\ served' = Append(served, Code[IF ExecInt(Top) THEN ip - 1 ELSE ip].name)]_vars

(***************************************************************************)
(* What is served, and in which order.  On amd64 hlt is passed exactly and *)
(* the traps come one by one; on i386 the two bytes of its skip make the   *)
(* processor misread both ud2 and int3.  The ud2 and ud0 written as bytes  *)
(* are misread on either, behind a ud1 of three bytes.                     *)
(***************************************************************************)
Expected == IF arch = "i386" THEN <<"hlt", "int1", "ud1">>
            ELSE <<"hlt", "ud2", "ud2", "int3", "int1", "ud1">>
Served ==
  /\ IsPrefix(served, Expected) \/ IsStrictPrefix(Expected, served)
  /\ \A k \in DOMAIN served : k > Len(Expected) => served[k] \in {"vmcall", "out", "in"}

(***************************************************************************)
(* main never returns: whatever the processor misreads and whoever sends   *)
(* what, the process is killed, and by SIGSEGV once its handlers are in    *)
(* place.  (A main that came to its return would stop there alive.)        *)
(***************************************************************************)
KilledBySegv == dead # 0 /\ Len(installed) = Len(Order) => dead = SIGSEGV
KilledInTheEnd == <>(dead \in Signals) /\ []KilledBySegv
=============================================================================
