------------------------------- MODULE EnvStr --------------------------------
(***************************************************************************)
(* envstr.c: starts at the first argument's text, goes up the stack word   *)
(* by word until a word of zeros, and prints all it has passed.  The block *)
(* of strings at the top of the stack is the kernel's (external): the      *)
(* arguments, the environment and the program's file name, each with its   *)
(* NUL, and a null pointer of the kernel's width up to the end of memory.  *)
(*                                                                         *)
(* A byte matters only for being zero or not.                              *)
(***************************************************************************)
EXTENDS Integers, Sequences

CONSTANTS
  Texts,        \* what the strings may be: TRUE for a zero byte, a string's NUL
  Statuses      \* the number of exit statuses; 256 in the kernel

\* The last string, the program's file name, is not empty.
ASSUME EnvStrAssumption ==
  /\ Statuses \in Nat \ {0}
  /\ \A t \in Texts :
       /\ t \in Seq(BOOLEAN) /\ Len(t) > 1
       /\ t[Len(t)] /\ ~t[Len(t) - 1]

VARIABLES
  strings, pointer,     \* the strings' bytes, and the size of a kernel pointer
  stack,                \* stack - orig, in bytes
  shown,                \* how many words the loop has written out
  pc, ret, status
vars == <<strings, pointer, stack, shown, pc, ret, status>>

\* The block, up to the end of memory.
Size == Len(strings) + pointer
Block == [k \in 1..Size |-> IF k <= Len(strings) THEN strings[k] ELSE TRUE]

Init ==
  /\ strings \in Texts /\ pointer \in {4, 8}
  /\ stack = 0 /\ shown = 0 /\ pc = "while" /\ ret = 0 /\ status = -1

\* *stack++ reads four bytes, whatever their alignment; there is nothing
\* mapped behind the block.
Inside(o) == o + 4 <= Size
ZeroLong(o) == \A k \in (o + 1)..(o + 8) : k \in DOMAIN Block /\ Block[k]   \* mutant: eight bytes
ZeroByte(o) == \E k \in (o + 1)..(o + 4) : Block[k]                        \* mutant: any byte
Zero(o)   == \A k \in (o + 1)..(o + 4) : Block[k]

while ==
  /\ pc = "while" /\ Inside(stack)
  /\ stack' = stack + 4
  /\ pc' = (IF Zero(stack) THEN "write" ELSE "body")
  /\ UNCHANGED <<strings, pointer, shown, ret, status>>

segv ==
  /\ pc = "while" /\ ~Inside(stack) /\ pc' = "segv"
  /\ UNCHANGED <<strings, pointer, stack, shown, ret, status>>

\* write(1, stack, 4): the word after the one tested; its result is not used.
body ==
  /\ pc = "body" /\ pc' = "while" /\ shown' = shown + 1
  /\ UNCHANGED <<strings, pointer, stack, ret, status>>

\* ret = write(STDOUT_FILENO, orig, stacksize): all, less, or an error.
write ==
  /\ pc = "write" /\ pc' = "exit"
  /\ ret' \in {stack, 1, -9}
  /\ UNCHANGED <<strings, pointer, stack, shown, status>>

exit ==
  /\ pc = "exit" /\ pc' = "end" /\ status' = ret % Statuses
  /\ UNCHANGED <<strings, pointer, stack, shown, ret>>

Next == while \/ segv \/ body \/ write \/ exit
Spec == Init /\ [][Next]_vars

(***************************************************************************)
(* The walk leaves the stack only under a 32-bit kernel, and only when the *)
(* block's size is two or three more than a multiple of four: the five     *)
(* zeros at its end then hold no whole word the walk looks at.             *)
(***************************************************************************)
FallsOffOnlyUnaligned == pc = "segv" => pointer = 4 /\ Size % 4 \in {2, 3}

(***************************************************************************)
(* All strings are printed up to the last one's NUL, unless three empty    *)
(* ones in a row, behind the NUL of another string or at the start before  *)
(* a fourth, make up a word of zeros; and nothing behind the block is      *)
(* printed.                                                                *)
(***************************************************************************)
EmptyRun == \E k \in 1..(Len(strings) - 3) : \A j \in k..(k + 3) : strings[j]
PrintsAll ==
  pc \in {"write", "exit", "end"} =>
    /\ stack >= Len(strings) - 1 \/ EmptyRun
    /\ stack <= Size /\ shown = stack \div 4 - 1
=============================================================================
