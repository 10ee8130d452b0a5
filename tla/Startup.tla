------------------------------- MODULE Startup -------------------------------
(***************************************************************************)
(* The small C programs of the repository and the way they start and       *)
(* leave: hello5.c, hello6.c and hello7.c with a main, built with a _start *)
(* of their own (NOSTART) or with the C library's; 42.c, which is only a   *)
(* _start that leaves at once; hep.c, whose _start prints; dl.c, which     *)
(* loads the C library by hand; and a main that calls puts through the     *)
(* IMPORT macros of dl.h, with the three ways out that main has: return to *)
(* the C library's start, mini.h's _exit and the end of mini.h's _start.   *)
(* (mini.h:99 now leaves before that end; Symbols has that call.)  stdio,  *)
(* exit and the loader's dlopen, dlsym and dlerror are external.           *)
(***************************************************************************)
EXTENDS Integers, Sequences

CONSTANTS
  MUL,      \* hello6.c's factor, a macro of its build
  Args,     \* numbers of arguments considered
  Garbage   \* values an int may have that no one has set

ASSUME StartupAssumption == MUL \in Nat /\ Args \subseteq Nat /\ Garbage \subseteq Nat

VARIABLES
  prog,     \* the program
  nostart,  \* built with NOSTART
  debug,    \* built with DEBUG
  tty,      \* standard output is a terminal
  argc,     \* what main finds for argc
  found,    \* the names the loader resolves; dlopen fails without "libc"
  dlsym2,   \* dl.h's DLSYM has been set
  at,       \* position in Code(prog)
  ptr,      \* the function pointer just obtained, or "NULL"
  ret,      \* main's value
  buffer,   \* stdout's buffer holds the greeting
  screen,   \* the greeting was written
  dlerror,  \* an error of the dynamic loader is pending
  how       \* "" while running, then how the program ended
vars == <<prog, nostart, debug, tty, argc, found, dlsym2, at, ptr, ret, buffer, screen, dlerror, how>>
build == <<prog, nostart, debug, tty, argc, found, dlsym2>>

(***************************************************************************)
(* Each program, as the calls it makes.                                    *)
(***************************************************************************)
Leave == IF nostart THEN "_exit" ELSE "exit"
hello5  == <<"puts", "falloff", Leave>>
hello6  == <<"product", Leave>>
hello7  == <<"return42", Leave>>
hep     == <<"puts", "return0", "_exit">>
just42  == <<"return42", "_exit">>
dl      == <<"dlopen", "checkhandle", "dlsym", "checkerror", "call", "falloff", "exit">>
IMPORT  == <<"DLSYM_puts", "dlerr", "call", "return0">>
mini_end   == <<"DLSYM_exit", "dlerr", "call">>
mini__exit == <<"DLSYM__exit", "dlerr", "call">>
Code(p) ==
  CASE p = "hello5" -> hello5 [] p = "hello6" -> hello6 [] p = "hello7" -> hello7
    [] p = "hep" -> hep [] p = "42" -> just42 [] p = "dl" -> dl
    [] p = "import" -> Append(IMPORT, "exit")
    [] p = "import_end" -> IMPORT \o mini_end
    [] p = "import__exit" -> IMPORT \o mini__exit
Importers == {"import", "import_end", "import__exit"}
Programs == {"hello5", "hello6", "hello7", "hep", "42", "dl"} \cup Importers

Init ==
  /\ prog \in Programs /\ nostart \in BOOLEAN /\ debug \in BOOLEAN /\ tty \in BOOLEAN
  /\ prog \in Importers => nostart = (prog # "import")
  /\ argc \in (IF nostart THEN Garbage ELSE Args)      \* _start passes none
  /\ found \in SUBSET {"libc", "puts", "exit", "_exit"}
  /\ (prog \notin Importers \cup {"dl"} => found = {"libc", "puts", "exit", "_exit"})
  /\ dlsym2 \in (IF prog \in Importers THEN BOOLEAN ELSE {TRUE})
  /\ at = 1 /\ ptr = "NULL" /\ ret = 0 /\ how = ""
  /\ buffer = FALSE /\ screen = FALSE /\ dlerror = FALSE

Op(o)   == how = "" /\ Code(prog)[at] = o
Then    == at' = at + 1 /\ how' = how
End(h)  == how' = h /\ at' = at

(***************************************************************************)
(* The calls.                                                              *)
(***************************************************************************)
\* puts writes through at once to a terminal only.
Puts == IF tty THEN screen' = TRUE /\ UNCHANGED buffer ELSE buffer' = TRUE /\ UNCHANGED screen
puts == Op("puts") /\ Puts /\ Then /\ UNCHANGED <<build, ptr, ret, dlerror>>

return42 == Op("return42") /\ ret' = 42 /\ Then /\ UNCHANGED <<build, ptr, buffer, screen, dlerror>>
return0  == Op("return0") /\ ret' = 0 /\ Then /\ UNCHANGED <<build, ptr, buffer, screen, dlerror>>
product  == Op("product") /\ ret' = MUL * argc /\ Then /\ UNCHANGED <<build, ptr, buffer, screen, dlerror>>

\* Mutant: the missing return leaves the status open in either build.
falloffOpen ==
  /\ Op("falloff")
  /\ ret' \in (IF prog = "hello5" THEN Garbage ELSE {0})
  /\ Then /\ UNCHANGED <<build, ptr, buffer, screen, dlerror>>

\* The end of main without a return is 0 in main only, and fakemain is not main.
falloff ==
  /\ Op("falloff")
  /\ ret' \in (IF nostart /\ prog = "hello5" THEN Garbage ELSE {0})
  /\ Then /\ UNCHANGED <<build, ptr, buffer, screen, dlerror>>

\* Mutant: exit without its flush.
exitUnflushed == Op("exit") /\ End("exit") /\ UNCHANGED <<build, ptr, ret, buffer, screen, dlerror>>

\* exit writes out what stdio has in its buffer.
Flush == screen' = (screen \/ buffer) /\ buffer' = FALSE
exit  == Op("exit") /\ Flush /\ End("exit") /\ UNCHANGED <<build, ptr, ret, dlerror>>
_exit == Op("_exit") /\ End("exit") /\ UNCHANGED <<build, ptr, ret, buffer, screen, dlerror>>

(***************************************************************************)
(* dl.c: dlopen and dlsym by hand, with tests in a DEBUG build only.       *)
(* Without a handle, dlsym(NULL, ...) asks the objects already loaded.     *)
(***************************************************************************)
dlopen ==
  /\ Op("dlopen") /\ dlerror' = ("libc" \notin found)
  /\ Then /\ UNCHANGED <<build, ptr, ret, buffer, screen>>
checkhandle ==      \* if (!handle), and the error cleared
  /\ Op("checkhandle")
  /\ IF debug /\ "libc" \notin found THEN End("failure") ELSE Then
  /\ dlerror' = (dlerror /\ ~debug)
  /\ UNCHANGED <<build, ptr, ret, buffer, screen>>
Resolve(n) ==
  /\ ptr' = (IF n \in found THEN n ELSE "NULL")
  /\ dlerror' = (dlerror \/ n \notin found)
dlsym ==
  /\ Op("dlsym") /\ Resolve("puts") /\ Then /\ UNCHANGED <<build, ret, buffer, screen>>
checkerrorNot ==    \* mutant: the error is not looked at
  /\ Op("checkerror") /\ Then /\ UNCHANGED <<build, ptr, ret, buffer, screen, dlerror>>
checkerror ==
  /\ Op("checkerror")
  /\ IF debug /\ dlerror THEN End("failure") ELSE Then
  /\ UNCHANGED <<build, ptr, ret, buffer, screen, dlerror>>
call ==             \* through the pointer
  /\ Op("call")
  /\ \/ ptr = "puts" /\ Puts /\ Then
     \/ ptr = "exit" /\ Flush /\ End("exit")
     \/ ptr = "_exit" /\ End("exit") /\ UNCHANGED <<buffer, screen>>
     \/ ptr = "NULL" /\ End("segv") /\ UNCHANGED <<buffer, screen>>
  /\ UNCHANGED <<build, ptr, ret, dlerror>>

(***************************************************************************)
(* dl.h: IMPORT_STACK_PARTIAL asks the loader on every call, then dlerr    *)
(* (DEBUG) prints the error by a puts it imports itself, and stops at      *)
(* ABORT's int 3.                                                          *)
(***************************************************************************)
Asks == [DLSYM_puts |-> "puts", DLSYM_exit |-> "exit", DLSYM__exit |-> "_exit"]
DLSYM ==
  /\ \E o \in DOMAIN Asks :
       /\ Op(o)
       /\ IF dlsym2 THEN Resolve(Asks[o]) /\ Then ELSE End("segv") /\ UNCHANGED <<ptr, dlerror>>
  /\ UNCHANGED <<build, ret, buffer, screen>>
dlerr ==
  /\ Op("dlerr")
  /\ IF debug /\ dlerror
     THEN End(IF "puts" \in found THEN "trap" ELSE "segv") /\ dlerror' = FALSE
     ELSE Then /\ UNCHANGED dlerror
  /\ UNCHANGED <<build, ptr, ret, buffer, screen>>

Next == puts \/ return42 \/ return0 \/ product \/ falloff \/ exit \/ _exit \/ dlopen
          \/ checkhandle \/ dlsym \/ checkerror \/ call \/ DLSYM \/ dlerr
Spec == Init /\ [][Next]_vars

-----------------------------------------------------------------------------
Greets == prog \in {"hello5", "hep", "dl"} \cup Importers
Flushes == prog \notin {"hep", "import__exit"} /\ ~(prog = "hello5" /\ nostart)

(***************************************************************************)
(* A program that ends by itself has greeted, except one that leaves by    *)
(* _exit with its output in a pipe or a file: the greeting is then still   *)
(* in stdio's buffer, and is gone.                                         *)
(***************************************************************************)
GreetingOut == how = "exit" /\ Greets => (screen <=> tty \/ Flushes)

\* The names a program needs.  Without DEBUG dl.c does not see that the library
\* is missing: puts is then looked for in the objects already loaded.
Wanted ==
  CASE prog = "dl" -> IF debug THEN {"libc", "puts"} ELSE {"puts"}
    [] prog = "import_end" -> {"puts", "exit"}
    [] prog = "import__exit" -> {"puts", "_exit"}
    [] OTHER -> {"puts"}

(***************************************************************************)
(* A program that ends by itself has found all it asked for, exit          *)
(* included.  With DEBUG dl.c reports what is missing and stops, and so    *)
(* does dl.h's dlerr, in a trap, but by way of puts: it cannot report that *)
(* puts is missing.  Without DEBUG the missing function is called at       *)
(* address 0, also when the program only wants to leave.                   *)
(***************************************************************************)
MissingReported ==
  how # "" =>
    /\ how = "exit" <=> Wanted \subseteq found /\ dlsym2
    /\ how = "failure" => prog = "dl" /\ debug
    /\ how = "trap" => prog \in Importers /\ debug /\ "puts" \in found
    /\ how = "segv" => ~debug \/ (prog \in Importers /\ ("puts" \notin found \/ ~dlsym2))

(***************************************************************************)
(* The parent gets main's value, if it fits in a byte, with NOSTART or     *)
(* without; but not from hello5.c and hello6.c with NOSTART: main is then  *)
(* fakemain, whose end is no return 0, and which is passed no argc.        *)
(***************************************************************************)
StatusTells ==
  LET status == ret % 256
  IN  how = "exit" =>
        CASE prog \in {"hello7", "42"} -> status = 42
          [] prog = "hello5" -> nostart \/ status = 0
          [] prog = "hello6" -> nostart \/ MUL * argc > 255 \/ status = MUL * argc
          [] OTHER -> status = 0

=============================================================================
