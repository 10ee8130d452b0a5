------------------------------- MODULE Symbols -------------------------------
(***************************************************************************)
(* The three symbol lookups of the C experiments, and the code that calls  *)
(* them before it has a C library to lean on:                              *)
(*   dnl     dnl.c, called by _start of mini.h and main of hello.c         *)
(*   heb     heb.c, called by its main; leaves the address in dlsym2       *)
(*   dnload  dnload.c, called by dnload() for each entry of a table        *)
(* They walk ld.so's list of loaded objects and read the tables of each.   *)
(***************************************************************************)
EXTENDS LinkMap

CONSTANTS
  TableNames,   \* the functions of g_symbol_table, in order; 24 in the code
  ExitName      \* the name of libc's exit

ASSUME SymbolsAssumption ==
  TableNames \in Seq(Seq(Byte)) /\ ExitName \in Seq(Byte)

VARIABLES
  prog,     \* "dnl", "heb" or "dnload"
  loader,   \* ld.so started the program (else the kernel did)
  libs,     \* the link map
  pc,
  key,      \* what is looked for
  cur,      \* lmap: index of the object at hand, or Null
  d,        \* dynamic: index of the entry at hand
  tab,      \* strtab, symtab, hashtable
  i,        \* the symbol loop's counter
  val,      \* loopy's return value (dnl)
  answer,   \* what dnload_find_symbol returned; dlsym2 in heb
  table,    \* g_symbol_table: hashes, replaced by addresses one by one
  status    \* the exit status, once there is one
vars == <<prog, loader, libs, pc, key, cur, d, tab, i, val, answer, table, status>>

Null == Len(libs) + 1           \* l_next of the last object
lib  == libs[cur]
Unset == -1
NoTables == [t \in Tables |-> 0]
Word(w)  == [hash |-> w, addr |-> Unset]     \* an entry still to be replaced

Init ==
  /\ prog \in {"dnl", "heb", "dnload"} /\ loader \in BOOLEAN /\ libs \in LinkMaps
  /\ pc = "start" /\ key = <<>> /\ cur = 0 /\ d = 0 /\ tab = NoTables /\ i = 0
  /\ val = 0 /\ answer = 0 /\ status = Unset
  /\ table = [k \in DOMAIN TableNames |-> Word(KeyOf("dnload", TableNames[k]))]

Goto(l) == pc' = l
Crash   == Goto("crash")
started == <<prog, loader, libs>>

(***************************************************************************)
(* The callers.                                                            *)
(***************************************************************************)
\* The loop counter ii of dnload(): the entries are replaced in order.
Next24(t) == CHOOSE k \in DOMAIN t : t[k].addr = Unset /\ \A j \in 1..(k - 1) : t[j].addr # Unset
Done24(t) == \A k \in DOMAIN t : t[k].addr # Unset

\* _start: eax holds the link map when ld.so jumps here, 0 when the kernel does.
_start ==
  /\ prog = "dnl" /\ pc = "start"
  /\ key' = bswap32(bswap32(Int4(ExitName)))   \* 'exit' reversed, and back by DNLOAD
  /\ cur' = (IF loader THEN 1 ELSE Null)
  /\ Goto("lib") /\ UNCHANGED <<started, d, tab, i, val, answer, table, status>>

\* exit2(111); what follows it in _start is never reached.
exit2 ==
  /\ prog = "dnl" /\ pc = "found"
  /\ IF \E l \in DOMAIN libs : \E s \in DOMAIN libs[l].syms :
          libs[l].syms[s].name = ExitName /\ libs[l].syms[s].value # 0
             /\ Val(libs[l], s) = answer
     THEN Goto("end") /\ status' = 111     \* anywhere else: a jump into the wild
     ELSE Goto("wild") /\ UNCHANGED status
  /\ UNCHANGED <<started, key, cur, d, tab, i, val, answer, table>>

\* The link map through the header at the fixed address of the program, its
\* PT_DYNAMIC and the r_debug ld.so left at DT_DEBUG; else the read faults.
elf32_get_link_map == loader /\ libs[1].base = 0 /\ Has(libs[1], "DEBUG")

Dlsy == <<100, 108, 115, 121>>      \* 0x79736c64, "dlsy"
main ==
  /\ prog = "heb" /\ pc = "start"
  /\ key' = Dlsy
  /\ elf32_get_link_map /\ cur' = 1 /\ Goto("lib")
  /\ UNCHANGED <<started, d, tab, i, val, answer, table, status>>

NoMap ==
  /\ prog # "dnl" /\ pc = "start" /\ (prog = "dnload" => ~Done24(table))
  /\ ~elf32_get_link_map /\ Goto("nomap")
  /\ UNCHANGED <<started, key, cur, d, tab, i, val, answer, table, status>>

\* Mutant: main returns what it has found.
return42Found ==
  /\ prog = "heb" /\ pc = "found"
  /\ Goto("end") /\ status' = answer
  /\ UNCHANGED <<started, key, cur, d, tab, i, val, answer, table>>

return42 ==
  /\ prog = "heb" /\ pc = "found"
  /\ Goto("end") /\ status' = 42
  /\ UNCHANGED <<started, key, cur, d, tab, i, val, answer, table>>

dnload ==
  /\ prog = "dnload" /\ pc = "start" /\ ~Done24(table)
  /\ key' = table[Next24(table)].hash
  /\ elf32_get_link_map /\ cur' = 1 /\ Goto("lib")
  /\ UNCHANGED <<started, d, tab, i, val, answer, table, status>>

\* Mutant: the entry pointer is not moved on.
dnloadStoresFirst ==
  /\ prog = "dnload" /\ pc = "found"
  /\ table' = [table EXCEPT ![1].addr = answer]
  /\ Goto("start") /\ UNCHANGED <<started, key, cur, d, tab, i, val, answer, status>>

dnloadStores ==
  /\ prog = "dnload" /\ pc = "found"
  /\ table' = [table EXCEPT ![Next24(table)].addr = answer]
  /\ Goto("start") /\ UNCHANGED <<started, key, cur, d, tab, i, val, answer, status>>

(***************************************************************************)
(* One object: find its tables.                                            *)
(***************************************************************************)
\* lmap is 0: heb.c returns; dnl.c (built without SAFER) and dnload.c read it.
EndOfMap ==
  /\ pc = "lib" /\ cur = Null
  /\ Goto(IF prog = "heb" THEN "found" ELSE "crash")
  /\ UNCHANGED <<started, key, cur, d, tab, i, val, answer, table, status>>

\* In heb.c strtab and symtab keep what the stack held, the last object's.
Object1 ==
  /\ pc = "lib" /\ cur # Null /\ prog # "dnload"
  /\ d' = 1
  /\ tab' = (IF prog = "heb" THEN [tab EXCEPT !["HASH"] = 0] ELSE NoTables)
  /\ Goto("dyn") /\ UNCHANGED <<started, key, cur, i, val, answer, table, status>>

DynEntry ==
  /\ pc = "dyn" /\ d <= Len(lib.dyn)
  /\ LET t == lib.dyn[d].tag
     IN  tab' = IF t \in Tables
                THEN [tab EXCEPT ![t] = FixUp(DPtr(lib, d), lib.base)] ELSE tab
  /\ d' = d + 1
  /\ UNCHANGED <<started, pc, key, cur, i, val, answer, table, status>>

\* DT_NULL: without a hash table the object is left out.
DynEnd ==
  /\ pc = "dyn" /\ d > Len(lib.dyn)
  /\ IF tab["HASH"] = 0
     THEN Goto("next") /\ UNCHANGED <<i, val>>
     ELSE /\ i' = (IF prog = "dnl" THEN Len(lib.syms) ELSE 0)
          /\ val' = 0 /\ Goto("loop")
  /\ UNCHANGED <<started, key, cur, d, tab, answer, table, status>>

\* elf32_get_dynamic_address_by_tag of dnload.c does not stop at DT_NULL.
ThreeTags ==
  /\ pc = "lib" /\ cur # Null /\ prog = "dnload"
  /\ IF \A t \in Tables : Has(lib, t)
     THEN /\ tab' = [t \in Tables |->
                       LET k == CHOOSE k \in DOMAIN lib.dyn : lib.dyn[k].tag = t
                       IN  FixUp(DPtr(lib, k), lib.base)]
          /\ i' = 0 /\ Goto("loop")
     ELSE Crash /\ UNCHANGED <<tab, i>>
  /\ UNCHANGED <<started, key, cur, d, val, answer, table, status>>

(***************************************************************************)
(* One object: go through its symbols.                                     *)
(***************************************************************************)
Matching(j) == KeyOf(prog, lib.syms[j].name) = key

\* Mutant: the counter goes down between the test and the use.
loopyBelow ==
  /\ prog = "dnl" /\ pc = "loop"
  /\ IF i = 0 THEN Goto("tested") /\ UNCHANGED <<i, val>>
     ELSE IF Matching(i) THEN val' = Val(lib, i - 1) /\ Goto("tested") /\ i' = i - 1
     ELSE i' = i - 1 /\ UNCHANGED <<pc, val>>
  /\ UNCHANGED <<started, key, cur, d, tab, answer, table, status>>

\* dnl.c: while (ii > 0), from the last symbol down.
loopy ==
  /\ prog = "dnl" /\ pc = "loop"
  /\ IF i = 0 THEN Goto("tested") /\ UNCHANGED <<i, val>>
     ELSE IF Matching(i) THEN val' = Val(lib, i) /\ Goto("tested") /\ i' = i - 1
     ELSE i' = i - 1 /\ UNCHANGED <<pc, val>>
  /\ UNCHANGED <<started, key, cur, d, tab, answer, table, status>>

\* Mutant: the address is returned untested.
TestedNot ==
  /\ prog = "dnl" /\ pc = "tested" /\ answer' = val /\ Goto("found")
  /\ UNCHANGED <<started, key, cur, d, tab, i, val, table, status>>

\* if (ptr != NULL) return ptr
Tested ==
  /\ prog = "dnl" /\ pc = "tested"
  /\ IF val # 0 THEN answer' = val /\ Goto("found") ELSE Goto("next") /\ UNCHANGED answer
  /\ UNCHANGED <<started, key, cur, d, tab, i, val, table, status>>

\* heb.c: every match is stored, and the loop goes on.
loopyAll ==
  /\ prog = "heb" /\ pc = "loop"
  /\ IF i = Len(lib.syms) THEN Goto("next") /\ UNCHANGED <<i, answer>>
     ELSE /\ i' = i + 1 /\ UNCHANGED pc
          /\ answer' = IF Matching(i + 1) THEN Val(lib, i + 1) ELSE answer
  /\ UNCHANGED <<started, key, cur, d, tab, val, table, status>>

\* dnload.c: the first name with the hash ends the lookup.
Hashed ==
  /\ prog = "dnload" /\ pc = "loop"
  /\ IF i = Len(lib.syms) THEN Goto("next") /\ UNCHANGED <<i, answer>>
     ELSE IF Matching(i + 1) THEN answer' = Val(lib, i + 1) /\ Goto("found") /\ UNCHANGED i
     ELSE i' = i + 1 /\ UNCHANGED <<pc, answer>>
  /\ UNCHANGED <<started, key, cur, d, tab, val, table, status>>

\* Mutant: lmap is not moved on.
NextObjectSame ==
  /\ pc = "next" /\ cur' = cur
  /\ Goto("lib") /\ UNCHANGED <<started, key, d, tab, i, val, answer, table, status>>

NextObject ==
  /\ pc = "next" /\ cur' = cur + 1
  /\ Goto("lib") /\ UNCHANGED <<started, key, d, tab, i, val, answer, table, status>>

Walk == EndOfMap \/ Object1 \/ DynEntry \/ DynEnd \/ ThreeTags \/ loopy \/ Tested
          \/ loopyAll \/ Hashed \/ NextObject
Next == Walk \/ _start \/ exit2 \/ NoMap \/ main \/ return42 \/ dnload \/ dnloadStores
Spec == Init /\ [][Next]_vars
FairSpec == Spec /\ WF_vars(Next)

(***************************************************************************)
(* The type of the state.                                                  *)
(***************************************************************************)
Hashes == {KeyOf("dnload", TableNames[k]) : k \in DOMAIN TableNames}
TypeOK ==
  /\ prog \in {"dnl", "heb", "dnload"} /\ loader \in BOOLEAN /\ libs \in LinkMaps
  /\ pc \in {"start", "lib", "dyn", "loop", "tested", "next", "found", "end",
             "crash", "nomap", "wild"}
  /\ key \in {<<>>, Int4(ExitName), Dlsy} \cup Hashes
  /\ cur \in 0..Null /\ d \in Nat
  /\ tab \in [Tables -> Nat] /\ i \in Nat /\ val \in Nat /\ answer \in Nat
  /\ table \in [DOMAIN TableNames -> [hash: Hashes, addr: Nat \cup {Unset}]]
  /\ status \in {Unset, 111, 42}

(***************************************************************************)
(* The symbols gone through are those of the object at hand: the pointers  *)
(* into string, symbol and hash table come out right whether ld.so         *)
(* relocated the section or not, whatever the order of its entries, and    *)
(* none is left over from the object before.                               *)
(***************************************************************************)
TablesOfThisObject == pc = "loop" => \A t \in Tables : tab[t] = Where(lib, t)

(***************************************************************************)
(* The lookups keep the promise of module Lookup.  The map they walk is    *)
(* empty for a program that got none.                                      *)
(***************************************************************************)
Walked == IF prog = "dnl" /\ ~loader THEN <<>> ELSE libs
Abstract == INSTANCE Lookup WITH
  libs   <- Walked,
  phase  <- IF pc \in {"start", "found", "end", "nomap", "wild"} THEN "idle"
            ELSE IF pc = "crash" THEN "lost" ELSE "asked",
  answer <- IF prog = "heb" /\ pc \notin {"found", "end"} THEN 0 ELSE answer
KeepsPromise == Abstract!Spec

(***************************************************************************)
(* _start jumps to something other than exit only for one of two reasons:  *)
(* an object imports exit and is not loaded at 0, so that its undefined    *)
(* symbol gets its load address, or a function's name starts like exit.    *)
(***************************************************************************)
WildOnlyByImportOrPrefix ==
  pc = "wild" => \E l \in DOMAIN libs : \E s \in Matches("dnl", libs[l], key) :
                    /\ Val(libs[l], s) = answer
                    /\ \/ libs[l].syms[s].value = 0 /\ libs[l].base # 0
                       \/ libs[l].syms[s].name # ExitName

(***************************************************************************)
(* g_symbol_table, replaced in place: every entry already replaced holds   *)
(* what its own hash promised, and every other one still is a hash.  The   *)
(* address is that of the function named, or of one whose name hashes the  *)
(* same.                                                                   *)
(***************************************************************************)
TableResolved ==
  \A k \in DOMAIN table :
    /\ table[k].hash = KeyOf("dnload", TableNames[k])
    /\ \/ table[k].addr = Unset /\ \A j \in DOMAIN table : j > k => table[j].addr = Unset
       \/ table[k].addr = Abstract!Promise("dnload", libs, table[k].hash)
    /\ table[k].addr # Unset =>
         \E l \in DOMAIN libs : \E s \in Matches("dnload", libs[l], table[k].hash) :
            Val(libs[l], s) = table[k].addr

(***************************************************************************)
(* No list of objects keeps a lookup from ending: every program exits, is  *)
(* stopped by a fault, or has its table filled.                            *)
(***************************************************************************)
Over == pc \in {"end", "crash", "nomap", "wild"} \/ (pc = "start" /\ prog = "dnload" /\ Done24(table))
Ends == <>Over
=============================================================================
