------------------------------- MODULE LinkMap -------------------------------
(***************************************************************************)
(* The data the symbol lookups of dnl.c, dnload.c and heb.c read: the      *)
(* dynamic loader's list of loaded objects, each with its load address     *)
(* l_addr, its dynamic section l_ld and the symbol table that section      *)
(* points to.  The list and the objects belong to ld.so and the linker     *)
(* (external); the operators are the helpers of the three C files.         *)
(*                                                                         *)
(* An object is                                                            *)
(*   base       l_addr, the load address (0: linked at a fixed address)    *)
(*   relocated  whether ld.so added base to the pointers of the section    *)
(*   dyn        the dynamic section without its final DT_NULL: the tag of  *)
(*              each entry and the offset of what it points to             *)
(*   syms       the symbol table: names and st_value (0: not defined here) *)
(* A name is the sequence of its bytes.                                    *)
(***************************************************************************)
EXTENDS Integers, Sequences

CONSTANTS
  LinkMaps,     \* the link maps of the processes considered
  HashBits      \* the width of a hash; 32 in the code

Byte   == 1..255
Tags   == {"STRTAB", "SYMTAB", "HASH", "DEBUG", "NEEDED"}
Tables == {"STRTAB", "SYMTAB", "HASH"}
Object == [base: Nat, relocated: BOOLEAN, dyn: Seq([tag: Tags, off: Nat \ {0}]),
           syms: Seq([name: Seq(Byte), value: Nat])]

(***************************************************************************)
(* An object the linker and ld.so produce: at most one entry per table,    *)
(* string and symbol table always there, and pointers left unrelocated     *)
(* (the vDSO's, "Sometimes the value is an offset instead of a naked       *)
(* pointer") only in an object mapped above its own size.                  *)
(***************************************************************************)
WellFormed(lib) ==
  /\ \A j, k \in DOMAIN lib.dyn :
        lib.dyn[j].tag = lib.dyn[k].tag /\ lib.dyn[j].tag \in Tables => j = k
  /\ \A t \in {"STRTAB", "SYMTAB"} : \E k \in DOMAIN lib.dyn : lib.dyn[k].tag = t
  /\ lib.relocated \/ \A k \in DOMAIN lib.dyn : lib.dyn[k].off < lib.base

ASSUME LinkMapsAssumption ==
  /\ HashBits \in Nat \ {0}
  /\ \A m \in LinkMaps :
        m \in Seq(Object) /\ Len(m) > 0 /\ \A l \in DOMAIN m : WellFormed(m[l])

(* d_un.d_ptr as the section holds it, and where the table really is.      *)
DPtr(lib, k)  == IF lib.relocated THEN lib.dyn[k].off + lib.base ELSE lib.dyn[k].off
Has(lib, t)   == \E k \in DOMAIN lib.dyn : lib.dyn[k].tag = t
Where(lib, t) == IF Has(lib, t)
                 THEN lib.base + lib.dyn[CHOOSE k \in DOMAIN lib.dyn : lib.dyn[k].tag = t].off
                 ELSE 0

(* A pointer below the load address is taken as an offset from it.         *)
FixUpNever(ptr, base) == ptr      \* mutant: an offset is taken for a pointer
FixUp(ptr, base) == IF ptr < base THEN ptr + base ELSE ptr

(* st_value + l_addr.  An undefined symbol, st_value 0, gets l_addr.       *)
Val(lib, j) == lib.syms[j].value + lib.base

(***************************************************************************)
(* What the lookups compare: dnl.c and heb.c the first four bytes of a     *)
(* name, dnload.c its sdbm hash.  A name shorter than four has its NUL     *)
(* among them.                                                             *)
(***************************************************************************)
Int4(name) == [k \in 1..4 |-> IF k <= Len(name) THEN name[k] ELSE 0]
bswap32(w) == [k \in 1..4 |-> w[5 - k]]
sdbm_hash(op) ==
  LET ret[k \in 0..Len(op)] ==
        IF k = 0 THEN 0 ELSE (ret[k - 1] * 65599 + op[k]) % 2^HashBits
  IN  ret[Len(op)]

KeyOf(prog, name) == IF prog = "dnload" THEN <<sdbm_hash(name)>> ELSE Int4(name)
Matches(prog, lib, key) == {j \in DOMAIN lib.syms : KeyOf(prog, lib.syms[j].name) = key}
=============================================================================
