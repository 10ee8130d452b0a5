---------------------------- MODULE SymbolsProofs -----------------------------
(***************************************************************************)
(* Theorems about Symbols, for every link map the linker and ld.so can     *)
(* produce (LinkMapsAssumption), every width of the hash and every table   *)
(* of names: the pointers into an object's tables come out right, and the  *)
(* three lookups implement the promise of module Lookup.                   *)
(***************************************************************************)
EXTENDS Symbols, TLAPS

-----------------------------------------------------------------------------
(* Objects.                                                                *)

\* Every object of a link map is one the linker produces.
LEMMA Objects ==
  ASSUME NEW m \in LinkMaps
  PROVE  /\ Len(m) \in Nat \ {0} /\ DOMAIN m = 1 .. Len(m)
         /\ \A l \in DOMAIN m : m[l] \in Object /\ WellFormed(m[l])
BY LinkMapsAssumption

\* What a sequence is made of.
LEMMA Elements ==
  ASSUME NEW S, NEW q \in Seq(S)
  PROVE  Len(q) \in Nat /\ DOMAIN q = 1 .. Len(q) /\ \A k \in DOMAIN q : q[k] \in S
OBVIOUS

\* What an object is made of.
LEMMA Parts ==
  ASSUME NEW o \in Object
  PROVE  /\ o.base \in Nat /\ o.relocated \in BOOLEAN
         /\ Len(o.dyn) \in Nat /\ DOMAIN o.dyn = 1 .. Len(o.dyn)
         /\ \A k \in DOMAIN o.dyn : o.dyn[k].tag \in Tags /\ o.dyn[k].off \in Nat \ {0}
         /\ Len(o.syms) \in Nat /\ DOMAIN o.syms = 1 .. Len(o.syms)
         /\ \A j \in DOMAIN o.syms : o.syms[j].value \in Nat
<1> DEFINE Entry == [tag: Tags, off: Nat \ {0}]
           Symbol == [name: Seq(Byte), value: Nat]
<1>1. o.base \in Nat /\ o.relocated \in BOOLEAN /\ o.dyn \in Seq(Entry) /\ o.syms \in Seq(Symbol)
  BY DEF Object
<1> HIDE DEF Entry, Symbol
<1>2. Len(o.dyn) \in Nat /\ DOMAIN o.dyn = 1 .. Len(o.dyn) /\ \A k \in DOMAIN o.dyn : o.dyn[k] \in Entry
  BY <1>1, Elements
<1>3. Len(o.syms) \in Nat /\ DOMAIN o.syms = 1 .. Len(o.syms) /\ \A j \in DOMAIN o.syms : o.syms[j] \in Symbol
  BY <1>1, Elements
<1>4. QED
  BY <1>1, <1>2, <1>3 DEF Entry, Symbol

\* Where a table lies is a number, and not 0 for a table the object has.
LEMMA WhereNat ==
  ASSUME NEW o \in Object, NEW t \in Tables
  PROVE  Where(o, t) \in Nat /\ (Has(o, t) <=> Where(o, t) # 0)
<1>1. CASE Has(o, t)
  <2>1. PICK k \in DOMAIN o.dyn : k = CHOOSE j \in DOMAIN o.dyn : o.dyn[j].tag = t
    BY <1>1 DEF Has
  <2>2. o.base \in Nat /\ o.dyn[k].off \in Nat \ {0}
    BY Parts
  <2>3. Where(o, t) = o.base + o.dyn[k].off
    BY <1>1, <2>1 DEF Where
  <2>4. QED
    BY <1>1, <2>2, <2>3
<1>2. CASE ~Has(o, t)
  BY <1>2 DEF Where
<1>3. QED
  BY <1>1, <1>2

\* The comparison of FIXUP tells an offset from a pointer.
LEMMA FixedUp ==
  ASSUME NEW o \in Object, WellFormed(o), NEW k \in DOMAIN o.dyn, o.dyn[k].tag \in Tables
  PROVE  FixUp(DPtr(o, k), o.base) = Where(o, o.dyn[k].tag)
<1> DEFINE t == o.dyn[k].tag
<1>1. o.base \in Nat /\ o.dyn[k].off \in Nat \ {0} /\ o.relocated \in BOOLEAN
  BY Parts
<1>2. Has(o, t)
  BY DEF Has
<1>3. (CHOOSE j \in DOMAIN o.dyn : o.dyn[j].tag = t) = k
  <2>1. \A j \in DOMAIN o.dyn : o.dyn[j].tag = t => j = k
    BY DEF WellFormed
  <2>2. QED
    BY <2>1
<1>4. Where(o, t) = o.base + o.dyn[k].off
  BY <1>2, <1>3 DEF Where
<1>5. FixUp(DPtr(o, k), o.base) = o.base + o.dyn[k].off
  <2>1. CASE o.relocated
    BY <1>1, <2>1 DEF FixUp, DPtr
  <2>2. CASE ~o.relocated
    BY <1>1, <2>2 DEF FixUp, DPtr, WellFormed
  <2>3. QED
    BY <2>1, <2>2
<1>6. QED
  BY <1>4, <1>5

\* An address is a number; it is not 0 for a symbol defined, or in an object
\* not loaded at 0.
LEMMA ValNat ==
  ASSUME NEW o \in Object, NEW j \in DOMAIN o.syms
  PROVE  /\ Val(o, j) \in Nat
         /\ Val(o, j) # 0 => o.syms[j].value # 0 \/ o.base # 0
BY Parts DEF Val

\* 'exit' written backwards, and turned round by DNLOAD, is exit.
LEMMA TwiceSwapped == \A name : bswap32(bswap32(Int4(name))) = Int4(name)
BY DEF bswap32, Int4

-----------------------------------------------------------------------------
(* Where a lookup can be.                                                  *)

Busy == pc \in {"dyn", "loop", "tested", "next"}

\* The object at hand is one, and so is the symbol.
Place ==
  /\ Busy => cur \in DOMAIN libs
  /\ pc = "lib" => cur # 0
  /\ pc = "dyn" => prog # "dnload" /\ d \in 1 .. Len(lib.dyn) + 1
  /\ pc = "loop" => i \in 0 .. Len(lib.syms) /\ Has(lib, "HASH")
  /\ pc = "tested" => prog = "dnl"

\* Of the dynamic section, the tables before d have been found; the others are
\* unset, but for what heb.c left.
Scanned ==
  pc = "dyn" =>
    \A t \in Tables :
      IF \E k \in 1 .. d - 1 : lib.dyn[k].tag = t THEN tab[t] = Where(lib, t)
      ELSE prog = "dnl" \/ t = "HASH" => tab[t] = 0

\* The entries of g_symbol_table are replaced in order, and dnload() looks for
\* the first one left.
InOrder ==
  /\ \E n \in 0 .. Len(TableNames) : \A k \in DOMAIN table : table[k].addr # Unset <=> k <= n
  /\ prog = "dnload" /\ (Busy \/ pc \in {"lib", "found"}) =>
       ~Done24(table) /\ key = table[Next24(table)].hash

Tabled == TypeOK /\ Place /\ Scanned /\ TablesOfThisObject /\ InOrder

\* The object at hand is well-formed.
LEMMA AtHand ==
  ASSUME TypeOK, Place, Busy \/ (pc = "lib" /\ cur # Null)
  PROVE  cur \in DOMAIN libs /\ lib \in Object /\ WellFormed(lib)
BY Objects DEF TypeOK, Place, Busy, Null, lib

\* The loop counter of dnload() stands at the first entry left.
LEMMA NextEntry ==
  ASSUME TypeOK, InOrder, ~Done24(table)
  PROVE  /\ Next24(table) \in DOMAIN table
         /\ \A k \in DOMAIN table : table[k].addr # Unset <=> k < Next24(table)
<1>1. PICK n \in 0 .. Len(TableNames) : \A k \in DOMAIN table : table[k].addr # Unset <=> k <= n
  BY DEF InOrder
<1>2. Len(TableNames) \in Nat /\ DOMAIN table = 1 .. Len(TableNames)
  BY SymbolsAssumption DEF TypeOK
<1>3. n + 1 \in DOMAIN table
  BY <1>1, <1>2 DEF Done24
<1>4. table[n + 1].addr = Unset /\ \A j \in 1 .. (n + 1) - 1 : table[j].addr # Unset
  BY <1>1, <1>2, <1>3
<1>5. /\ Next24(table) \in DOMAIN table /\ table[Next24(table)].addr = Unset
      /\ \A j \in 1 .. Next24(table) - 1 : table[j].addr # Unset
  BY <1>3, <1>4 DEF Next24
<1>6. Next24(table) = n + 1
  BY <1>1, <1>2, <1>3, <1>4, <1>5
<1>7. QED
  BY <1>1, <1>2, <1>5, <1>6

LEMMA InitTabled == Init => Tabled
<1> SUFFICES ASSUME Init PROVE Tabled
  OBVIOUS
<1>1. TypeOK
  BY DEF Init, TypeOK, Null, NoTables, Word, Unset, Hashes, Tables
<1>2. InOrder
  <2>1. Len(TableNames) \in Nat /\ DOMAIN TableNames = 1 .. Len(TableNames)
    BY SymbolsAssumption
  <2>2. \A k \in DOMAIN table : table[k].addr = Unset
    BY DEF Init, Word
  <2>3. 0 \in 0 .. Len(TableNames) /\ \A k \in DOMAIN table : table[k].addr # Unset <=> k <= 0
    BY <2>1, <2>2 DEF Init
  <2>4. QED
    BY <2>3 DEF InOrder, Init, Busy
<1>3. QED
  BY <1>1, <1>2 DEF Init, Tabled, Place, Scanned, TablesOfThisObject, Busy

\* The callers: they start lookups and use their answers.
LEMMA CallersTabled ==
  ASSUME Tabled,
         _start \/ exit2 \/ NoMap \/ main \/ return42 \/ dnload \/ dnloadStores
  PROVE  Tabled'
<1> USE DEF Tabled
<1>1. Len(libs) \in Nat \ {0}
  BY Objects DEF TypeOK
<1>2. CASE _start
  <2>1. key' = Int4(ExitName)
    BY <1>2, TwiceSwapped DEF _start
  <2>2. TypeOK'
    BY <1>1, <1>2, <2>1 DEF _start, started, Goto, TypeOK, Null
  <2>3. Place' /\ Scanned' /\ TablesOfThisObject' /\ InOrder'
    BY <1>1, <1>2 DEF _start, started, Goto, Place, Busy, Null, Scanned, TablesOfThisObject, InOrder
  <2>4. QED
    BY <2>2, <2>3
<1>3. CASE exit2 \/ NoMap \/ return42
  <2>1. TypeOK'
    BY <1>3 DEF exit2, NoMap, return42, started, Goto, TypeOK, Null
  <2>2. Place' /\ Scanned' /\ TablesOfThisObject' /\ InOrder'
    BY <1>3 DEF exit2, NoMap, return42, started, Goto, Place, Busy, Scanned, TablesOfThisObject, InOrder
  <2>3. QED
    BY <2>1, <2>2
<1>4. CASE main
  <2>1. TypeOK'
    BY <1>1, <1>4 DEF main, started, Goto, TypeOK, Null
  <2>2. Place' /\ Scanned' /\ TablesOfThisObject' /\ InOrder'
    BY <1>4 DEF main, started, Goto, Place, Busy, Scanned, TablesOfThisObject, InOrder
  <2>3. QED
    BY <2>1, <2>2
<1>5. CASE dnload
  <2>1. Next24(table) \in DOMAIN table
    BY <1>5, NextEntry DEF dnload
  <2>2. TypeOK'
    BY <1>1, <1>5, <2>1 DEF dnload, started, Goto, TypeOK, Null
  <2>3. Place' /\ Scanned' /\ TablesOfThisObject' /\ InOrder'
    BY <1>5 DEF dnload, started, Goto, Place, Busy, Scanned, TablesOfThisObject, InOrder
  <2>4. QED
    BY <2>2, <2>3
<1>6. CASE dnloadStores
  <2> DEFINE n == Next24(table)
  <2>1. n \in DOMAIN table /\ \A k \in DOMAIN table : table[k].addr # Unset <=> k < n
    BY <1>6, NextEntry DEF dnloadStores, InOrder
  <2>2. table' = [table EXCEPT ![n].addr = answer] /\ answer \in Nat /\ DOMAIN table = 1 .. Len(TableNames)
    <3>1. table' = [table EXCEPT ![n].addr = answer]
      BY <1>6 DEF dnloadStores
    <3>2. DOMAIN table = DOMAIN TableNames /\ answer \in Nat
      BY DEF TypeOK
    <3>3. DOMAIN TableNames = 1 .. Len(TableNames)
      BY SymbolsAssumption
    <3>4. QED
      BY <3>1, <3>2, <3>3
  <2> HIDE DEF n
  <2>3. \A k \in DOMAIN table : table'[k].addr # Unset <=> k <= n
    BY <2>1, <2>2 DEF Unset, TypeOK
  <2>4. TypeOK'
    <3>1. table' \in [DOMAIN TableNames -> [hash: Hashes, addr: Nat \cup {Unset}]]
      BY <2>1, <2>2 DEF TypeOK
    <3>2. QED
      BY <1>6, <3>1 DEF dnloadStores, started, Goto, TypeOK, Null
  <2>5. Place' /\ Scanned' /\ TablesOfThisObject'
    BY <1>6 DEF dnloadStores, started, Goto, Place, Busy, Scanned, TablesOfThisObject
  <2>6. InOrder'
    <3>1. n \in 0 .. Len(TableNames) /\ DOMAIN table' = DOMAIN table
      BY <2>1, <2>2
    <3>2. pc' = "start"
      BY <1>6 DEF dnloadStores, Goto
    <3>3. QED
      BY <2>3, <3>1, <3>2 DEF InOrder, Busy
  <2>7. QED
    BY <2>4, <2>5, <2>6
<1>7. QED
  BY <1>2, <1>3, <1>4, <1>5, <1>6

\* The walk over one object's dynamic section, for dnl.c and heb.c.
LEMMA DynTabled ==
  ASSUME Tabled, Object1 \/ DynEntry \/ DynEnd
  PROVE  Tabled'
<1> USE DEF Tabled
<1>1. CASE Object1
  <2>1. cur \in DOMAIN libs /\ lib \in Object /\ lib' = lib /\ Len(lib.dyn) \in Nat
    BY <1>1, AtHand, Parts DEF Object1, started, lib
  <2>2. tab' \in [Tables -> Nat] /\ (prog = "dnl" => tab' = NoTables) /\ tab'["HASH"] = 0
    BY <1>1 DEF Object1, NoTables, Tables, TypeOK
  <2>3. TypeOK'
    BY <1>1, <2>2 DEF Object1, started, Goto, TypeOK, Null
  <2>4. Place' /\ TablesOfThisObject' /\ InOrder'
    BY <1>1, <2>1 DEF Object1, started, Goto, Place, Busy, TablesOfThisObject, InOrder
  <2>5. Scanned'
    BY <1>1, <2>2 DEF Object1, started, Scanned, NoTables, Tables
  <2>6. QED
    BY <2>3, <2>4, <2>5
<1>2. CASE DynEntry
  <2>1. cur \in DOMAIN libs /\ lib \in Object /\ WellFormed(lib) /\ lib' = lib
    BY <1>2, AtHand DEF DynEntry, Busy, started, lib
  <2>2. d \in DOMAIN lib.dyn /\ d' = d + 1 /\ Len(lib.dyn) \in Nat /\ DOMAIN lib.dyn = 1 .. Len(lib.dyn)
    BY <1>2, <2>1, Parts DEF DynEntry, Place
  <2>3. \A t \in Tables : tab'[t] = IF t = lib.dyn[d].tag THEN Where(lib, t) ELSE tab[t]
    BY <1>2, <2>1, <2>2, FixedUp DEF DynEntry, TypeOK
  <2>4. tab' \in [Tables -> Nat]
    <3>1. \A t \in Tables : Where(lib, t) \in Nat
      BY <2>1, WhereNat
    <3>2. tab' = [t \in Tables |-> tab'[t]]
      BY <1>2 DEF DynEntry, TypeOK
    <3>3. QED
      BY <2>3, <3>1, <3>2 DEF TypeOK
  <2>5. TypeOK'
    BY <1>2, <2>2, <2>4 DEF DynEntry, started, TypeOK, Null
  <2>6. Place' /\ TablesOfThisObject' /\ InOrder'
    BY <1>2, <2>1, <2>2 DEF DynEntry, started, Place, Busy, TablesOfThisObject, InOrder
  <2>7. Scanned'
    <3> SUFFICES ASSUME NEW t \in Tables
                 PROVE  IF \E k \in 1 .. d : lib.dyn[k].tag = t THEN tab'[t] = Where(lib, t)
                        ELSE prog = "dnl" \/ t = "HASH" => tab'[t] = 0
      BY <1>2, <2>1, <2>2 DEF DynEntry, started, Scanned
    <3>1. (\E k \in 1 .. d : lib.dyn[k].tag = t)
            <=> (\E k \in 1 .. d - 1 : lib.dyn[k].tag = t) \/ lib.dyn[d].tag = t
      BY <2>2
    <3>2. pc = "dyn"
      BY <1>2 DEF DynEntry
    <3>3. QED
      BY <2>3, <3>1, <3>2 DEF Scanned
  <2>8. QED
    BY <2>5, <2>6, <2>7
<1>3. CASE DynEnd
  <2>1. cur \in DOMAIN libs /\ lib \in Object /\ WellFormed(lib) /\ lib' = lib
    BY <1>3, AtHand DEF DynEnd, Busy, started, lib
  <2>2. d = Len(lib.dyn) + 1 /\ DOMAIN lib.dyn = 1 .. Len(lib.dyn) /\ Len(lib.dyn) \in Nat /\ Len(lib.syms) \in Nat
    BY <1>3, <2>1, Parts DEF DynEnd, Place
  <2>3. \A t \in Tables : Has(lib, t) => tab[t] = Where(lib, t)
    BY <1>3, <2>2 DEF DynEnd, Scanned, Has
  <2>4. Has(lib, "HASH") <=> tab["HASH"] # 0
    <3>1. Has(lib, "HASH") => tab["HASH"] # 0
      BY <2>1, <2>3, WhereNat DEF Tables
    <3>2. ~Has(lib, "HASH") => tab["HASH"] = 0
      BY <1>3, <2>2 DEF DynEnd, Scanned, Has, Tables
    <3>3. QED
      BY <3>1, <3>2
  <2>5. Has(lib, "STRTAB") /\ Has(lib, "SYMTAB")
    BY <2>1 DEF WellFormed, Has
  <2>6. TypeOK'
    BY <1>3, <2>2 DEF DynEnd, started, Goto, TypeOK, Null
  <2>7. Place' /\ Scanned' /\ InOrder'
    BY <1>3, <2>1, <2>2, <2>4 DEF DynEnd, started, Goto, Place, Busy, Scanned, InOrder
  <2>8. TablesOfThisObject'
    BY <1>3, <2>1, <2>3, <2>4, <2>5 DEF DynEnd, started, Goto, TablesOfThisObject, Tables
  <2>9. QED
    BY <2>6, <2>7, <2>8
<1>4. QED
  BY <1>1, <1>2, <1>3

\* The rest of the walk: dnload.c's three tables, the symbols, the next object.
LEMMA WalkTabled ==
  ASSUME Tabled, EndOfMap \/ ThreeTags \/ loopy \/ Tested \/ loopyAll \/ Hashed \/ NextObject
  PROVE  Tabled'
<1> USE DEF Tabled
<1>1. CASE EndOfMap
  <2>1. TypeOK'
    BY <1>1 DEF EndOfMap, started, Goto, TypeOK, Null
  <2>2. Place' /\ Scanned' /\ TablesOfThisObject' /\ InOrder'
    BY <1>1 DEF EndOfMap, started, Goto, Place, Busy, Scanned, TablesOfThisObject, InOrder
  <2>3. QED
    BY <2>1, <2>2
<1>2. CASE ThreeTags
  <2>1. cur \in DOMAIN libs /\ lib \in Object /\ WellFormed(lib) /\ lib' = lib /\ Len(lib.syms) \in Nat
    BY <1>2, AtHand, Parts DEF ThreeTags, started, lib
  <2>2. CASE \A t \in Tables : Has(lib, t)
    <3>1. \A t \in Tables : tab'[t] = Where(lib, t)
      <4> TAKE t \in Tables
      <4> DEFINE k == CHOOSE k \in DOMAIN lib.dyn : lib.dyn[k].tag = t
      <4>1. tab'[t] = FixUp(DPtr(lib, k), lib.base)
        BY <1>2, <2>2 DEF ThreeTags
      <4>2. k \in DOMAIN lib.dyn /\ lib.dyn[k].tag = t
        BY <2>2 DEF Has
      <4> HIDE DEF k
      <4>3. QED
        BY <2>1, <4>1, <4>2, FixedUp
    <3>2. tab' \in [Tables -> Nat]
      <4>1. \A t \in Tables : Where(lib, t) \in Nat
        BY <2>1, WhereNat
      <4>2. tab' = [t \in Tables |-> tab'[t]]
        BY <1>2, <2>2 DEF ThreeTags
      <4>3. QED
        BY <3>1, <4>1, <4>2
    <3>3. pc' = "loop" /\ i' = 0 /\ UNCHANGED <<prog, loader, libs, key, cur, d, val, answer, table, status>>
      BY <1>2, <2>2 DEF ThreeTags, started, Goto
    <3>4. Has(lib, "HASH")
      BY <2>2 DEF Tables
    <3>5. TypeOK'
      BY <3>2, <3>3 DEF TypeOK, Null
    <3>6. Place' /\ Scanned' /\ TablesOfThisObject' /\ InOrder'
      <4>1. pc = "lib"
        BY <1>2 DEF ThreeTags
      <4>2. QED
        BY <2>1, <3>1, <3>3, <3>4, <4>1 DEF Place, Busy, Scanned, TablesOfThisObject, InOrder
    <3>7. QED
      BY <3>5, <3>6
  <2>3. CASE ~\A t \in Tables : Has(lib, t)
    <3>1. pc' = "crash" /\ UNCHANGED <<prog, loader, libs, key, cur, d, tab, i, val, answer, table, status>>
      BY <1>2, <2>3 DEF ThreeTags, started, Goto, Crash
    <3>2. TypeOK'
      BY <3>1 DEF TypeOK, Null
    <3>3. QED
      BY <3>1, <3>2 DEF Place, Busy, Scanned, TablesOfThisObject, InOrder
  <2>4. QED
    BY <2>2, <2>3
<1>3. CASE loopy \/ Tested \/ loopyAll \/ Hashed
  <2>1. cur \in DOMAIN libs /\ lib \in Object /\ lib' = lib
    BY <1>3, AtHand DEF loopy, Tested, loopyAll, Hashed, Busy, started, lib
  <2>2. Len(lib.syms) \in Nat /\ DOMAIN lib.syms = 1 .. Len(lib.syms)
    BY <2>1, Parts
  <2>3. \A j \in DOMAIN lib.syms : Val(lib, j) \in Nat
    BY <2>1, ValNat
  <2>4. TypeOK'
    <3>1. CASE loopy
      BY <3>1, <2>2, <2>3 DEF loopy, started, Goto, TypeOK, Null, Place
    <3>2. CASE Tested
      BY <3>2 DEF Tested, started, Goto, TypeOK, Null
    <3>3. CASE loopyAll
      BY <3>3, <2>2, <2>3 DEF loopyAll, started, Goto, TypeOK, Null, Place
    <3>4. CASE Hashed
      BY <3>4, <2>2, <2>3 DEF Hashed, started, Goto, TypeOK, Null, Place
    <3>5. QED
      BY <1>3, <3>1, <3>2, <3>3, <3>4
  <2>5. Place' /\ Scanned' /\ TablesOfThisObject' /\ InOrder'
    <3>1. CASE loopy
      BY <3>1, <2>1, <2>2 DEF loopy, started, Goto, Place, Busy, Scanned, TablesOfThisObject, InOrder
    <3>2. CASE Tested
      BY <3>2, <2>1 DEF Tested, started, Goto, Place, Busy, Scanned, TablesOfThisObject, InOrder
    <3>3. CASE loopyAll
      BY <3>3, <2>1, <2>2 DEF loopyAll, started, Goto, Place, Busy, Scanned, TablesOfThisObject, InOrder
    <3>4. CASE Hashed
      BY <3>4, <2>1, <2>2 DEF Hashed, started, Goto, Place, Busy, Scanned, TablesOfThisObject, InOrder
    <3>5. QED
      BY <1>3, <3>1, <3>2, <3>3, <3>4
  <2>6. QED
    BY <2>4, <2>5
<1>4. CASE NextObject
  <2>1. cur \in DOMAIN libs /\ DOMAIN libs = 1 .. Len(libs) /\ Len(libs) \in Nat
    BY <1>4, AtHand, Objects DEF NextObject, Busy, TypeOK
  <2>2. TypeOK'
    BY <1>4, <2>1 DEF NextObject, started, Goto, TypeOK, Null
  <2>3. Place' /\ Scanned' /\ TablesOfThisObject' /\ InOrder'
    BY <1>4, <2>1 DEF NextObject, started, Goto, Place, Busy, Scanned, TablesOfThisObject, InOrder
  <2>4. QED
    BY <2>2, <2>3
<1>5. QED
  BY <1>1, <1>2, <1>3, <1>4

LEMMA StepTabled == Tabled /\ [Next]_vars => Tabled'
<1> SUFFICES ASSUME Tabled, [Next]_vars PROVE Tabled'
  OBVIOUS
<1>1. CASE Next
  BY <1>1, CallersTabled, DynTabled, WalkTabled DEF Next, Walk
<1>2. CASE UNCHANGED vars
  BY <1>2 DEF vars, Tabled, TypeOK, Null, Place, Busy, lib, Scanned, TablesOfThisObject, InOrder
<1>3. QED
  BY <1>1, <1>2

\* What the lookups compute stays in its type.
THEOREM TypeCorrect == Spec => []TypeOK
<1>1. Tabled => TypeOK
  BY DEF Tabled
<1>2. QED
  BY <1>1, InitTabled, StepTabled, PTL DEF Spec

\* Whenever a lookup goes through symbols, the string, symbol and hash tables
\* are those of the object at hand, relocated or not (FIXUP, dnl.c:149).
THEOREM TablesRight == Spec => []TablesOfThisObject
<1>1. Tabled => TablesOfThisObject
  BY DEF Tabled
<1>2. QED
  BY <1>1, InitTabled, StepTabled, PTL DEF Spec

-----------------------------------------------------------------------------
(* What a lookup has found out so far, in terms of its promise.            *)

Found == Abstract!Answers(prog, libs, key)      \* the objects that answer
Same  == Matches(prog, lib, key)                \* the symbols of the object at hand

\* heb.c's answer, had the list ended after object n.
UpTo(n) ==
  IF {l \in Found : l <= n} = {} THEN 0
  ELSE Abstract!Offer(prog, libs[Abstract!Highest({l \in Found : l <= n})], key)

\* dnl.c has passed no object that answers, and goes down the symbols.
SearchedDown ==
  prog = "dnl" =>
    /\ ~loader => pc \in {"start", "lib", "crash"} /\ (pc = "lib" => cur = Null)
    /\ loader /\ (pc = "lib" \/ Busy) => \A l \in Found : l >= cur /\ (pc = "next" => l # cur)
    /\ pc = "loop" => val = 0 /\ \A j \in Same : j <= i
    /\ pc = "tested" => val = Abstract!Offer(prog, lib, key) /\ Has(lib, "HASH")

\* dnload.c has passed none either, nor one without a hash table, and goes up.
SearchedUp ==
  prog = "dnload" =>
    /\ pc = "lib" \/ Busy =>
         /\ \A l \in Found : l >= cur /\ (pc = "next" => l # cur)
         /\ \A h \in DOMAIN libs : h < cur \/ (pc = "next" /\ h = cur) => Has(libs[h], "HASH")
    /\ pc = "loop" => \A j \in Same : j > i

\* heb.c has the last answer of those passed.
SearchedAll ==
  prog = "heb" =>
    /\ pc = "start" => answer = 0
    /\ pc \in {"lib", "dyn"} => answer = UpTo(cur - 1)
    /\ pc = "next" => answer = UpTo(cur)
    /\ pc = "loop" =>
         answer = IF {j \in Same : j <= i} = {} THEN UpTo(cur - 1)
                  ELSE Val(lib, Abstract!Highest({j \in Same : j <= i}))

Searched == SearchedDown /\ SearchedUp /\ SearchedAll

\* The operators module Lookup uses are those of Symbols.
LEMMA SameOperators ==
  /\ \A o, t : Abstract!Has(o, t) = Has(o, t)
  /\ \A p, o, k : Abstract!Matches(p, o, k) = Matches(p, o, k)
  /\ \A o, j : Abstract!Val(o, j) = Val(o, j)
BY DEF Abstract!Has, Has, Abstract!Matches, Matches, Abstract!Val, Val, Abstract!KeyOf, KeyOf,
       Abstract!Int4, Int4, Abstract!sdbm_hash, sdbm_hash

\* Every answering object is one of the list, with a hash table and a match.
LEMMA Answering ==
  ASSUME NEW p, NEW m, NEW k
  PROVE  /\ Abstract!Answers(p, m, k) \subseteq DOMAIN m
         /\ \A l \in DOMAIN m : ~Has(m[l], "HASH") \/ Matches(p, m[l], k) = {} => l \notin Abstract!Answers(p, m, k)
         /\ \A l \in DOMAIN m : l \in Abstract!Answers(p, m, k) <=>
              IF p = "dnl" THEN Abstract!Offer(p, m[l], k) # 0
              ELSE Has(m[l], "HASH") /\ Matches(p, m[l], k) # {}
BY SameOperators DEF Abstract!Answers, Abstract!Offer

\* The greatest and the least member, once one is known.
LEMMA IsHighest ==
  ASSUME NEW S, S \subseteq Int, NEW x \in S, \A k \in S : x >= k
  PROVE  Abstract!Highest(S) = x
<1> DEFINE h == CHOOSE j \in S : \A k \in S : j >= k
<1>1. h \in S /\ \A k \in S : h >= k
  OBVIOUS
<1>2. h = x
  <2> HIDE DEF h
  <2> QED BY <1>1
<1>3. QED
  BY <1>2 DEF Abstract!Highest

LEMMA IsLowest ==
  ASSUME NEW S, S \subseteq Int, NEW x \in S, \A k \in S : x <= k
  PROVE  Abstract!Lowest(S) = x
<1> DEFINE h == CHOOSE j \in S : \A k \in S : j <= k
<1>1. h \in S /\ \A k \in S : h <= k
  OBVIOUS
<1>2. h = x
  <2> HIDE DEF h
  <2> QED BY <1>1
<1>3. QED
  BY <1>2 DEF Abstract!Lowest

\* What an object with a match offers.
LEMMA Offered ==
  ASSUME NEW p, NEW o, NEW k
  PROVE  /\ Has(o, "HASH") /\ Matches(p, o, k) # {} =>
              Abstract!Offer(p, o, k) = Val(o, IF p = "dnload" THEN Abstract!Lowest(Matches(p, o, k))
                                               ELSE Abstract!Highest(Matches(p, o, k)))
         /\ ~(Has(o, "HASH") /\ Matches(p, o, k) # {}) => Abstract!Offer(p, o, k) = 0
BY SameOperators DEF Abstract!Offer, Abstract!Taken

\* At the end of a dynamic section, hashtable tells whether there is one.
LEMMA HashKnown ==
  ASSUME Tabled, DynEnd
  PROVE  Has(lib, "HASH") <=> tab["HASH"] # 0
<1>1. lib \in Object /\ pc = "dyn" /\ d \in 1 .. Len(lib.dyn) + 1 /\ d > Len(lib.dyn)
  BY AtHand DEF Tabled, DynEnd, Busy, Place
<1>2. DOMAIN lib.dyn = 1 .. d - 1
  BY <1>1, Parts
<1>3. CASE Has(lib, "HASH")
  BY <1>1, <1>2, <1>3, WhereNat DEF Tabled, Scanned, Has, Tables
<1>4. CASE ~Has(lib, "HASH")
  BY <1>1, <1>2, <1>4 DEF Tabled, Scanned, Has, Tables
<1>5. QED
  BY <1>3, <1>4

\* The object passed last counts only if it answers.
LEMMA UpToNext ==
  ASSUME Tabled, cur \in DOMAIN libs
  PROVE  /\ cur \notin Found => UpTo(cur) = UpTo(cur - 1)
         /\ cur \in Found => UpTo(cur) = Abstract!Offer(prog, lib, key)
<1>1. DOMAIN libs \subseteq Int /\ Found \subseteq DOMAIN libs
  BY Objects, Answering DEF Tabled, TypeOK, Found
<1>2. CASE cur \notin Found
  <2>1. {l \in Found : l <= cur} = {l \in Found : l <= cur - 1}
    BY <1>1, <1>2
  <2>2. QED
    BY <1>2, <2>1 DEF UpTo
<1>3. CASE cur \in Found
  <2>1. Abstract!Highest({l \in Found : l <= cur}) = cur
    BY <1>1, <1>3, IsHighest
  <2>2. QED
    BY <1>1, <1>3, <2>1 DEF UpTo, lib
<1>4. QED
  BY <1>2, <1>3

\* Starting a lookup, and using its answer.
LEMMA CallersSearched ==
  ASSUME Tabled, Searched,
         _start \/ exit2 \/ NoMap \/ main \/ return42 \/ dnload \/ dnloadStores \/ EndOfMap
  PROVE  Searched'
<1>1. DOMAIN libs = 1 .. Len(libs) /\ Len(libs) \in Nat
  BY Objects DEF Tabled, TypeOK
<1>2. CASE _start
  <2>1. Found' \subseteq DOMAIN libs
    BY <1>2, Answering DEF Found, _start, started
  <2>2. QED
    BY <1>1, <1>2, <2>1 DEF _start, started, Goto, Searched, SearchedDown, SearchedUp, SearchedAll, Busy, Null
<1>3. CASE exit2 \/ NoMap \/ return42 \/ dnloadStores \/ EndOfMap
  BY <1>3 DEF exit2, NoMap, return42, dnloadStores, EndOfMap, started, Goto, Searched,
              SearchedDown, SearchedUp, SearchedAll, Busy
<1>4. CASE main
  <2>1. Found' \subseteq DOMAIN libs
    BY <1>4, Answering DEF Found, main, started
  <2>2. {l \in Found' : l <= 0} = {}
    BY <1>1, <2>1
  <2>3. UpTo(0)' = 0
    BY <2>2 DEF UpTo
  <2>4. prog = "heb" /\ prog' = "heb" /\ pc = "start" /\ pc' = "lib" /\ cur' = 1 /\ answer' = answer
    BY <1>4 DEF main, started, Goto
  <2>5. answer' = UpTo(cur - 1)'
    <3>1. answer = 0
      BY <2>4 DEF Searched, SearchedAll
    <3>2. (cur - 1)' = 0
      BY <2>4
    <3>3. UpTo(cur - 1)' = UpTo(0)'
      BY <3>2 DEF UpTo, Found
    <3>4. QED
      BY <2>3, <2>4, <3>1, <3>3
  <2>6. QED
    BY <2>4, <2>5 DEF Searched, SearchedDown, SearchedUp, SearchedAll
<1>5. CASE dnload
  <2>1. Found' \subseteq DOMAIN libs
    BY <1>5, Answering DEF Found, dnload, started
  <2>2. QED
    BY <1>1, <1>5, <2>1 DEF dnload, started, Goto, Searched, SearchedDown, SearchedUp, SearchedAll, Busy
<1>6. QED
  BY <1>2, <1>3, <1>4, <1>5

\* One object's tables.
LEMMA DynSearched ==
  ASSUME Tabled, Searched, Object1 \/ DynEntry \/ DynEnd \/ ThreeTags
  PROVE  Searched'
<1>1. prog' = prog /\ libs' = libs /\ key' = key /\ cur' = cur /\ answer' = answer /\ loader' = loader
  BY DEF Object1, DynEntry, DynEnd, ThreeTags, started
<1>2. cur \in DOMAIN libs /\ lib \in Object /\ lib' = lib /\ lib = libs[cur]
  BY <1>1, AtHand DEF Tabled, Object1, DynEntry, DynEnd, ThreeTags, Busy, lib
<1>3. Found' = Found /\ Same' = Same /\ UpTo(cur - 1)' = UpTo(cur - 1) /\ UpTo(cur)' = UpTo(cur)
  BY <1>1, <1>2 DEF Found, Same, UpTo
<1>4. Same \subseteq 1 .. Len(lib.syms) /\ Len(lib.syms) \in Nat
  BY <1>2, Parts DEF Same, Matches
<1>5. CASE Object1 \/ DynEntry
  BY <1>1, <1>2, <1>3, <1>5 DEF Object1, DynEntry, started, Goto, Searched, SearchedDown, SearchedUp, SearchedAll, Busy
<1>6. CASE DynEnd
  <2>1. CASE tab["HASH"] = 0
    <3>1. cur \notin Found
      BY <1>2, <1>6, <2>1, HashKnown, Answering DEF Found, lib
    <3>2. UpTo(cur) = UpTo(cur - 1)
      BY <1>2, <3>1, UpToNext
    <3>3. pc = "dyn" /\ pc' = "next" /\ prog # "dnload"
      BY <1>6, <2>1 DEF DynEnd, Goto, Tabled, Place
    <3>4. QED
      BY <1>1, <1>3, <3>1, <3>2, <3>3 DEF Searched, SearchedDown, SearchedUp, SearchedAll, Busy
  <2>2. CASE tab["HASH"] # 0
    <3>1. pc = "dyn" /\ pc' = "loop" /\ prog # "dnload" /\ val' = 0
      BY <1>6, <2>2 DEF DynEnd, Goto, Tabled, Place
    <3>2. i' = IF prog = "dnl" THEN Len(lib.syms) ELSE 0
      BY <1>6, <2>2 DEF DynEnd
    <3>3. prog = "heb" => {j \in Same : j <= i'} = {}
      <4> SUFFICES ASSUME prog = "heb" PROVE \A j \in Same : ~(j <= i')
        OBVIOUS
      <4>1. i' = 0
        BY <3>2
      <4>2. QED
        BY <1>4, <4>1
    <3>4. SearchedAll'
      BY <1>1, <1>3, <3>1, <3>3 DEF Searched, SearchedAll
    <3>5. SearchedDown' /\ SearchedUp'
      BY <1>1, <1>3, <1>4, <3>1, <3>2 DEF Searched, SearchedDown, SearchedUp, Busy
    <3>6. QED
      BY <3>4, <3>5 DEF Searched
  <2>3. QED
    BY <2>1, <2>2
<1>7. CASE ThreeTags
  <2>1. prog = "dnload" /\ pc = "lib" /\ (pc' = "crash" \/ (pc' = "loop" /\ i' = 0))
    BY <1>7 DEF ThreeTags, Goto, Crash
  <2>2. QED
    BY <1>1, <1>3, <1>4, <2>1 DEF Searched, SearchedDown, SearchedUp, SearchedAll, Busy
<1>8. QED
  BY <1>5, <1>6, <1>7

\* One object's symbols, and the next object.
LEMMA LoopSearched ==
  ASSUME Tabled, Searched, loopy \/ Tested \/ loopyAll \/ Hashed \/ NextObject
  PROVE  Searched'
<1>1. prog' = prog /\ libs' = libs /\ key' = key /\ loader' = loader
  BY DEF loopy, Tested, loopyAll, Hashed, NextObject, started
<1>2. cur \in DOMAIN libs /\ lib \in Object /\ lib = libs[cur]
  BY AtHand DEF Tabled, loopy, Tested, loopyAll, Hashed, NextObject, Busy, lib
<1>3. Found' = Found /\ UpTo(cur - 1)' = UpTo((cur - 1)') /\ UpTo(cur)' = UpTo(cur')
  BY <1>1 DEF Found, UpTo
<1>4. Same \subseteq 1 .. Len(lib.syms) /\ Len(lib.syms) \in Nat /\ DOMAIN lib.syms = 1 .. Len(lib.syms)
  BY <1>2, Parts DEF Same, Matches
<1>5. \A j \in DOMAIN lib.syms : Matching(j) <=> j \in Same
  BY DEF Matching, Same, Matches
<1>6. DOMAIN libs = 1 .. Len(libs) /\ Len(libs) \in Nat /\ Found \subseteq DOMAIN libs
  BY Objects, Answering DEF Tabled, TypeOK, Found
<1>7. CASE loopy
  <2>1. prog = "dnl" /\ pc = "loop" /\ i \in 0 .. Len(lib.syms) /\ Has(lib, "HASH") /\ cur' = cur
    BY <1>7 DEF loopy, Tabled, Place
  <2>2. val = 0 /\ \A j \in Same : j <= i
    BY <2>1 DEF Searched, SearchedDown
  <2>3. Same' = Same /\ lib' = lib
    BY <1>1, <2>1 DEF Same, lib
  <2>4. CASE i = 0
    <3>1. Same = {}
      BY <1>4, <2>2, <2>4
    <3>2. Abstract!Offer(prog, lib, key) = 0
      BY <3>1, Offered DEF Same
    <3>3. QED
      BY <1>1, <1>3, <1>7, <2>1, <2>2, <2>3, <2>4, <3>2
      DEF loopy, Goto, Searched, SearchedDown, SearchedUp, SearchedAll, Busy
  <2>5. CASE i # 0 /\ Matching(i)
    <3>1. i \in Same
      BY <1>4, <1>5, <2>1, <2>5
    <3>2. Abstract!Highest(Same) = i
      <4>1. Same \subseteq Int /\ \A k \in Same : i >= k
        BY <1>4, <2>1, <2>2
      <4>2. QED
        BY <3>1, <4>1, IsHighest
    <3>3. Abstract!Offer(prog, lib, key) = Val(lib, i)
      BY <2>1, <3>1, <3>2, Offered DEF Same
    <3>4. QED
      BY <1>1, <1>3, <1>7, <2>1, <2>3, <2>5, <3>3
      DEF loopy, Goto, Searched, SearchedDown, SearchedUp, SearchedAll, Busy
  <2>6. CASE i # 0 /\ ~Matching(i)
    <3>1. \A j \in Same : j <= i - 1
      BY <1>4, <1>5, <2>1, <2>2, <2>6
    <3>2. QED
      BY <1>1, <1>3, <1>7, <2>1, <2>2, <2>3, <2>6, <3>1
      DEF loopy, Goto, Searched, SearchedDown, SearchedUp, SearchedAll, Busy
  <2>7. QED
    BY <2>4, <2>5, <2>6
<1>8. CASE Tested
  <2>1. prog = "dnl" /\ val = Abstract!Offer(prog, lib, key) /\ cur' = cur /\ pc = "tested"
    BY <1>8 DEF Tested, Searched, SearchedDown
  <2>2. val = 0 => cur \notin Found
    BY <1>2, <2>1, Answering DEF Found
  <2>3. QED
    BY <1>1, <1>3, <1>6, <1>8, <2>1, <2>2 DEF Tested, Goto, Searched, SearchedDown, SearchedUp, SearchedAll, Busy
<1>9. CASE loopyAll
  <2> DEFINE Sofar == {j \in Same : j <= i}
             Next1 == {j \in Same : j <= i + 1}
  <2>1. prog = "heb" /\ pc = "loop" /\ i \in 0 .. Len(lib.syms) /\ Has(lib, "HASH") /\ cur' = cur
    BY <1>9 DEF loopyAll, Tabled, Place
  <2>2. answer = IF Sofar = {} THEN UpTo(cur - 1) ELSE Val(lib, Abstract!Highest(Sofar))
    BY <2>1 DEF Searched, SearchedAll
  <2>3. Same' = Same /\ lib' = lib
    BY <1>1, <2>1 DEF Same, lib
  <2>4. CASE i = Len(lib.syms)
    <3>1. Sofar = Same
      <4>1. \A j \in Same : j <= i
        BY <1>4, <2>4
      <4>2. QED
        BY <4>1
    <3>2. cur \in Found <=> Same # {}
      BY <1>2, <2>1, Answering DEF Found, Same
    <3>3. Same # {} => Abstract!Offer(prog, lib, key) = Val(lib, Abstract!Highest(Same))
      BY <2>1, Offered DEF Same
    <3>4. answer = UpTo(cur)
      BY <1>2, <2>2, <3>1, <3>2, <3>3, UpToNext
    <3>5. pc' = "next" /\ answer' = answer
      BY <1>9, <2>4 DEF loopyAll, Goto
    <3>6. QED
      BY <1>1, <1>3, <2>1, <3>4, <3>5 DEF Searched, SearchedDown, SearchedUp, SearchedAll
  <2>5. CASE i # Len(lib.syms)
    <3>1. i' = i + 1 /\ pc' = pc /\ answer' = IF Matching(i + 1) THEN Val(lib, i + 1) ELSE answer
      BY <1>9, <2>5 DEF loopyAll
    <3>2. i + 1 \in DOMAIN lib.syms
      BY <1>4, <2>1, <2>5
    <3>3. answer' = IF Next1 = {} THEN UpTo(cur - 1) ELSE Val(lib, Abstract!Highest(Next1))
      <4>1. CASE Matching(i + 1)
        <5>1. i + 1 \in Next1 /\ Next1 \subseteq Int /\ \A k \in Next1 : i + 1 >= k
          <6>1. i + 1 \in Same
            BY <1>5, <3>2, <4>1
          <6>2. \A k \in Same : k \in Int /\ (k <= i + 1 => i + 1 >= k)
            BY <1>4, <2>1
          <6>3. i + 1 <= i + 1
            BY <2>1
          <6>4. QED
            BY <6>1, <6>2, <6>3
        <5>2. Abstract!Highest(Next1) = i + 1
          BY <5>1, IsHighest
        <5>3. QED
          BY <3>1, <4>1, <5>1, <5>2
      <4>2. CASE ~Matching(i + 1)
        <5>1. Next1 = Sofar
          <6>1. \A j \in Same : j # i + 1
            BY <1>5, <3>2, <4>2
          <6>2. \A j \in Same : j <= i + 1 <=> j <= i
            BY <1>4, <2>1, <6>1
          <6>3. QED
            BY <6>2
        <5>2. QED
          BY <2>2, <3>1, <4>2, <5>1
      <4>3. QED
        BY <4>1, <4>2
    <3>4. UpTo(cur - 1)' = UpTo(cur - 1)
      BY <1>3, <2>1
    <3>5. {j \in Same : j <= i}' = Next1
      BY <2>3, <3>1
    <3> HIDE DEF Sofar, Next1
    <3>6. SearchedAll'
      BY <1>1, <2>1, <2>3, <3>1, <3>3, <3>4, <3>5 DEF SearchedAll
    <3>7. QED
      BY <1>1, <2>1, <3>6 DEF Searched, SearchedDown, SearchedUp
  <2>6. QED
    BY <2>4, <2>5
<1>10. CASE Hashed
  <2>1. prog = "dnload" /\ pc = "loop" /\ i \in 0 .. Len(lib.syms) /\ Has(lib, "HASH") /\ cur' = cur
    BY <1>10 DEF Hashed, Tabled, Place
  <2>2. \A j \in Same : j > i
    BY <2>1 DEF Searched, SearchedUp
  <2>3. Same' = Same /\ lib' = lib
    BY <1>1, <2>1 DEF Same, lib
  <2>4. i = Len(lib.syms) => cur \notin Found
    <3>1. i = Len(lib.syms) => Same = {}
      BY <1>4, <2>2
    <3>2. QED
      BY <1>2, <3>1, Answering DEF Found, Same
  <2>5. i # Len(lib.syms) /\ ~Matching(i + 1) => \A j \in Same : j > i + 1
    BY <1>4, <1>5, <2>1, <2>2
  <2>6. QED
    BY <1>1, <1>2, <1>3, <1>6, <1>10, <2>1, <2>2, <2>3, <2>4, <2>5
    DEF Hashed, Goto, Searched, SearchedDown, SearchedUp, SearchedAll, Busy
<1>11. CASE NextObject
  <2>1. pc = "next" /\ pc' = "lib" /\ cur' = cur + 1 /\ answer' = answer
    BY <1>11 DEF NextObject, Goto
  <2>2. UpTo(cur - 1)' = UpTo(cur)
    BY <1>3, <1>6, <1>2, <2>1
  <2>3. SearchedAll'
    BY <1>1, <2>1, <2>2 DEF Searched, SearchedAll
  <2>4. SearchedDown' /\ SearchedUp'
    BY <1>1, <1>2, <1>3, <1>6, <2>1 DEF Searched, SearchedDown, SearchedUp, Busy
  <2>5. QED
    BY <2>3, <2>4 DEF Searched
<1>12. QED
  BY <1>7, <1>8, <1>9, <1>10, <1>11

-----------------------------------------------------------------------------
(* The refinement.                                                         *)

Phase  == IF pc \in {"start", "found", "end", "nomap", "wild"} THEN "idle"
          ELSE IF pc = "crash" THEN "lost" ELSE "asked"
Answer == IF prog = "heb" /\ pc \notin {"found", "end"} THEN 0 ELSE answer

\* What is known when an object answers, or none can.
LEMMA Outcomes ==
  ASSUME Tabled, Searched
  PROVE  /\ Tested /\ val # 0 =>
              Walked = libs /\ ~Abstract!Lost(prog, libs, key) /\ val = Abstract!Promise(prog, libs, key)
         /\ Hashed /\ i # Len(lib.syms) /\ Matching(i + 1) =>
              ~Abstract!Lost(prog, libs, key) /\ Val(lib, i + 1) = Abstract!Promise(prog, libs, key)
         /\ EndOfMap =>
              IF prog = "heb"
              THEN ~Abstract!Lost(prog, libs, key) /\ answer = Abstract!Promise(prog, libs, key)
              ELSE Abstract!Lost(prog, Walked, key)
         /\ ThreeTags /\ ~(\A t \in Tables : Has(lib, t)) => Abstract!Lost(prog, libs, key)
<1>1. DOMAIN libs = 1 .. Len(libs) /\ Len(libs) \in Nat /\ Found \subseteq DOMAIN libs
  BY Objects, Answering DEF Tabled, TypeOK, Found
<1>2. ASSUME cur \in Found, \A l \in Found : l >= cur
      PROVE  Abstract!Lowest(Found) = cur
  BY <1>1, <1>2, IsLowest
<1>3. ASSUME Tested, val # 0
      PROVE  Walked = libs /\ ~Abstract!Lost(prog, libs, key) /\ val = Abstract!Promise(prog, libs, key)
  <2>1. prog = "dnl" /\ pc = "tested" /\ loader /\ val = Abstract!Offer(prog, lib, key)
    BY <1>3 DEF Tested, Searched, SearchedDown, Tabled, TypeOK
  <2>2. cur \in DOMAIN libs /\ lib = libs[cur]
    BY <2>1 DEF Tabled, Place, Busy, lib
  <2>3. cur \in Found /\ \A l \in Found : l >= cur
    BY <1>3, <2>1, <2>2, Answering DEF Found, Searched, SearchedDown, Busy
  <2>4. QED
    BY <1>2, <2>1, <2>2, <2>3 DEF Walked, Found, Abstract!Lost, Abstract!Blocked, Abstract!Promise
<1>4. ASSUME Hashed, i # Len(lib.syms), Matching(i + 1)
      PROVE  ~Abstract!Lost(prog, libs, key) /\ Val(lib, i + 1) = Abstract!Promise(prog, libs, key)
  <2>1. prog = "dnload" /\ pc = "loop" /\ i \in 0 .. Len(lib.syms) /\ Has(lib, "HASH")
    BY <1>4 DEF Hashed, Tabled, Place
  <2>2. cur \in DOMAIN libs /\ lib = libs[cur] /\ lib \in Object
    BY <2>1, AtHand DEF Tabled, Busy, lib
  <2>3. i + 1 \in Same /\ Same \subseteq Int /\ \A j \in Same : i + 1 <= j
    <3>1. DOMAIN lib.syms = 1 .. Len(lib.syms) /\ Len(lib.syms) \in Nat /\ Same \subseteq DOMAIN lib.syms
      BY <2>2, Parts DEF Same, Matches
    <3>2. i + 1 \in Same
      BY <1>4, <2>1, <3>1 DEF Matching, Same, Matches
    <3>3. \A j \in Same : j > i
      BY <2>1 DEF Searched, SearchedUp
    <3>4. QED
      BY <2>1, <3>1, <3>2, <3>3
  <2>4. Abstract!Offer(prog, lib, key) = Val(lib, i + 1)
    BY <2>1, <2>3, IsLowest, Offered DEF Same
  <2>5. cur \in Found /\ \A l \in Found : l >= cur
    BY <2>1, <2>2, <2>3, Answering DEF Found, Same, Searched, SearchedUp, Busy
  <2>6. \A h \in DOMAIN libs : h <= cur => Has(libs[h], "HASH")
    BY <1>1, <2>1, <2>2 DEF Searched, SearchedUp, Busy
  <2>7. ~Abstract!Lost(prog, libs, key)
    BY <2>5, <2>6, SameOperators DEF Found, Abstract!Lost, Abstract!Blocked
  <2>8. QED
    BY <1>2, <2>1, <2>2, <2>4, <2>5, <2>7 DEF Found, Abstract!Promise
<1>5. ASSUME EndOfMap
      PROVE  IF prog = "heb"
             THEN ~Abstract!Lost(prog, libs, key) /\ answer = Abstract!Promise(prog, libs, key)
             ELSE Abstract!Lost(prog, Walked, key)
  <2>1. pc = "lib" /\ cur = Len(libs) + 1 /\ prog \in {"dnl", "heb", "dnload"}
    BY <1>5 DEF EndOfMap, Null, Tabled, TypeOK
  <2>2. CASE prog = "heb"
    <3>1. answer = UpTo(Len(libs))
      BY <1>1, <2>1, <2>2 DEF Searched, SearchedAll
    <3>2. {l \in Found : l <= Len(libs)} = Found
      BY <1>1
    <3>3. QED
      BY <2>2, <3>1, <3>2 DEF UpTo, Found, Abstract!Lost, Abstract!Promise
  <2>3. CASE prog = "dnl" /\ ~loader
    BY <2>3, Answering DEF Walked, Abstract!Lost
  <2>4. CASE prog # "heb" /\ ~(prog = "dnl" /\ ~loader)
    <3>1. \A l \in Found : l >= cur
      BY <2>1, <2>4 DEF Searched, SearchedDown, SearchedUp, Tabled, TypeOK
    <3>2. Found = {}
      BY <1>1, <2>1, <3>1
    <3>3. QED
      BY <2>4, <3>2 DEF Walked, Found, Abstract!Lost
  <2>5. QED
    BY <2>2, <2>3, <2>4
<1>6. ASSUME ThreeTags, ~(\A t \in Tables : Has(lib, t))
      PROVE  Abstract!Lost(prog, libs, key)
  <2>1. prog = "dnload" /\ pc = "lib"
    BY <1>6 DEF ThreeTags
  <2>2. cur \in DOMAIN libs /\ lib = libs[cur] /\ WellFormed(lib)
    BY <1>6, AtHand DEF Tabled, ThreeTags, lib
  <2>3. ~Has(lib, "HASH")
    BY <1>6, <2>2 DEF WellFormed, Has, Tables
  <2>4. \A l \in Found : cur <= l
    BY <1>1, <2>1, <2>2 DEF Searched, SearchedUp
  <2>5. QED
    BY <2>1, <2>2, <2>3, <2>4, SameOperators DEF Found, Abstract!Lost, Abstract!Blocked
<1>7. QED
  BY <1>3, <1>4, <1>5, <1>6

LEMMA InitSearched == Init => Searched
BY DEF Init, Searched, SearchedDown, SearchedUp, SearchedAll, Busy

LEMMA StepSearched == Tabled /\ Searched /\ [Next]_vars => Searched'
<1> SUFFICES ASSUME Tabled, Searched, [Next]_vars PROVE Searched'
  OBVIOUS
<1>1. CASE Next
  BY <1>1, CallersSearched, DynSearched, LoopSearched DEF Next, Walk
<1>2. CASE UNCHANGED vars
  BY <1>2 DEF vars, Searched, SearchedDown, SearchedUp, SearchedAll, Busy, Null, Found, Same, UpTo, lib
<1>3. QED
  BY <1>1, <1>2

LEMMA InitRefines == Init => Abstract!Init
BY DEF Init, Abstract!Init, Walked

\* Asking, being answered and getting lost; every other step stutters.
LEMMA StepRefines ==
  ASSUME Tabled, Searched, [Next]_vars
  PROVE  [Abstract!Next]_(Abstract!lookupVars)
<1>1. prog \in {"dnl", "heb", "dnload"}
  BY DEF Tabled, TypeOK
<1>2. CASE _start \/ main \/ dnload
  <2>1. Phase = "idle" /\ Phase' = "asked" /\ Answer' = Answer /\ prog' = prog /\ Walked' = Walked
    BY <1>2 DEF _start, main, dnload, started, Goto, Phase, Answer, Walked
  <2>2. Abstract!Ask
    BY <2>1 DEF Abstract!Ask, Phase, Answer
  <2>3. QED
    BY <2>2 DEF Abstract!Next
<1>3. CASE exit2 \/ NoMap \/ return42 \/ dnloadStores
  <2>1. Phase' = Phase /\ Answer' = Answer /\ prog' = prog /\ Walked' = Walked /\ key' = key
    BY <1>3 DEF exit2, NoMap, return42, dnloadStores, started, Goto, Phase, Answer, Walked
  <2>2. QED
    BY <2>1 DEF Abstract!lookupVars, Phase, Answer
<1>4. CASE Object1 \/ DynEntry \/ DynEnd \/ loopy \/ loopyAll \/ NextObject
  <2>1. Phase' = Phase /\ Answer' = Answer /\ prog' = prog /\ Walked' = Walked /\ key' = key
    BY <1>4 DEF Object1, DynEntry, DynEnd, loopy, loopyAll, NextObject, started, Goto, Phase, Answer, Walked
  <2>2. QED
    BY <2>1 DEF Abstract!lookupVars, Phase, Answer
<1>5. CASE Tested
  <2>1. CASE val = 0
    <3>1. Phase' = Phase /\ Answer' = Answer /\ prog' = prog /\ Walked' = Walked /\ key' = key
      BY <1>5, <2>1 DEF Tested, started, Goto, Phase, Answer, Walked
    <3>2. QED
      BY <3>1 DEF Abstract!lookupVars, Phase, Answer
  <2>2. CASE val # 0
    <3>1. Phase = "asked" /\ Phase' = "idle" /\ Answer' = val /\ prog' = prog /\ Walked' = Walked /\ key' = key
      BY <1>5, <2>2 DEF Tested, started, Goto, Phase, Answer, Walked
    <3>2. Walked = libs /\ ~Abstract!Lost(prog, libs, key) /\ val = Abstract!Promise(prog, libs, key)
      BY <1>5, <2>2, Outcomes
    <3>3. Abstract!Answer
      BY <3>1, <3>2 DEF Abstract!Answer, Phase, Answer
    <3>4. QED
      BY <3>3 DEF Abstract!Next
  <2>3. QED
    BY <2>1, <2>2
<1>6. CASE Hashed
  <2>1. CASE i # Len(lib.syms) /\ Matching(i + 1)
    <3>1. /\ Phase = "asked" /\ Phase' = "idle" /\ Answer' = Val(lib, i + 1)
          /\ prog' = prog /\ Walked' = Walked /\ key' = key /\ Walked = libs
      BY <1>6, <2>1 DEF Hashed, started, Goto, Phase, Answer, Walked
    <3>2. ~Abstract!Lost(prog, libs, key) /\ Val(lib, i + 1) = Abstract!Promise(prog, libs, key)
      BY <1>6, <2>1, Outcomes
    <3>3. Abstract!Answer
      BY <3>1, <3>2 DEF Abstract!Answer, Phase, Answer
    <3>4. QED
      BY <3>3 DEF Abstract!Next
  <2>2. CASE ~(i # Len(lib.syms) /\ Matching(i + 1))
    <3>1. Phase' = Phase /\ Answer' = Answer /\ prog' = prog /\ Walked' = Walked /\ key' = key
      BY <1>6, <2>2 DEF Hashed, started, Goto, Phase, Answer, Walked
    <3>2. QED
      BY <3>1 DEF Abstract!lookupVars, Phase, Answer
  <2>3. QED
    BY <2>1, <2>2
<1>7. CASE EndOfMap
  <2>1. pc = "lib" /\ prog' = prog /\ Walked' = Walked /\ key' = key
    BY <1>7 DEF EndOfMap, started, Walked
  <2>2. CASE prog = "heb"
    <3>1. Phase = "asked" /\ Phase' = "idle" /\ Answer' = answer /\ Walked = libs
      BY <1>7, <2>1, <2>2 DEF EndOfMap, started, Goto, Phase, Answer, Walked
    <3>2. ~Abstract!Lost(prog, libs, key) /\ answer = Abstract!Promise(prog, libs, key)
      BY <1>7, <2>2, Outcomes
    <3>3. Abstract!Answer
      BY <2>1, <3>1, <3>2 DEF Abstract!Answer, Phase, Answer
    <3>4. QED
      BY <3>3 DEF Abstract!Next
  <2>3. CASE prog # "heb"
    <3>1. Phase = "asked" /\ Phase' = "lost" /\ Answer' = Answer
      BY <1>7, <2>1, <2>3 DEF EndOfMap, started, Goto, Phase, Answer
    <3>2. Abstract!Lost(prog, Walked, key)
      BY <1>7, <2>3, Outcomes
    <3>3. Abstract!GetLost
      BY <2>1, <3>1, <3>2 DEF Abstract!GetLost, Phase, Answer
    <3>4. QED
      BY <3>3 DEF Abstract!Next
  <2>4. QED
    BY <2>2, <2>3
<1>8. CASE ThreeTags
  <2>1. pc = "lib" /\ prog = "dnload" /\ prog' = prog /\ Walked' = Walked /\ key' = key /\ Walked = libs /\ Answer' = Answer
    BY <1>8 DEF ThreeTags, started, Walked, Answer
  <2>2. CASE \A t \in Tables : Has(lib, t)
    <3>1. Phase' = Phase
      BY <1>8, <2>1, <2>2 DEF ThreeTags, Goto, Phase
    <3>2. QED
      BY <2>1, <3>1 DEF Abstract!lookupVars, Phase, Answer
  <2>3. CASE ~(\A t \in Tables : Has(lib, t))
    <3>1. Phase = "asked" /\ Phase' = "lost"
      BY <1>8, <2>1, <2>3 DEF ThreeTags, Goto, Crash, Phase
    <3>2. Abstract!Lost(prog, libs, key)
      BY <1>8, <2>3, Outcomes
    <3>3. Abstract!GetLost
      BY <2>1, <3>1, <3>2 DEF Abstract!GetLost, Phase, Answer
    <3>4. QED
      BY <3>3 DEF Abstract!Next
  <2>4. QED
    BY <2>2, <2>3
<1>9. CASE UNCHANGED vars
  <2>1. Phase' = Phase /\ Answer' = Answer /\ prog' = prog /\ Walked' = Walked /\ key' = key
    BY <1>9 DEF vars, Phase, Answer, Walked
  <2>2. QED
    BY <2>1 DEF Abstract!lookupVars, Phase, Answer
<1>10. QED
  BY <1>2, <1>3, <1>4, <1>5, <1>6, <1>7, <1>8, <1>9 DEF Next, Walk

\* All three lookups keep the promise of module Lookup for every link map: the
\* address returned is the one promised, and a lookup that reads past the end
\* of the list, or a missing table, is one for which nothing is promised.
THEOREM Refinement == Spec => KeepsPromise
<1>1. Tabled /\ Searched /\ [Next]_vars => [Abstract!Next]_(Abstract!lookupVars)
  BY StepRefines
<1>2. QED
  BY <1>1, InitTabled, StepTabled, InitSearched, StepSearched, InitRefines, PTL
     DEF Spec, KeepsPromise, Abstract!Spec

-----------------------------------------------------------------------------
(* What the callers do with the address.                                   *)

\* _start jumps to the address of a symbol that matches.
Jump ==
  /\ prog = "dnl" /\ pc = "tested" /\ val # 0 =>
       \E s \in Matches("dnl", lib, key) : Val(lib, s) = val
  /\ prog = "dnl" /\ pc = "found" =>
       answer # 0 /\ \E l \in DOMAIN libs : \E s \in Matches("dnl", libs[l], key) : Val(libs[l], s) = answer
  /\ WildOnlyByImportOrPrefix

\* dnload() stores what was promised for the entry's hash.
Stored ==
  /\ prog = "dnload" /\ pc = "found" =>
       /\ answer = Abstract!Promise("dnload", libs, key)
       /\ \E l \in DOMAIN libs : \E s \in Matches("dnload", libs[l], key) : Val(libs[l], s) = answer
  /\ TableResolved

Used == Jump /\ Stored

LEMMA InitUsed == Init => Used
BY DEF Init, Used, Jump, WildOnlyByImportOrPrefix, Stored, TableResolved, Word, Unset

LEMMA StepJump ==
  ASSUME Tabled, Searched, Used, [Next]_vars
  PROVE  Jump'
<1>1. CASE exit2
  <2>1. prog = "dnl" /\ pc = "found" /\ prog' = prog /\ libs' = libs /\ key' = key /\ answer' = answer
    BY <1>1 DEF exit2, started
  <2>0. PICK l \in DOMAIN libs : \E s \in Matches("dnl", libs[l], key) : Val(libs[l], s) = answer
    BY <2>1 DEF Used, Jump
  <2>2. PICK s \in Matches("dnl", libs[l], key) : Val(libs[l], s) = answer
    BY <2>0
  <2>3. s \in DOMAIN libs[l].syms /\ answer # 0
    BY <2>1, <2>2 DEF Matches, Used, Jump
  <2>4. libs[l] \in Object
    BY Objects DEF Tabled, TypeOK
  <2>5. libs[l].syms[s].value \in Nat /\ libs[l].base \in Nat
    BY <2>3, <2>4, Parts, Elements
  <2>6. pc' = "wild" => libs[l].syms[s].name # ExitName \/ (libs[l].syms[s].value = 0 /\ libs[l].base # 0)
    BY <1>1, <2>2, <2>3, <2>5 DEF exit2, Goto, Val
  <2>7. WildOnlyByImportOrPrefix'
    BY <2>1, <2>2, <2>6 DEF WildOnlyByImportOrPrefix, Matches, Val, KeyOf
  <2>8. pc' \in {"end", "wild"}
    BY <1>1 DEF exit2, Goto
  <2>9. QED
    BY <2>7, <2>8 DEF Jump
<1>2. CASE loopy
  <2>1. prog = "dnl" /\ pc = "loop" /\ val = 0 /\ i \in 0 .. Len(lib.syms) /\ cur \in DOMAIN libs
    BY <1>2 DEF loopy, Searched, SearchedDown, Tabled, Place, Busy
  <2>2. lib \in Object /\ lib' = lib /\ key' = key /\ prog' = prog
    BY <1>2, <2>1, AtHand DEF Tabled, Busy, loopy, started, lib
  <2>3. DOMAIN lib.syms = 1 .. Len(lib.syms) /\ Len(lib.syms) \in Nat
    BY <2>2, Parts
  <2>4. CASE i # 0 /\ Matching(i)
    <3>1. i \in Matches("dnl", lib, key) /\ val' = Val(lib, i) /\ pc' = "tested"
      BY <1>2, <2>1, <2>3, <2>4 DEF loopy, Goto, Matching, Matches
    <3>2. QED
      BY <2>2, <3>1 DEF Jump, WildOnlyByImportOrPrefix
  <2>5. CASE i = 0 \/ ~Matching(i)
    <3>1. val' = 0 /\ pc' \in {"tested", "loop"}
      BY <1>2, <2>1, <2>5 DEF loopy, Goto
    <3>2. QED
      BY <3>1 DEF Jump, WildOnlyByImportOrPrefix
  <2>6. QED
    BY <2>4, <2>5
<1>3. CASE Tested
  <2>1. prog = "dnl" /\ pc = "tested" /\ cur \in DOMAIN libs /\ lib = libs[cur]
    BY <1>3 DEF Tested, Tabled, Place, Busy, lib
  <2>2. prog' = prog /\ libs' = libs /\ key' = key
    BY <1>3 DEF Tested, started
  <2>3. CASE val = 0
    BY <1>3, <2>3 DEF Tested, Goto, Jump, WildOnlyByImportOrPrefix
  <2>4. CASE val # 0
    <3>1. pc' = "found" /\ answer' = val
      BY <1>3, <2>4 DEF Tested, Goto
    <3>2. QED
      BY <2>1, <2>2, <2>4, <3>1 DEF Used, Jump, WildOnlyByImportOrPrefix
  <2>5. QED
    BY <2>3, <2>4
<1>4. CASE UNCHANGED vars
  BY <1>4 DEF vars, Used, Jump, WildOnlyByImportOrPrefix, lib
<1>5. CASE _start \/ NoMap \/ main \/ return42 \/ dnload \/ dnloadStores
  BY <1>5 DEF _start, NoMap, main, return42, dnload, dnloadStores, Goto, Jump, WildOnlyByImportOrPrefix
<1>6. CASE EndOfMap \/ Object1 \/ DynEntry \/ DynEnd \/ ThreeTags
  BY <1>6 DEF EndOfMap, Object1, DynEntry, DynEnd, ThreeTags, Goto, Crash, started, Jump,
              WildOnlyByImportOrPrefix
<1>7. CASE loopyAll \/ Hashed \/ NextObject
  BY <1>7 DEF loopyAll, Hashed, NextObject, Goto, started, Jump, WildOnlyByImportOrPrefix
<1>8. QED
  BY <1>1, <1>2, <1>3, <1>4, <1>5, <1>6, <1>7 DEF Next, Walk

LEMMA StepStored ==
  ASSUME Tabled, Searched, Used, [Next]_vars
  PROVE  Stored'
<1>1. CASE dnloadStores
  <2>1. prog = "dnload" /\ pc = "found" /\ pc' = "start" /\ libs' = libs
    BY <1>1 DEF dnloadStores, started, Goto
  <2> DEFINE n == Next24(table)
  <2>2. table' = [table EXCEPT ![n].addr = answer]
    BY <1>1 DEF dnloadStores
  <2>3. ~Done24(table) /\ key = table[n].hash
    BY <2>1 DEF Tabled, InOrder
  <2>4. n \in DOMAIN table /\ \A k \in DOMAIN table : table[k].addr # Unset <=> k < n
    BY <2>3, NextEntry DEF Tabled
  <2>5. DOMAIN table \subseteq Int /\ DOMAIN table' = DOMAIN table
    <3>1. DOMAIN table = 1 .. Len(TableNames) /\ Len(TableNames) \in Nat
      BY SymbolsAssumption DEF Tabled, TypeOK
    <3>2. QED
      BY <2>2, <3>1
  <2>6. /\ answer = Abstract!Promise("dnload", libs, key)
        /\ \E l \in DOMAIN libs : \E s \in Matches("dnload", libs[l], key) : Val(libs[l], s) = answer
    BY <2>1 DEF Used, Stored
  <2>7. \A k \in DOMAIN table : table'[k].hash = table[k].hash /\ (k # n => table'[k].addr = table[k].addr)
    BY <2>2, <2>4 DEF Tabled, TypeOK
  <2>8. table'[n].addr = answer
    BY <2>2, <2>4 DEF Tabled, TypeOK
  <2> HIDE DEF n
  <2>9. TableResolved'
    <3> SUFFICES ASSUME NEW k \in DOMAIN table
                 PROVE  /\ table'[k].hash = KeyOf("dnload", TableNames[k])
                        /\ \/ table'[k].addr = Unset /\ \A j \in DOMAIN table : j > k => table'[j].addr = Unset
                           \/ table'[k].addr = Abstract!Promise("dnload", libs, table'[k].hash)
                        /\ table'[k].addr # Unset =>
                             \E l \in DOMAIN libs : \E s \in Matches("dnload", libs[l], table'[k].hash) :
                                Val(libs[l], s) = table'[k].addr
      BY <2>1, <2>5 DEF TableResolved, Matches, KeyOf, Val
    <3>1. CASE k = n
      BY <2>3, <2>4, <2>6, <2>7, <2>8, <3>1 DEF Used, Stored, TableResolved
    <3>2. CASE k < n
      BY <2>4, <2>5, <2>7, <3>2 DEF Used, Stored, TableResolved
    <3>3. CASE k > n
      <4>1. table[k].addr = Unset /\ \A j \in DOMAIN table : j > k => table[j].addr = Unset /\ j # n
        BY <2>4, <2>5, <3>3
      <4>2. QED
        BY <2>4, <2>5, <2>7, <3>3, <4>1 DEF Used, Stored, TableResolved
    <3>4. QED
      BY <2>4, <2>5, <3>1, <3>2, <3>3
  <2>10. QED
    BY <2>1, <2>9 DEF Stored
<1>2. CASE Hashed
  <2>1. prog = "dnload" /\ prog' = prog /\ libs' = libs /\ key' = key /\ table' = table
    BY <1>2 DEF Hashed, started
  <2>2. TableResolved'
    BY <2>1 DEF Used, Stored, TableResolved
  <2>3. CASE i # Len(lib.syms) /\ Matching(i + 1)
    <3>1. pc = "loop" /\ answer' = Val(lib, i + 1)
      BY <1>2, <2>3 DEF Hashed
    <3>2. answer' = Abstract!Promise("dnload", libs, key)
      BY <1>2, <2>1, <2>3, <3>1, Outcomes
    <3>3. cur \in DOMAIN libs /\ lib = libs[cur] /\ lib \in Object /\ i \in 0 .. Len(lib.syms)
      BY <3>1, AtHand DEF Tabled, Place, Busy, lib
    <3>4. i + 1 \in Matches("dnload", libs[cur], key)
      BY <2>1, <2>3, <3>3, Parts DEF Matching, Matches
    <3>5. QED
      BY <2>1, <2>2, <3>1, <3>2, <3>3, <3>4 DEF Stored
  <2>4. CASE ~(i # Len(lib.syms) /\ Matching(i + 1))
    <3>1. pc' # "found"
      BY <1>2, <2>4 DEF Hashed, Goto
    <3>2. QED
      BY <2>2, <3>1 DEF Stored
  <2>5. QED
    BY <2>3, <2>4
<1>3. CASE UNCHANGED vars
  BY <1>3 DEF vars, Used, Stored, TableResolved
<1>4. CASE _start \/ exit2 \/ NoMap \/ main \/ return42 \/ dnload
  BY <1>4 DEF _start, exit2, NoMap, main, return42, dnload, started, Goto, Used, Stored, TableResolved
<1>5. CASE EndOfMap \/ Object1 \/ DynEntry \/ DynEnd \/ ThreeTags
  BY <1>5 DEF EndOfMap, Object1, DynEntry, DynEnd, ThreeTags, Goto, Crash, started, Used, Stored, TableResolved
<1>6. CASE loopy \/ Tested \/ loopyAll \/ NextObject
  BY <1>6 DEF loopy, Tested, loopyAll, NextObject, Goto, started, Used, Stored, TableResolved
<1>7. QED
  BY <1>1, <1>2, <1>3, <1>4, <1>5, <1>6 DEF Next, Walk

\* A jump into the wild has one of two causes: an import in an object that is
\* not loaded at 0, or a name that starts like exit (exit2(), mini.h:99).
THEOREM WildExplained == Spec => []WildOnlyByImportOrPrefix
<1>1. Tabled /\ Searched /\ Used /\ [Next]_vars => Used'
  BY StepJump, StepStored DEF Used
<1>2. Used => WildOnlyByImportOrPrefix
  BY DEF Used, Jump
<1>3. QED
  BY <1>1, <1>2, InitTabled, StepTabled, InitSearched, StepSearched, InitUsed, PTL DEF Spec

\* g_symbol_table is replaced from the front, each hash by the address
\* promised for it, and no entry is resolved twice (dnload(), dnload.c:79).
THEOREM TableRight == Spec => []TableResolved
<1>1. Tabled /\ Searched /\ Used /\ [Next]_vars => Used'
  BY StepJump, StepStored DEF Used
<1>2. Used => TableResolved
  BY DEF Used, Stored
<1>3. QED
  BY <1>1, <1>2, InitTabled, StepTabled, InitSearched, StepSearched, InitUsed, PTL DEF Spec
=============================================================================
