------------------------------ MODULE MCSymbols ------------------------------
(***************************************************************************)
(* Instances of Symbols: every link map of one program and up to two other *)
(* objects, with the shapes the lookups must tell apart.  Names are the    *)
(* code's own; hashes have 4 bits, so that names do collide.               *)
(***************************************************************************)
EXTENDS Symbols

MCExit  == <<101, 120, 105, 116>>             \* exit
MCExitG == <<101, 120, 105, 116, 95>>         \* exit_
MCDlsym == <<100, 108, 115, 121, 109>>        \* dlsym
MCPuts  == <<112, 117, 116, 115>>             \* puts
MCEx    == <<101, 120>>                       \* ex
MCTableNames == <<MCPuts, MCExit>>

E(t, o) == [tag |-> t, off |-> o]
S(n, v) == [name |-> n, value |-> v]
Dyn  == <<E("HASH", 1), E("STRTAB", 2), E("SYMTAB", 3), E("DEBUG", 4)>>
Dyn2 == <<E("NEEDED", 4), E("SYMTAB", 1), E("STRTAB", 3), E("HASH", 2)>>
Gnu  == <<E("STRTAB", 2), E("SYMTAB", 3)>>

Obj(b, r, dy, sy) == [base |-> b, relocated |-> r, dyn |-> dy, syms |-> sy]

MCPrograms == {
  Obj(0,  TRUE,  Dyn, <<S(<<>>, 0), S(MCExit, 0), S(MCDlsym, 0)>>),   \* linked at 0
  Obj(16, TRUE,  Dyn, <<S(<<>>, 0), S(MCExit, 0)>>),                   \* PIE
  Obj(0,  TRUE,  Gnu \o <<E("DEBUG", 4)>>, <<S(MCExit, 0)>>)}          \* no DT_HASH
MCLibraries == {
  Obj(32, TRUE,  Dyn2, <<S(<<>>, 0), S(MCExit, 5), S(MCDlsym, 6), S(MCPuts, 7)>>),
  Obj(48, TRUE,  Dyn2, <<S(MCExitG, 5), S(MCEx, 6), S(MCExit, 7)>>),
  Obj(64, FALSE, Dyn2, <<S(MCPuts, 5), S(MCExit, 6), S(MCExitG, 7)>>),
  Obj(80, FALSE, Dyn2, <<S(<<>>, 0), S(MCDlsym, 0)>>),                 \* imports dlsym
  Obj(96, TRUE,  Gnu,  <<S(MCExit, 5)>>)}
MCLinkMaps ==
  {<<p>> : p \in MCPrograms}
    \cup {<<p, a>> : p \in MCPrograms, a \in MCLibraries}
    \cup {<<p, a, b>> : p \in MCPrograms, a, b \in MCLibraries}
=============================================================================
