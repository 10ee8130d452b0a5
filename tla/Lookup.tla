------------------------------- MODULE Lookup --------------------------------
(***************************************************************************)
(* What a symbol lookup promises, whatever way it walks the link map: a    *)
(* caller asks for a key, and is either answered with the address the      *)
(* first object in order has for it, or is lost.                           *)
(***************************************************************************)
EXTENDS LinkMap

VARIABLES prog, libs, phase, key, answer
lookupVars == <<prog, libs, phase, key, answer>>

(***************************************************************************)
(* The symbol a lookup takes from one object.  dnl.c goes down from the    *)
(* last symbol and stops at the first match it meets; dnload.c goes up;    *)
(* heb.c goes up and lets every match overwrite the one before.            *)
(***************************************************************************)
Lowest(S)  == CHOOSE j \in S : \A k \in S : j <= k
Highest(S) == CHOOSE j \in S : \A k \in S : j >= k
Taken(p, lib, k) ==
  IF p = "dnload" THEN Lowest(Matches(p, lib, k)) ELSE Highest(Matches(p, lib, k))
Offer(p, lib, k) ==
  IF Has(lib, "HASH") /\ Matches(p, lib, k) # {} THEN Val(lib, Taken(p, lib, k)) ELSE 0

(***************************************************************************)
(* The objects that answer.  dnl.c takes an address of 0 for no answer;    *)
(* dnload.c does not test the address, and cannot get past an object       *)
(* without a hash table; in heb.c the last object with a match wins.       *)
(***************************************************************************)
Answers(p, m, k) ==
  {l \in DOMAIN m :
     IF p = "dnl" THEN Offer(p, m[l], k) # 0
     ELSE Has(m[l], "HASH") /\ Matches(p, m[l], k) # {}}
Blocked(p, m, k) ==
  p = "dnload" /\ \E h \in DOMAIN m : /\ ~Has(m[h], "HASH")
                                     /\ \A l \in Answers(p, m, k) : h <= l
Lost(p, m, k) == p # "heb" /\ (Answers(p, m, k) = {} \/ Blocked(p, m, k))
Promise(p, m, k) ==
  LET A == Answers(p, m, k)
  IN  IF A = {} THEN 0 ELSE Offer(p, m[IF p = "heb" THEN Highest(A) ELSE Lowest(A)], k)

Init ==
  /\ prog \in {"dnl", "dnload", "heb"} /\ libs \in LinkMaps \cup {<<>>}
  /\ phase = "idle" /\ key = <<>> /\ answer = 0

\* The caller chooses any key.
Ask == phase = "idle" /\ phase' = "asked" /\ UNCHANGED <<prog, libs, answer>>

Answer ==
  /\ phase = "asked" /\ phase' = "idle"
  /\ ~Lost(prog, libs, key) /\ answer' = Promise(prog, libs, key)
  /\ UNCHANGED <<prog, libs, key>>

GetLost ==
  /\ phase = "asked" /\ phase' = "lost" /\ Lost(prog, libs, key)
  /\ UNCHANGED <<prog, libs, key, answer>>

Next == Ask \/ Answer \/ GetLost
Spec == Init /\ [][Next]_lookupVars
=============================================================================
