------------------------------ MODULE MCDigits ------------------------------
(***************************************************************************)
(* Digits for TLC: a word has as many values as TLC's integers allow, so   *)
(* that the largest positive number has ten digits, like the code's.       *)
(***************************************************************************)
EXTENDS Digits

\* Around every power of ten, and where the sign bit comes in.
MCNumbers ==
  UNION {{10^k - 1, 10^k} : k \in 0 .. 9} \cup {(7 * 10^k) + 5 : k \in 0 .. 8}
    \cup {MaxInt - 1, MaxInt, W - 1}

\* Every nibble at every place.
MCPatterns ==
  {[i \in 1 .. 8 |-> (shift + (i * step)) % 16] : shift \in 0 .. 15,
                                                 step \in {0, 1, 3}}
MCWide == {p \o Reverse(p) : p \in MCPatterns}
=============================================================================
