------------------------------ MODULE MCEnvStr -------------------------------
\* Instances of EnvStr: up to six strings of up to four bytes, so that every
\* alignment of the end, and of a run of empty strings, comes up.
EXTENDS EnvStr, SequencesExt
Lengths ==
  {ss \in UNION {[1..n -> 0..4] : n \in 1..4} \cup
          {<<a, 0, 0, 0, 0, b>> : a \in 0..4, b \in 1..4} : Last(ss) > 0}
String(n) == [k \in 1..(n + 1) |-> k = n + 1]
MCTexts == {FlattenSeq([k \in DOMAIN ss |-> String(ss[k])]) : ss \in Lengths}
=============================================================================
