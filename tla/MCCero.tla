------------------------------- MODULE MCCero --------------------------------
(***************************************************************************)
(* Instances of Cero: an empty string, a short one, one of two lines, one  *)
(* with a NUL before its end, and 1% \ with both bytes it has to escape.   *)
(***************************************************************************)
EXTENDS Cero
MCTexts == {<<0>>, <<105, 0>>, <<97, 10, 98, 0>>, <<97, 0, 98, 0>>, <<49, 37, 32, 92, 0>>}
MCEscaped == {10, 34, 37, 92, 123}
=============================================================================
