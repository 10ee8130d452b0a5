----------------------------- MODULE MCNtpPool -----------------------------
(***************************************************************************)
(* NtpPool for TLC: the descriptor the program counts on, the one it gets  *)
(* when standard input is closed, one whose last byte is 0, and a socket() *)
(* that fails (EMFILE).                                                    *)
(***************************************************************************)
EXTENDS NtpPool

MCFds == {3, 0, 256, -24}
=============================================================================
