------------------------------- MODULE MCHand -------------------------------
(***************************************************************************)
(* HandCoro running valor.cc's k.                                          *)
(***************************************************************************)
EXTENDS HandCoro, TLC

CONSTANTS M, Addr

INSTANCE Programs

Results  == Ints \cup {NoRes}
Symmetry == Permutations(Proc)
=============================================================================
