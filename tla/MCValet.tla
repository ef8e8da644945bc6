------------------------------ MODULE MCValet -------------------------------
(***************************************************************************)
(* ValetCoro running f of tests/c0.cc.                                     *)
(***************************************************************************)
EXTENDS ValetCoro, TLC

CONSTANTS M, Addr

INSTANCE Programs

Results  == {NoRes}
Symmetry == Permutations(Proc)
=============================================================================
