------------------------------ MODULE MCHandle ------------------------------
EXTENDS Handle, TLC

Symmetry == Permutations(Slot) \cup Permutations(Frame)
=============================================================================
