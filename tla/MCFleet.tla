------------------------------ MODULE MCFleet ------------------------------
EXTENDS Fleet, TLC
Symmetry == Permutations(Governors)
=============================================================================
