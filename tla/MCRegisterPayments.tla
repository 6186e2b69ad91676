------------------------- MODULE MCRegisterPayments -------------------------
EXTENDS RegisterPayments, TLC

\* Operations differ only in what they carry.
Symmetry == Permutations(Slots)

=============================================================================
