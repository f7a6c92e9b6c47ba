-------------------------- MODULE MCTokenBlacklist --------------------------
EXTENDS TokenBlacklist, TLC

\* Ids are only compared: any two of a kind may be swapped.
Symmetry == Permutations(Jtis) \cup Permutations(Workers)
=============================================================================
