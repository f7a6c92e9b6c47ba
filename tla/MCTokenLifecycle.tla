-------------------------- MODULE MCTokenLifecycle --------------------------
EXTENDS TokenRefinement, TLC

\* Ids are only compared: any two of a kind may be swapped.
Symmetry == Permutations(Users) \cup Permutations(Sessions)
            \cup Permutations(Tokens) \cup Permutations(Workers)
=============================================================================
