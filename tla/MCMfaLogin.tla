----------------------------- MODULE MCMfaLogin -----------------------------
EXTENDS MfaRefinement, TLC

\* Ids are only compared: any two of a kind may be swapped.
Symmetry == Permutations(Workers) \cup Permutations(Secrets)
            \cup Permutations(Codes) \cup Permutations(MfaTokens)
=============================================================================
