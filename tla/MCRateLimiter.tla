--------------------------- MODULE MCRateLimiter ---------------------------
EXTENDS RateLimiter, TLC

\* Ids are only compared: any two requests may be swapped.
Symmetry == Permutations(Requests)
=============================================================================
