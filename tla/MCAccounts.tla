----------------------------- MODULE MCAccounts -----------------------------
(* Workers and row ids are interchangeable. *)
EXTENDS Accounts, TLC

Symmetry == Permutations(Workers) \cup Permutations(Rows)
=============================================================================
