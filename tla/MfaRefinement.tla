---------------------------- MODULE MfaRefinement ----------------------------
(***************************************************************************)
(* MfaLogin implements SecondFactor, for any number of overlapping         *)
(* requests.  The abstract state is what the tables hold and what clients  *)
(* were given; requests, their snapshots and the blacklist are how the     *)
(* code gets there.                                                        *)
(***************************************************************************)
EXTENDS MfaLogin

Factor == INSTANCE SecondFactor
    WITH held <- known, Batches <- {batch \in SUBSET Codes : Cardinality(batch) = BatchSize}

\* Every commit of every handler, in any interleaving and with any deaths, is
\* a step of SecondFactor or none: what enable, confirm and disable write is
\* what the promise allows of the row that is there, unless that row changed
\* under them, and a proof is spent before the pair it buys.
ImplementsSecondFactor == Factor!Spec
=============================================================================
