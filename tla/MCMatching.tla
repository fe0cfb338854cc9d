----------------------------- MODULE MCMatching -----------------------------
(***************************************************************************)
(* A small instance of Matching for TLC.                                   *)
(***************************************************************************)
EXTENDS Matching

\* Every pair hashes to a key of its own: the pair itself.
DistinctKeys == [p \in Pairs |-> p]
=============================================================================
