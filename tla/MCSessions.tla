----------------------------- MODULE MCSessions -----------------------------
(***************************************************************************)
(* Small instances of Sessions for TLC.                                    *)
(***************************************************************************)
EXTENDS Sessions, TLC

\* Requests are interchangeable: sound where no liveness is checked.
RequestSymmetry == Permutations(Requests)
=============================================================================
