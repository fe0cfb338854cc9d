----------------------------- MODULE MCDelivery -----------------------------
(***************************************************************************)
(* A small instance of Delivery for TLC.                                   *)
(***************************************************************************)
EXTENDS Delivery

CONSTANTS ann, bob

\* Every event is a match of the two.
TheRecipients == [m \in Messages |-> <<ann, bob>>]
=============================================================================
