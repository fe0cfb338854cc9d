-------------------------- MODULE MCNotifications ---------------------------
(***************************************************************************)
(* A small instance of Notifications for TLC.                              *)
(***************************************************************************)
EXTENDS Notifications

CONSTANTS ann, bob, match

\* A match notifies both, any other event one of them.
TheRecipients == [m \in Messages |-> IF m = match THEN <<ann, bob>> ELSE <<bob>>]
=============================================================================
