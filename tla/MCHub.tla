------------------------------- MODULE MCHub --------------------------------
(***************************************************************************)
(* A small instance of Hub for TLC.                                        *)
(***************************************************************************)
EXTENDS Hub

CONSTANTS ann, shared

\* Everybody takes part in the shared conversation, ann in all of them.
TheAccess == [c \in Clients |-> IF c = ann THEN Rooms ELSE {shared}]
=============================================================================
