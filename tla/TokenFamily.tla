---------------------------- MODULE TokenFamily ----------------------------
(***************************************************************************)
(* What a session is to whoever holds its refresh token: a family of       *)
(* tokens that is opened once, whose head moves forward one token at a     *)
(* time while it is open, and that never moves again once it is closed.    *)
(***************************************************************************)
EXTENDS Naturals

CONSTANT Families

VARIABLES status,   \* status[f] is "unopened", "open" or "closed"
          head      \* head[f]: the number of the one token that can be redeemed

vars == <<status, head>>

Init ==
  /\ status \in [Families -> {"unopened", "open"}]
  /\ head = [f \in Families |-> 0]

Open(f) ==
  /\ status[f] = "unopened"
  /\ status' = [status EXCEPT ![f] = "open"]
  /\ UNCHANGED head

Redeem(f) ==
  /\ status[f] = "open"
  /\ head' = [head EXCEPT ![f] = @ + 1]
  /\ UNCHANGED status

\* Families are closed together when every device is signed out.
Close(fs) ==
  /\ \A f \in fs : status[f] = "open"
  /\ status' = [f \in Families |-> IF f \in fs THEN "closed" ELSE status[f]]
  /\ UNCHANGED head

Next ==
  \/ \E f \in Families : Open(f) \/ Redeem(f)
  \/ \E fs \in SUBSET Families : Close(fs)

Spec == Init /\ [][Next]_vars
=============================================================================
