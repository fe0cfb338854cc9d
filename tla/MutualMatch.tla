---------------------------- MODULE MutualMatch ----------------------------
(***************************************************************************)
(* What the matching service promises its callers, with no transactions,   *)
(* locks or failures in sight: a decision about another person is taken    *)
(* once and stands, and the like that completes a mutual pair creates the  *)
(* match and announces it in the same indivisible step.                    *)
(***************************************************************************)
EXTENDS Naturals

CONSTANT Users

VARIABLES decision,   \* decision[<<u, v>>]: what u decided about v
          matched,    \* the pairs that are mutual matches
          announced   \* announced[p]: how many match.created events p has

vars == <<decision, matched, announced>>

Pairs == {{u, v} : u, v \in Users}
Decisions == {"none", "like", "pass"}

Init ==
  /\ decision = [d \in Users \X Users |-> "none"]
  /\ matched = {}
  /\ announced = [p \in Pairs |-> 0]

\* u takes the decision a about v: the only thing that ever happens.
Decide(u, v, a) ==
  /\ u # v
  /\ decision[<<u, v>>] = "none"
  /\ decision' = [decision EXCEPT ![<<u, v>>] = a]
  /\ IF a = "like" /\ decision[<<v, u>>] = "like"
     THEN /\ matched' = matched \cup {{u, v}}
          /\ announced' = [announced EXCEPT ![{u, v}] = @ + 1]
     ELSE UNCHANGED <<matched, announced>>

Next == \E u, v \in Users, a \in {"like", "pass"} : Decide(u, v, a)

Spec == Init /\ [][Next]_vars
=============================================================================
