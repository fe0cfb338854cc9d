--------------------------- MODULE Compatibility ---------------------------
(***************************************************************************)
(* How two people are scored against each other: domain.Compatibility in   *)
(* Go, which also scores a match, and the expression of the discovery      *)
(* query, which ranks the feed.  A score is a fraction [num, den] of whole *)
(* numbers; the code's floats are rounded to six decimals, which is left   *)
(* out.  The two people answer questionnaires and the viewer sets weights  *)
(* in any order.                                                           *)
(***************************************************************************)
EXTENDS Integers, FiniteSets, FiniteSetsExt

CONSTANTS TraitKeys,   \* the Big Five
          One,         \* the value that stands for 1.0: values are 0 .. One
          MaxWeight,   \* MaxTraitWeight, as many units as a neutral weight has
          Unset        \* a key that a vector or a weight map does not have

ASSUME CompatibilityAssumption ==
  /\ IsFiniteSet(TraitKeys) /\ TraitKeys # {}
  /\ One \in Nat \ {0} /\ MaxWeight \in Nat

Neutral == 1

\* What may be stored: also keys that are missing and a value out of range.
Values == {Unset, One + 1} \cup 0 .. One
WeightValues == {Unset, -1} \cup 0 .. MaxWeight + 1

VARIABLES viewer,     \* the viewer's vector
          candidate,  \* the other's
          weights     \* the viewer's trait_weights

compatVars == <<viewer, candidate, weights>>

CompatibilityTypeOK ==
  /\ viewer \in [TraitKeys -> Values]
  /\ candidate \in [TraitKeys -> Values]
  /\ weights \in [TraitKeys -> WeightValues]

-----------------------------------------------------------------------------
Complete(t) == \A k \in TraitKeys : t[k] # Unset /\ t[k] \in 0 .. One

\* A missing weight is neutral, others are clamped.
Weight(w, k) ==
  CASE w[k] = Unset     -> Neutral
    [] w[k] < 0         -> 0
    [] w[k] > MaxWeight -> MaxWeight
    [] OTHER            -> w[k]

SumOver(f) == MapThenSumSet(LAMBDA k : f[k], TraitKeys)

\* Fault: the weights are used as they come, although all of them may be zero.
ClampedOnly(w) == [k \in TraitKeys |-> Weight(w, k)]

\* Ordered: when every trait is switched off all of them count alike.
Ordered(w) ==
  LET clamped == [k \in TraitKeys |-> Weight(w, k)]
  IN  IF SumOver(clamped) <= 0 THEN [k \in TraitKeys |-> Neutral] ELSE clamped

Distance(x, y) == IF x < y THEN y - x ELSE x - y
Agreement(a, b, k) == One - Distance(a[k], b[k])

NeutralScore == [num |-> 1, den |-> 2]

\* domain.Compatibility, clamped to [0, 1].
Score(a, b, w) ==
  IF ~Complete(a) \/ ~Complete(b) THEN NeutralScore
  ELSE LET effective == Ordered(w)
           weighted == SumOver([k \in TraitKeys |-> effective[k] * Agreement(a, b, k)])
           total == SumOver(effective)
       IN  IF total <= 0 THEN NeutralScore
           ELSE [num |-> IF weighted < 0 THEN 0
                         ELSE IF weighted > total * One THEN total * One ELSE weighted,
                 den |-> total * One]

\* The score a match is stored with: unweighted, and none for lack of a vector.
Unweighted == [k \in TraitKeys |-> Unset]
PairScore(a, b) ==
  IF Complete(a) /\ Complete(b) THEN {Score(a, b, Unweighted)} ELSE {}

\* The deprecated lists score without weights too, and neutral for lack of a vector.
LegacyScore(a, b) == Score(a, b, Unweighted)

\* discoverSQL is given the viewer's vector and Ordered(weights) as parameters;
\* the candidate's keys must all be numbers.
Scored(b) == \A k \in TraitKeys : b[k] # Unset
SqlScore(a, b, effective) ==
  [num |-> SumOver([k \in TraitKeys |-> effective[k] * Agreement(a, b, k)]),
   den |-> SumOver(effective) * One]

-----------------------------------------------------------------------------
CompatibilityInit ==
  /\ viewer = [k \in TraitKeys |-> Unset]
  /\ candidate = [k \in TraitKeys |-> Unset]
  /\ weights = [k \in TraitKeys |-> Unset]

ViewerAssessed ==
  /\ viewer' \in [TraitKeys -> Values]
  /\ UNCHANGED <<candidate, weights>>

CandidateAssessed ==
  /\ candidate' \in [TraitKeys -> Values]
  /\ UNCHANGED <<viewer, weights>>

\* preferences.Update refuses what is out of range; older rows may have it.
Reweigh ==
  /\ weights' \in [TraitKeys -> WeightValues]
  /\ UNCHANGED <<viewer, candidate>>

CompatibilityNext == ViewerAssessed \/ CandidateAssessed \/ Reweigh

CompatibilitySpec == CompatibilityInit /\ [][CompatibilityNext]_compatVars

-----------------------------------------------------------------------------
IsScore(s) == s.den > 0 /\ 0 <= s.num /\ s.num <= s.den
Equal(s, t) == s.num * t.den = t.num * s.den

\* The scores a reader of both implementations relies on: always a number in
\* [0, 1], the same for both when weighed alike, the one the feed is ranked by
\* ("must stay equivalent to domain.Compatibility", repo.go:28), never divided
\* by zero ("guaranteeing the scorer never divides by zero", traits.go:137),
\* and 1 exactly when they agree on every trait that counts.
PairScoresAreSound ==
  LET s == Score(viewer, candidate, weights)
      comparable == Complete(viewer) /\ Complete(candidate)
  IN  /\ IsScore(s)
      /\ Equal(s, Score(candidate, viewer, weights))
      /\ PairScore(viewer, candidate) = PairScore(candidate, viewer)
      /\ PairScore(viewer, candidate) \subseteq {LegacyScore(viewer, candidate)}
      /\ comparable =>
           /\ Scored(candidate)
           /\ Equal(s, SqlScore(viewer, candidate, Ordered(weights)))
           /\ Equal(s, [num |-> 1, den |-> 1])
                <=> \A k \in TraitKeys :
                      viewer[k] = candidate[k] \/ Ordered(weights)[k] = 0
=============================================================================
