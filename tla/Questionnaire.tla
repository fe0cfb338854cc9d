--------------------------- MODULE Questionnaire ---------------------------
(***************************************************************************)
(* personality.Score: one pass over the submitted answers, which stops at  *)
(* the first that is not acceptable, against what a submission is meant to *)
(* yield.  A sheet is whatever a client may send: unknown questions,       *)
(* answers given twice or left out, values off the scale, any order.       *)
(***************************************************************************)
EXTENDS Integers, Sequences, FiniteSets, FiniteSetsExt, SequencesExt

CONSTANTS Bank,         \* the active questions: their trait_key and direction
          OtherQuestion,  \* an id that is not in the bank
          AnswerScale,  \* the highest answer; the lowest is 1
          MaxAnswers    \* bound: answers on a sheet

Questions == DOMAIN Bank

ASSUME QuestionnaireAssumption ==
  /\ IsFiniteSet(Questions) /\ OtherQuestion \notin Questions
  /\ AnswerScale \in Nat \ {0, 1} /\ MaxAnswers \in Nat

VARIABLE sheet

BankKeys == {Bank[q].trait : q \in Questions}
Marks == 0 .. AnswerScale + 1

QuestionnaireTypeOK ==
  /\ sheet \in Seq([question: Questions \cup {OtherQuestion}, value: Marks])
  /\ Len(sheet) <= MaxAnswers

\* (value - 1), turned round for a reverse-keyed item; over AnswerScale - 1.
Normalized(a) ==
  IF Bank[a.question].direction < 0 THEN AnswerScale - a.value ELSE a.value - 1

Rejected == [ok |-> FALSE]

\* Fault: an answer given twice counts twice.
AcceptableTwice(acc, a) ==
  /\ a.question \in Questions
  /\ a.value \in 1 .. AnswerScale

\* Known, not answered before, on the scale.
Acceptable(acc, a) ==
  /\ a.question \in Questions
  /\ a.question \notin acc.seen
  /\ a.value \in 1 .. AnswerScale

AddAnswer(acc, a) ==
  IF acc.ok /\ Acceptable(acc, a)
  THEN [acc EXCEPT !.seen = @ \cup {a.question},
                   !.sums[Bank[a.question].trait] = @ + Normalized(a),
                   !.counts[Bank[a.question].trait] = @ + 1]
  ELSE [acc EXCEPT !.ok = FALSE]

NothingScored ==
  [ok |-> TRUE, seen |-> {}, sums |-> [t \in BankKeys |-> 0],
   counts |-> [t \in BankKeys |-> 0]]

\* The traits as fractions, when the whole bank has been answered.  An empty
\* sheet is refused by Submit before it comes here.
ScoreSheet(answers) ==
  LET acc == FoldLeft(AddAnswer, NothingScored, answers)
  IN  IF acc.ok /\ Questions \subseteq acc.seen
      THEN [ok |-> TRUE,
            traits |-> [t \in BankKeys |->
                          [num |-> acc.sums[t],
                           den |-> acc.counts[t] * (AnswerScale - 1)]]]
      ELSE Rejected

-----------------------------------------------------------------------------
QuestionnaireInit == sheet = <<>>

WriteAnswer ==
  /\ Len(sheet) < MaxAnswers
  /\ \E q \in Questions \cup {OtherQuestion}, v \in Marks :
       sheet' = Append(sheet, [question |-> q, value |-> v])

QuestionnaireNext == WriteAnswer

QuestionnaireSpec == QuestionnaireInit /\ [][QuestionnaireNext]_sheet

-----------------------------------------------------------------------------
\* The one value given for each question of the bank, if that is what the
\* sheet holds.
Responses ==
  {f \in [Questions -> 1 .. AnswerScale] :
     /\ Len(sheet) = Cardinality(Questions)
     /\ ToSet(sheet) = {[question |-> q, value |-> f[q]] : q \in Questions}}

Share(f, q) == IF Bank[q].direction < 0 THEN AnswerScale - f[q] ELSE f[q] - 1

\* "Every active question must be answered exactly once" (scoring.go:54): that
\* and nothing else is scored, in whatever order it comes, and each trait is the
\* mean of its own questions, within [0, 1].
SheetsAreScoredSoundly ==
  LET result == ScoreSheet(sheet)
  IN  /\ result.ok <=> Responses # {}
      /\ \A f \in Responses, t \in BankKeys :
           LET mine == {q \in Questions : Bank[q].trait = t}
               r == result.traits[t]
           IN  /\ 0 <= r.num /\ r.num <= r.den /\ r.den > 0
               /\ r.num * Cardinality(mine) * (AnswerScale - 1)
                    = r.den * MapThenSumSet(LAMBDA q : Share(f, q), mine)
=============================================================================
