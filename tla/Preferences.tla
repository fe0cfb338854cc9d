----------------------------- MODULE Preferences -----------------------------
(***************************************************************************)
(* internal/preferences: the settings row of one member, replaced as a     *)
(* whole by every PUT, the validation in front of it and the CHECK         *)
(* constraints behind it, and the two definitions of a finished form: the  *)
(* one of the service and the one in the SQL of /auth/me.                  *)
(***************************************************************************)
EXTENDS Integers, Sequences, SequencesExt

CONSTANTS AgesSent,       \* ages a request may name
          DistancesSent,  \* distances a request may name
          NotSent,        \* null
          Genders,        \* the canonical genders
          GenderAliases,  \* what a request may call them, with each one's gender
          OtherWord,      \* a word that is no gender
          MaxWords        \* bound: entries of a request's list

ASSUME PreferencesAssumption ==
  /\ AgesSent \subseteq Nat /\ DistancesSent \subseteq Int /\ MaxWords \in Nat
  /\ GenderAliases \in [DOMAIN GenderAliases -> Genders]
  /\ OtherWord \notin DOMAIN GenderAliases
  /\ NotSent \notin [ageMin: Nat \cup {NotSent}, ageMax: Nat \cup {NotSent},
                     genders: Seq(Genders), distance: Int \cup {NotSent}]

VARIABLE settings  \* the row, NotSent when there is none

MinAge == 18
MaxAge == 120
MinDistanceKM == 1
MaxDistanceKM == 20000
MaxGenderCount == 4

Words == DOMAIN GenderAliases \cup {OtherWord}
WordLists == UNION {[1 .. n -> Words] : n \in 0 .. MaxWords}

PreferencesTypeOK ==
  settings # NotSent =>
    /\ {settings.ageMin, settings.ageMax} \subseteq Nat \cup {NotSent}
    /\ settings.genders \in Seq(Genders)
    /\ settings.distance \in Int \cup {NotSent}

\* Registration's row, a row of before (its ages and genders unset), or none.
PreferencesInit ==
  settings \in {[ageMin |-> 18, ageMax |-> 99, genders |-> <<>>, distance |-> NotSent],
                [ageMin |-> NotSent, ageMax |-> NotSent, genders |-> <<>>,
                 distance |-> NotSent],
                NotSent}

-----------------------------------------------------------------------------
\* NormalizeGenderList: the first word that is no gender refuses the list ...
WordsAreGenders(words) == ToSet(words) \subseteq DOMAIN GenderAliases

\* Fault: what the request calls the genders is stored.
AsSent(words) == words

\* ... and each gender is kept once, in the order of the request.
GendersOf(words) ==
  FoldLeft(LAMBDA out, w : IF GenderAliases[w] \in ToSet(out) THEN out
                           ELSE Append(out, GenderAliases[w]), <<>>, words)

\* Fault: an age range is not looked at as a whole.
AgesOKEachAlone(sent) ==
  /\ sent.ageMin # NotSent /\ sent.ageMax # NotSent
  /\ sent.ageMin \in MinAge .. MaxAge /\ sent.ageMax \in MinAge .. MaxAge

AgesOK(sent) ==
  /\ sent.ageMin # NotSent /\ sent.ageMax # NotSent
  /\ sent.ageMin \in MinAge .. MaxAge /\ sent.ageMax \in MinAge .. MaxAge
  /\ sent.ageMin <= sent.ageMax

\* Service.Update's validation.
IsValid(sent) ==
  /\ AgesOK(sent)
  /\ WordsAreGenders(sent.words)
  /\ Len(GendersOf(sent.words)) \in 1 .. MaxGenderCount
  /\ sent.distance = NotSent \/ sent.distance \in MinDistanceKM .. MaxDistanceKM

\* PUT /preferences: the upsert replaces every column, or adds the row.
PutPreferences(sent) ==
  /\ IsValid(sent)
  /\ settings' = [ageMin |-> sent.ageMin, ageMax |-> sent.ageMax,
                  genders |-> GendersOf(sent.words), distance |-> sent.distance]

PreferencesNext ==
  \E low, high \in AgesSent \cup {NotSent}, words \in WordLists,
     distance \in DistancesSent \cup {NotSent} :
    PutPreferences([ageMin |-> low, ageMax |-> high, words |-> words, distance |-> distance])

PreferencesSpec == PreferencesInit /\ [][PreferencesNext]_settings

-----------------------------------------------------------------------------
\* Preferences.Complete, and preferences_done in GetOnboarding's SQL.
IsComplete(row) == row.ageMin # NotSent /\ row.ageMax # NotSent /\ Len(row.genders) > 0
PreferencesDone(row) ==
  /\ row # NotSent
  /\ row.ageMin # NotSent /\ row.ageMax # NotSent
  /\ row.genders # <<>>

\* The CHECK constraints of migration 005.
RowIsAllowed(row) ==
  /\ {row.ageMin, row.ageMax} \subseteq MinAge .. MaxAge \cup {NotSent}
  /\ (row.ageMin # NotSent /\ row.ageMax # NotSent) => row.ageMin <= row.ageMax
  /\ row.distance # NotSent => row.distance \in 1 .. 20000
  /\ ToSet(row.genders) \subseteq Genders

\* "These mirror the CHECK constraints in 005_b_preferences.sql" (preferences.go):
\* nothing that passes the validation is refused by the table, and the two
\* definitions of a finished form agree on every row that can be stored.
PreferencesAreSound ==
  settings # NotSent =>
    /\ RowIsAllowed(settings)
    /\ PreferencesDone(settings) <=> IsComplete(settings)

\* Once finished, the form stays finished.
PreferencesStayDone ==
  [][PreferencesDone(settings) => PreferencesDone(settings')]_settings
=============================================================================
