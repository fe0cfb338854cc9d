----------------------------- MODULE MCServices -----------------------------
(***************************************************************************)
(* The components that share no state with each other, side by side: the   *)
(* world picks the one that moves, so that one run checks them all and its *)
(* state space is the sum of theirs.                                       *)
(***************************************************************************)
EXTENDS Messaging, Keyset, Media, Inbox, Traits, Compatibility, Questionnaire,
        RateLimit, Migrations, Profile, Preferences, Accounts, Access

VARIABLE world  \* the component that moves

MCBank == [q \in {"q1", "q2", "q3"} |->
             [trait |-> IF q = "q3" THEN "extraversion" ELSE "openness",
              direction |-> IF q = "q2" THEN -1 ELSE 1]]
MCKeyLists == {<<"ip">>, <<"ip", "email">>}
MCAliases == [w \in {"man", "male", "woman"} |-> IF w = "woman" THEN "woman" ELSE "man"]

Worlds == {"messaging", "keyset", "media", "inbox", "traits", "compatibility",
           "questionnaire", "limits", "migrations", "profile", "preferences",
           "accounts", "access"}

\* Where a component may begin in several ways, it does so in its own world.
ServicesInit ==
  /\ world \in Worlds
  /\ MessagingInit /\ InboxInit /\ CompatibilityInit /\ QuestionnaireInit
  /\ AccountsInit /\ AccessInit
  /\ KeysetInit /\ (world = "keyset" \/ (list = "messages" /\ \A r \in RowIds : place[r] = 0))
  /\ MediaInit /\ (world = "media" \/ resizable)
  /\ TraitsInit /\ (world = "traits" \/ row.version = 0)
  /\ RateLimitInit /\ (world = "limits" \/ failClosed)
  /\ MigrationsInit /\ (world = "migrations" \/ build = CHOOSE b \in [Migrators -> Builds] : TRUE)
  /\ ProfileInit /\ (world = "profile" \/ profile.gallery = <<>>)
  /\ PreferencesInit /\ (world = "preferences" \/ settings = NotSent)

\* The variables of four groups of components.
talkVars == <<messagingVars, keysetVars, inboxVars, mediaVars>>
traitsVars == <<traitVars, compatVars, sheet>>
memberVars == <<profileVars, settings, accountVars, accessVars>>
platformVars == <<limitVars, migrationVars>>

ServicesNext ==
  \/ world = "messaging" /\ MessagingNext
     /\ UNCHANGED <<world, keysetVars, inboxVars, mediaVars, traitsVars, memberVars, platformVars>>
  \/ world = "keyset" /\ KeysetNext
     /\ UNCHANGED <<world, messagingVars, inboxVars, mediaVars, traitsVars, memberVars, platformVars>>
  \/ world = "inbox" /\ InboxNext
     /\ UNCHANGED <<world, messagingVars, keysetVars, mediaVars, traitsVars, memberVars, platformVars>>
  \/ world = "media" /\ MediaNext
     /\ UNCHANGED <<world, messagingVars, keysetVars, inboxVars, traitsVars, memberVars, platformVars>>
  \/ world = "traits" /\ TraitsNext
     /\ UNCHANGED <<world, compatVars, sheet, talkVars, memberVars, platformVars>>
  \/ world = "compatibility" /\ CompatibilityNext
     /\ UNCHANGED <<world, traitVars, sheet, talkVars, memberVars, platformVars>>
  \/ world = "questionnaire" /\ QuestionnaireNext
     /\ UNCHANGED <<world, traitVars, compatVars, talkVars, memberVars, platformVars>>
  \/ world = "profile" /\ ProfileNext
     /\ UNCHANGED <<world, settings, accountVars, accessVars, talkVars, traitsVars, platformVars>>
  \/ world = "preferences" /\ PreferencesNext
     /\ UNCHANGED <<world, profileVars, accountVars, accessVars, talkVars, traitsVars, platformVars>>
  \/ world = "accounts" /\ AccountsNext
     /\ UNCHANGED <<world, profileVars, settings, accessVars, talkVars, traitsVars, platformVars>>
  \/ world = "access" /\ AccessNext
     /\ UNCHANGED <<world, profileVars, settings, accountVars, talkVars, traitsVars, platformVars>>
  \/ world = "limits" /\ RateLimitNext
     /\ UNCHANGED <<world, migrationVars, talkVars, traitsVars, memberVars>>
  \/ world = "migrations" /\ MigrationsNext
     /\ UNCHANGED <<world, limitVars, talkVars, traitsVars, memberVars>>

ServicesSpec ==
  ServicesInit /\ [][ServicesNext]_<<world, talkVars, traitsVars, memberVars, platformVars>>

-----------------------------------------------------------------------------
\* What does not move need not be looked at again.
In(w, inv) == world = w => inv

\* Every variable of every component has its type.
ServicesTypeOK ==
  /\ In("messaging", MessagingTypeOK) /\ In("keyset", KeysetTypeOK)
  /\ In("media", MediaTypeOK) /\ In("inbox", InboxTypeOK) /\ In("traits", TraitsTypeOK)
  /\ In("compatibility", CompatibilityTypeOK) /\ In("questionnaire", QuestionnaireTypeOK)
  /\ In("limits", RateLimitTypeOK) /\ In("migrations", MigrationsTypeOK)
  /\ In("profile", ProfileTypeOK) /\ In("preferences", PreferencesTypeOK)
  /\ In("accounts", AccountsTypeOK) /\ In("access", AccessTypeOK)

\* The unread badge and the trait vector agree with their tables whenever no
\* call overlapped another on the cache (notifications counters, trait cache).
CachesAreCurrentUnlessRaced ==
  In("inbox", CountIsRightUnlessRaced) /\ In("traits", TraitsAreCurrentUnlessRaced)

\* No window serves more than its limit, nobody is refused by a counter that
\* cannot expire, and retakes of the questionnaire keep their distance.
QuotasHold == []In("limits", LimitHolds) /\ RetakesAreSpaced

\* Scores are in range, alike in both directions and in both implementations,
\* and a sheet is scored by what was answered (domain/traits.go, scoring.go).
ScoresAreSound ==
  In("compatibility", PairScoresAreSound) /\ In("questionnaire", SheetsAreScoredSoundly)

\* The gallery's columns agree and forms keep its photos; the preferences pass
\* the table's constraints and stay finished (profile and preferences services).
MembersSettingsAreSound ==
  /\ []In("profile", GalleryShape) /\ FormKeepsPhotos
  /\ []In("preferences", PreferencesAreSound) /\ PreferencesStayDone

\* Addresses, links and access tokens (auth: registration, verification, tokens).
IdentitiesAreSound ==
  In("accounts", AccountsAreSound) /\ In("access", AccessEndsAfterRevocation)
=============================================================================
