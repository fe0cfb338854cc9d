\* One component moves in each behaviour.  Two server goroutines (three where a
\* third can interfere with a pair: the trait cache and the links), two messages
\* under one client id, three rows that share two times, one upload with two
\* workers, three notifications, two migrators with two pool connections and two
\* files, and a limit of one: the smallest numbers at which every race meant
\* happens (README, section 3).
SPECIFICATION ServicesSpec
CONSTANTS
  Members = {ann, bob}
  Calls = {c1, c2}
  ClientIds = {k}
  NoClientId = NoClientId
  MaxMessages = 2
  RowIds = {1, 2, 3}
  Places = {1, 2}
  PageSize = 1
  Completers = {c1, c2}
  Deleters = {d}
  Workers = {w1, w2}
  Notes = {n1, n2, n3}
  InboxCalls = {c1, c2}
  TraitCalls = {c1, c2, c3}
  RetakeInterval = 2
  MaxRetakes = 2
  LastTick = 3
  TraitKeys = {o, c}
  One = 2
  MaxWeight = 2
  Unset = Unset
  Bank <- MCBank
  OtherQuestion = "q4"
  AnswerScale = 2
  MaxAnswers = 4
  LimitKeys = {"ip", "email"}
  KeyLists <- MCKeyLists
  Limit = 1
  LimitCalls = {c1, c2}
  MaxCount = 3
  Migrators = {p1, p2}
  Connections = {k1, k2}
  LastFile = 2
  Checksums = {"a", "b"}
  Photos = {a, b, d}
  BadPhoto = BadPhoto
  NoPhoto = NoPhoto
  MaxPhotos = 3
  ProfileCalls = {c1, c2}
  MaxSent = 2
  AgesSent = {17, 18, 120, 121}
  DistancesSent = {0, 1, 20000, 20001}
  NotSent = NotSent
  Genders = {"man", "woman"}
  GenderAliases <- MCAliases
  OtherWord = "other?"
  MaxWords = 3
  Emails = {ann, bob}
  AccountIds = {1, 2}
  LinkIds = {1, 2, 3}
  NoAccount = NoAccount
  AccountCalls = {c1, c2, c3}
  SessionIds = {s1, s2}
  AccessTTL = 2
  LastInstant = 3
INVARIANT ServicesTypeOK
INVARIANT WalksAreComplete
INVARIANT AssetsAreAccountedFor
 
 
INVARIANT MigrationsRunOnce
 
PROPERTY ThreadSpec
PROPERTY BlockClosesThread
PROPERTY QuotasHold
PROPERTY MembersSettingsAreSound
CHECK_DEADLOCK FALSE
