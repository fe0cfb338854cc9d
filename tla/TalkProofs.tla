----------------------------- MODULE TalkProofs -----------------------------
(***************************************************************************)
(* What members send each other: the invariants of messages, of the walks  *)
(* through paged lists, of media and of the unread counter, for any number *)
(* of members, calls, rows, objects and workers.                           *)
(***************************************************************************)
EXTENDS Messaging, Keyset, Media, Inbox, TLAPS, FiniteSetTheorems, SequenceTheorems

-----------------------------------------------------------------------------
\* Messaging: conversations, messages and the blocks that close them.

\* A call that has chosen its row, and one whose row nobody else can read yet.
Writing(c) == calls[c].step \in {"inserted", "touched", "stored", "published"}
Uncommitted(c) == calls[c].step \in {"inserted", "touched"}
RowOf(c) == [id |-> calls[c].id, sender |-> calls[c].user, key |-> calls[c].key]

\* A call has a caller, who was let in before any block that is in force.
CallersAreLetIn ==
  \A c \in Calls :
    /\ ~CallAt(c, "idle") => calls[c].user \in Members /\ (blocked => calls[c].early)
    /\ Writing(c) => calls[c].id \in MessageIds

\* No two calls write one row.
RowsAreOwned ==
  \A c, d \in Calls : (Writing(c) /\ Writing(d) /\ calls[c].id = calls[d].id) => c = d

\* A row that is not committed repeats neither the id nor the client id of one
\* that is, nor the client id of another such row.
InsertsAreNew ==
  \A c \in Calls :
    Uncommitted(c) =>
      /\ \A m \in messages :
           /\ m.id # calls[c].id
           /\ m.sender = calls[c].user /\ m.key = calls[c].key
                => calls[c].key = NoClientId
      /\ \A d \in Calls : Uncommitted(d) /\ SameKey(calls[c], calls[d]) => c = d

\* What has been said of a message is said of one that is stored, and not
\* before the call that stored it says so.
HistoryFits ==
  /\ \A i \in MessageIds :
       (\A m \in messages : m.id # i) => created[i] = 0 /\ announced[i] = 0
  /\ \A c \in Calls :
       /\ CallAt(c, "stored") \/ CallAt(c, "published") =>
            RowOf(c) \in messages /\ created[calls[c].id] = 0
       /\ CallAt(c, "stored") => announced[calls[c].id] = 0

ThreadInv ==
  MessagingTypeOK /\ CallersAreLetIn /\ RowsAreOwned /\ InsertsAreNew /\ HistoryFits

-----------------------------------------------------------------------------
\* What a step that gives one call a new state leaves of the calls.
LEMMA OneCallMoves ==
  ASSUME MessagingTypeOK, NEW c \in Calls, NEW state \in CallStates,
         CallBecomes(c, state)
  PROVE  /\ calls' \in [Calls -> CallStates]
         /\ calls'[c] = state
         /\ \A d \in Calls \ {c} : calls'[d] = calls[d]
BY DEF MessagingTypeOK, CallBecomes

\* The states a call may be given.
LEMMA NewStates ==
  ASSUME MessagingTypeOK, NEW c \in Calls
  PROVE  /\ IdleCall \in CallStates
         /\ \A s \in CallSteps : [calls[c] EXCEPT !.step = s] \in CallStates
         /\ \A i \in MessageIds :
              [calls[c] EXCEPT !.step = "inserted", !.id = i] \in CallStates
         /\ \A u \in Members :
              [IdleCall EXCEPT !.step = "opening", !.user = u] \in CallStates
         /\ \A u \in Members, k \in MessageKeys :
              [IdleCall EXCEPT !.step = "authorised", !.user = u, !.key = k] \in CallStates
<1>1. calls[c] \in CallStates
  BY DEF MessagingTypeOK
<1>2. IdleCall \in CallStates
  BY MessagingAssumption DEF IdleCall, CallStates, CallSteps, MessageKeys
<1>3. MessageIds \subseteq 0 .. MaxMessages
  BY MessagingAssumption DEF MessageIds
<1> QED BY <1>1, <1>2, <1>3 DEF CallStates, CallSteps, MessageKeys

\* A call that begins, or stops, writes nothing.
LEMMA QuietCall ==
  ASSUME ThreadInv, NEW c \in Calls, NEW state \in CallStates,
         CallBecomes(c, state), UNCHANGED <<messages, blocked>>,
         conversation' \in {"none", "plain", "matched"},
         state.step \in {"idle", "opening", "authorised", "begun"},
         state.step # "idle" => state.user \in Members /\ (blocked => state.early),
         replayed' \in SUBSET MessageRows,
         announced' = announced,
         \/ created' = created
         \/ /\ CallAt(c, "published")
            /\ created' = [created EXCEPT ![calls[c].id] = @ + 1]
  PROVE  ThreadInv'
<1> USE DEF ThreadInv
<1>1. /\ calls' \in [Calls -> CallStates]
      /\ calls'[c] = state
      /\ \A d \in Calls \ {c} : calls'[d] = calls[d]
  BY OneCallMoves
<1>2. messages' = messages /\ blocked' = blocked
  OBVIOUS
<1>3. MessagingTypeOK'
  BY <1>1, <1>2 DEF MessagingTypeOK
<1>4. ~Writing(c)' /\ ~Uncommitted(c)'
  BY <1>1 DEF Writing, Uncommitted
<1>5. \A d \in Calls \ {c} :
        /\ Writing(d)' = Writing(d) /\ Uncommitted(d)' = Uncommitted(d)
        /\ RowOf(d)' = RowOf(d)
  BY <1>1 DEF Writing, Uncommitted, RowOf
<1>6. CallersAreLetIn'
  BY <1>1, <1>2, <1>4, <1>5 DEF CallersAreLetIn, CallAt
<1>7. RowsAreOwned'
  BY <1>1, <1>4, <1>5 DEF RowsAreOwned
<1>8. InsertsAreNew'
  BY <1>1, <1>2, <1>4, <1>5 DEF InsertsAreNew, SameKey
<1>9. HistoryFits'
  <2>1. CASE created' = created
    BY <1>1, <1>2, <1>5, <2>1 DEF HistoryFits, CallAt
  <2>2. CASE /\ CallAt(c, "published")
             /\ created' = [created EXCEPT ![calls[c].id] = @ + 1]
    <3>1. Writing(c) /\ calls[c].id \in MessageIds /\ RowOf(c) \in messages
      BY <2>2 DEF CallersAreLetIn, HistoryFits, Writing, CallAt
    <3>2. \E m \in messages : m.id = calls[c].id
      BY <3>1 DEF RowOf
    <3>3. \A i \in MessageIds : i # calls[c].id => created'[i] = created[i]
      BY <2>2 DEF MessagingTypeOK
    <3>4. \A d \in Calls \ {c} : Writing(d) => calls[d].id \in MessageIds
                                              /\ calls[d].id # calls[c].id
      BY <3>1 DEF RowsAreOwned, CallersAreLetIn
    <3> QED BY <1>1, <1>2, <1>5, <3>2, <3>3, <3>4 DEF HistoryFits, CallAt, Writing
  <2> QED BY <2>1, <2>2
<1> QED BY <1>3, <1>6, <1>7, <1>8, <1>9

\* A call that begins, is refused, answers or fails.
LEMMA QuietStep ==
  ASSUME ThreadInv, NEW c \in Calls,
         \/ CreateConversation(c) \/ CreateOrGet(c) \/ BeginInsert(c)
         \/ AnswerExisting(c) \/ AnswerCreated(c) \/ CallFails(c)
         \/ \E u \in Members, k \in MessageKeys : Authorise(c, u, k)
  PROVE  ThreadInv'
<1> MessagingTypeOK
  BY DEF ThreadInv
<1>1. IdleCall \in CallStates /\ IdleCall.step = "idle"
  BY NewStates DEF IdleCall
<1>2. /\ replayed \in SUBSET MessageRows
      /\ UNCHANGED threadRows =>
           UNCHANGED messages /\ conversation' \in {"none", "plain", "matched"}
  BY DEF MessagingTypeOK, threadRows
<1>3. CASE \E u \in Members : OpenByMatch(c, u)
  <2>1. PICK u \in Members : OpenByMatch(c, u)
    BY <1>3
  <2>2. [IdleCall EXCEPT !.step = "opening", !.user = u] \in CallStates
    BY NewStates
  <2> QED BY <1>2, <2>1, <2>2, QuietCall DEF OpenByMatch, threadHistory, IdleCall
<1>4. CASE CreateOrGet(c)
  <2>1. /\ calls' = [calls EXCEPT ![c] = IdleCall]
        /\ conversation' \in {"none", "plain", "matched"}
        /\ UNCHANGED <<messages, blocked, threadHistory>>
    BY <1>4 DEF CreateOrGet, CallReturns, CallBecomes
  <2> QED BY <1>1, <1>2, <2>1, QuietCall DEF CallBecomes, threadHistory
<1>5. CASE BeginInsert(c)
  <2>1. [calls[c] EXCEPT !.step = "begun"] \in CallStates
    BY NewStates DEF CallSteps
  <2>2. calls[c].user \in Members /\ (blocked => calls[c].early)
    BY <1>5 DEF BeginInsert, ThreadInv, CallersAreLetIn, CallAt
  <2>3. calls[c] \in CallStates
    BY DEF MessagingTypeOK
  <2>4. /\ [calls[c] EXCEPT !.step = "begun"].step = "begun"
        /\ [calls[c] EXCEPT !.step = "begun"].user = calls[c].user
        /\ [calls[c] EXCEPT !.step = "begun"].early = calls[c].early
    BY <2>3 DEF CallStates
  <2> QED BY <1>2, <1>5, <2>1, <2>2, <2>4, QuietCall
          DEF BeginInsert, CallGoesTo, threadHistory
<1>6. CASE AnswerExisting(c)
  <2>1. replayed' \in SUBSET MessageRows
    BY <1>6 DEF AnswerExisting, StoredFor, MessagingTypeOK
  <2> QED BY <1>1, <1>2, <1>6, <2>1, QuietCall DEF AnswerExisting, CallReturns
<1>7. CASE AnswerCreated(c)
  BY <1>1, <1>2, <1>7, QuietCall DEF AnswerCreated, CallReturns
<1>8. CASE CallFails(c)
  BY <1>1, <1>2, <1>8, QuietCall DEF CallFails, CallReturns, threadHistory
<1>9. CASE \E u \in Members, k \in MessageKeys : Authorise(c, u, k)
  <2>1. PICK u \in Members, k \in MessageKeys : Authorise(c, u, k)
    BY <1>9
  <2>2. [IdleCall EXCEPT !.step = "authorised", !.user = u, !.key = k] \in CallStates
    BY NewStates
  <2>3. ~blocked
    BY <2>1 DEF Authorise, Reachable
  <2> QED BY <1>2, <2>1, <2>2, <2>3, QuietCall DEF Authorise, threadHistory, IdleCall
<1> QED BY <1>3, <1>4, <1>5, <1>6, <1>7, <1>8, <1>9 DEF CreateConversation

\* INSERT .. RETURNING takes an id of its own, and a client id of its own or none.
LEMMA InsertStep ==
  ASSUME ThreadInv, NEW c \in Calls, Insert(c)
  PROVE  ThreadInv'
<1> MessagingTypeOK
  BY DEF ThreadInv
<1>1. PICK i \in MessageIds \ UsedIds :
        CallBecomes(c, [calls[c] EXCEPT !.step = "inserted", !.id = i])
  BY DEF Insert
<1> DEFINE state == [calls[c] EXCEPT !.step = "inserted", !.id = i]
<1>2. state \in CallStates
  BY NewStates
<1>3. /\ calls' \in [Calls -> CallStates]
      /\ calls'[c] = state
      /\ \A d \in Calls \ {c} : calls'[d] = calls[d]
  BY <1>1, <1>2, OneCallMoves
<1>4. calls[c] \in CallStates /\ CallAt(c, "begun")
  BY DEF MessagingTypeOK, Insert
<1>5. /\ state.step = "inserted" /\ state.id = i /\ state.user = calls[c].user
      /\ state.key = calls[c].key /\ state.early = calls[c].early
  BY <1>4 DEF CallStates
<1> HIDE DEF state
<1>6. UNCHANGED <<messages, blocked, conversation, created, replayed, announced>>
  BY DEF Insert, threadRows, threadHistory
<1>7. MessagingTypeOK'
  BY <1>3, <1>6 DEF MessagingTypeOK
<1>8. /\ Writing(c)' /\ Uncommitted(c)'
      /\ ~CallAt(c, "stored")' /\ ~CallAt(c, "published")'
      /\ \A d \in Calls \ {c} :
           /\ Writing(d)' = Writing(d) /\ Uncommitted(d)' = Uncommitted(d)
           /\ RowOf(d)' = RowOf(d)
  BY <1>3, <1>5 DEF Writing, Uncommitted, RowOf, CallAt
<1>9. CallersAreLetIn'
  BY <1>3, <1>4, <1>5, <1>6, <1>8 DEF ThreadInv, CallersAreLetIn, CallAt
<1>10. \A d \in Calls : Writing(d) => calls[d].id # i
  <2> SUFFICES ASSUME NEW d \in Calls, Writing(d) PROVE calls[d].id \in UsedIds
    BY <1>1
  <2>1. CASE Uncommitted(d)
    BY <2>1 DEF Uncommitted, UsedIds, OpenInserts
  <2>2. CASE CallAt(d, "stored") \/ CallAt(d, "published")
    <3>1. RowOf(d) \in messages /\ RowOf(d).id = calls[d].id
      BY <2>2 DEF ThreadInv, HistoryFits, RowOf
    <3> QED BY <3>1 DEF UsedIds
  <2> QED BY <2>1, <2>2 DEF Writing, Uncommitted, CallAt
<1>11. RowsAreOwned'
  BY <1>3, <1>5, <1>8, <1>10 DEF ThreadInv, RowsAreOwned
<1>12. InsertsAreNew'
  <2>1. \A m \in messages : m.id # i
    BY <1>1 DEF UsedIds
  <2>2. \A m \in messages : m.sender = calls[c].user /\ m.key = calls[c].key
                              => calls[c].key = NoClientId
    BY DEF Insert, Conflicts, StoredFor
  <2>3. \A d \in Calls : Uncommitted(d) => ~SameKey(calls[c], calls[d])
                                            /\ ~SameKey(calls[d], calls[c])
    BY DEF Insert, Conflicts, OpenInserts, Uncommitted, SameKey
  <2>4. \A d \in Calls : SameKey(state, calls[d]) = SameKey(calls[c], calls[d])
                          /\ SameKey(calls[d], state) = SameKey(calls[d], calls[c])
    BY <1>5 DEF SameKey
  <2> QED BY <1>3, <1>5, <1>6, <1>8, <2>1, <2>2, <2>3, <2>4 DEF ThreadInv, InsertsAreNew
<1>13. HistoryFits'
  BY <1>3, <1>6, <1>8 DEF ThreadInv, HistoryFits, CallAt
<1> QED BY <1>7, <1>9, <1>11, <1>12, <1>13 DEF ThreadInv

\* A call that goes on with its row keeps it.
LEMMA GoesOn ==
  ASSUME MessagingTypeOK, NEW c \in Calls, NEW step \in CallSteps, CallGoesTo(c, step)
  PROVE  /\ calls' \in [Calls -> CallStates]
         /\ calls'[c].step = step /\ RowOf(c)' = RowOf(c)
         /\ calls'[c].id = calls[c].id /\ calls'[c].user = calls[c].user
         /\ calls'[c].key = calls[c].key /\ calls'[c].early = calls[c].early
         /\ \A d \in Calls \ {c} : calls'[d] = calls[d] /\ RowOf(d)' = RowOf(d)
<1>1. [calls[c] EXCEPT !.step = step] \in CallStates /\ calls[c] \in CallStates
  BY NewStates DEF MessagingTypeOK
<1>2. /\ calls' \in [Calls -> CallStates]
      /\ calls'[c] = [calls[c] EXCEPT !.step = step]
      /\ \A d \in Calls \ {c} : calls'[d] = calls[d]
  BY <1>1, OneCallMoves DEF CallGoesTo
<1> QED BY <1>1, <1>2 DEF CallStates, RowOf

\* The conversation's row is held until the commit; nothing else changes.
LEMMA TouchStep ==
  ASSUME ThreadInv, NEW c \in Calls, Touch(c)
  PROVE  ThreadInv'
<1> USE DEF ThreadInv
<1>1. CallGoesTo(c, "touched") /\ "touched" \in CallSteps /\ CallAt(c, "inserted")
  BY DEF Touch, CallSteps
<1>2. UNCHANGED <<messages, blocked, conversation, created, replayed, announced>>
  BY DEF Touch, threadRows, threadHistory
<1>3. /\ calls' \in [Calls -> CallStates]
      /\ calls'[c].step = "touched" /\ RowOf(c)' = RowOf(c)
      /\ calls'[c].id = calls[c].id /\ calls'[c].user = calls[c].user
      /\ calls'[c].key = calls[c].key /\ calls'[c].early = calls[c].early
      /\ \A d \in Calls \ {c} : calls'[d] = calls[d] /\ RowOf(d)' = RowOf(d)
  BY <1>1, GoesOn
<1>4. \A d \in Calls : /\ Writing(d)' = Writing(d) /\ Uncommitted(d)' = Uncommitted(d)
                        /\ calls'[d].id = calls[d].id /\ calls'[d].user = calls[d].user
                        /\ calls'[d].key = calls[d].key
  BY <1>1, <1>3 DEF Writing, Uncommitted, CallAt
<1>5. MessagingTypeOK'
  BY <1>2, <1>3 DEF MessagingTypeOK
<1>6. CallersAreLetIn'
  BY <1>1, <1>2, <1>3, <1>4 DEF CallersAreLetIn, CallAt
<1>7. RowsAreOwned' /\ InsertsAreNew'
  BY <1>2, <1>4 DEF RowsAreOwned, InsertsAreNew, SameKey
<1>8. HistoryFits'
  BY <1>1, <1>2, <1>3 DEF HistoryFits, CallAt
<1> QED BY <1>5, <1>6, <1>7, <1>8

\* The commit: the row is the new one that InsertsAreNew speaks of.
LEMMA CommitStep ==
  ASSUME ThreadInv, NEW c \in Calls, CommitInsert(c)
  PROVE  ThreadInv'
<1> USE DEF ThreadInv
<1>1. CallGoesTo(c, "stored") /\ "stored" \in CallSteps /\ CallAt(c, "touched")
  BY DEF CommitInsert, CallSteps
<1>2. /\ messages' = messages \cup {RowOf(c)}
      /\ UNCHANGED <<blocked, conversation, created, replayed, announced>>
  BY DEF CommitInsert, RowOf, threadHistory
<1>3. /\ calls' \in [Calls -> CallStates]
      /\ calls'[c].step = "stored" /\ RowOf(c)' = RowOf(c)
      /\ calls'[c].id = calls[c].id /\ calls'[c].user = calls[c].user
      /\ calls'[c].key = calls[c].key /\ calls'[c].early = calls[c].early
      /\ \A d \in Calls \ {c} : calls'[d] = calls[d] /\ RowOf(d)' = RowOf(d)
  BY <1>1, GoesOn
<1>4. /\ Writing(c) /\ Uncommitted(c) /\ ~Uncommitted(c)'
      /\ \A d \in Calls : /\ Writing(d)' = Writing(d) /\ calls'[d].id = calls[d].id
                           /\ calls'[d].user = calls[d].user
                           /\ calls'[d].key = calls[d].key
      /\ \A d \in Calls \ {c} : Uncommitted(d)' = Uncommitted(d)
  BY <1>1, <1>3 DEF Writing, Uncommitted, CallAt
<1>5. RowOf(c) \in MessageRows
  BY <1>1, <1>4 DEF MessagingTypeOK, CallersAreLetIn, CallAt, CallStates, RowOf, MessageRows
<1>6. MessagingTypeOK'
  BY <1>2, <1>3, <1>5 DEF MessagingTypeOK
<1>7. CallersAreLetIn'
  BY <1>1, <1>2, <1>3, <1>4 DEF CallersAreLetIn, CallAt
<1>8. RowsAreOwned'
  BY <1>4 DEF RowsAreOwned
<1>9. InsertsAreNew'
  <2> SUFFICES ASSUME NEW d \in Calls, Uncommitted(d)'
               PROVE  /\ \A m \in messages' :
                           /\ m.id # calls[d].id
                           /\ m.sender = calls[d].user /\ m.key = calls[d].key
                                => calls[d].key = NoClientId
                      /\ \A e \in Calls :
                           Uncommitted(e)' /\ SameKey(calls[d], calls[e]) => d = e
    BY <1>4 DEF InsertsAreNew, SameKey
  <2>1. d # c /\ Uncommitted(d) /\ Writing(d)
    BY <1>4 DEF Uncommitted, Writing
  <2>2. calls[d].id # calls[c].id
    BY <1>4, <2>1 DEF RowsAreOwned
  <2>3. ~SameKey(calls[d], calls[c])
    BY <1>4, <2>1 DEF InsertsAreNew
  <2>4. /\ RowOf(c).id = calls[c].id /\ RowOf(c).sender = calls[c].user
        /\ RowOf(c).key = calls[c].key
    BY DEF RowOf
  <2> QED BY <1>2, <1>4, <2>1, <2>2, <2>3, <2>4 DEF InsertsAreNew, SameKey
<1>10. HistoryFits'
  <2>1. calls[c].id \in MessageIds /\ \A m \in messages : m.id # calls[c].id
    BY <1>4 DEF CallersAreLetIn, InsertsAreNew
  <2>2. created[calls[c].id] = 0 /\ announced[calls[c].id] = 0
    BY <2>1 DEF HistoryFits
  <2> QED BY <1>2, <1>3, <2>2 DEF HistoryFits, CallAt
<1> QED BY <1>6, <1>7, <1>8, <1>9, <1>10

\* message.created is published once at most by the call that stored the message.
LEMMA PublishStep ==
  ASSUME ThreadInv, NEW c \in Calls, PublishCreated(c)
  PROVE  ThreadInv'
<1> USE DEF ThreadInv
<1>1. CallGoesTo(c, "published") /\ "published" \in CallSteps /\ CallAt(c, "stored")
  BY DEF PublishCreated, CallSteps
<1>2. /\ UNCHANGED <<messages, blocked, conversation, created, replayed>>
      /\ announced' \in {announced, [announced EXCEPT ![calls[c].id] = @ + 1]}
  BY DEF PublishCreated, threadRows
<1>3. /\ calls' \in [Calls -> CallStates]
      /\ calls'[c].step = "published" /\ RowOf(c)' = RowOf(c)
      /\ calls'[c].id = calls[c].id /\ calls'[c].user = calls[c].user
      /\ calls'[c].key = calls[c].key /\ calls'[c].early = calls[c].early
      /\ \A d \in Calls \ {c} : calls'[d] = calls[d] /\ RowOf(d)' = RowOf(d)
  BY <1>1, GoesOn
<1>4. /\ Writing(c)
      /\ \A d \in Calls : /\ Writing(d)' = Writing(d) /\ Uncommitted(d)' = Uncommitted(d)
                           /\ calls'[d].id = calls[d].id /\ calls'[d].user = calls[d].user
                           /\ calls'[d].key = calls[d].key
  BY <1>1, <1>3 DEF Writing, Uncommitted, CallAt
<1>5. calls[c].id \in MessageIds
  BY <1>4 DEF CallersAreLetIn
<1>6. /\ announced' \in [MessageIds -> Nat]
      /\ \A i \in MessageIds : i # calls[c].id => announced'[i] = announced[i]
  BY <1>2, <1>5 DEF MessagingTypeOK
<1>7. MessagingTypeOK'
  BY <1>2, <1>3, <1>6 DEF MessagingTypeOK
<1>8. CallersAreLetIn'
  BY <1>1, <1>2, <1>3, <1>4 DEF CallersAreLetIn, CallAt
<1>9. RowsAreOwned' /\ InsertsAreNew'
  BY <1>2, <1>4 DEF RowsAreOwned, InsertsAreNew, SameKey
<1>10. HistoryFits'
  <2>1. RowOf(c) \in messages /\ RowOf(c).id = calls[c].id /\ created[calls[c].id] = 0
    BY <1>1 DEF HistoryFits, RowOf
  <2>2. \A d \in Calls \ {c} : CallAt(d, "stored") =>
          calls[d].id # calls[c].id /\ calls[d].id \in MessageIds
    BY <1>4 DEF RowsAreOwned, CallersAreLetIn, Writing, CallAt
  <2> QED BY <1>2, <1>3, <1>6, <2>1, <2>2 DEF HistoryFits, CallAt
<1> QED BY <1>7, <1>8, <1>9, <1>10

\* A block takes note of the calls under way.
LEMMA BlockStep ==
  ASSUME ThreadInv, BlockOrUnblock
  PROVE  ThreadInv'
<1> USE DEF ThreadInv
<1>1. /\ UNCHANGED <<messages, conversation, created, replayed, announced>>
      /\ blocked' = ~blocked /\ blocked' \in BOOLEAN
      /\ calls' = [c \in Calls |->
                     [calls[c] EXCEPT !.early = ~blocked /\ ~CallAt(c, "idle")]]
  BY DEF BlockOrUnblock, threadRows, threadHistory, MessagingTypeOK
<1>2. \A c \in Calls :
        /\ calls'[c] \in CallStates
        /\ calls'[c].step = calls[c].step /\ calls'[c].id = calls[c].id
        /\ calls'[c].user = calls[c].user /\ calls'[c].key = calls[c].key
        /\ calls'[c].early = (~blocked /\ ~CallAt(c, "idle"))
  BY <1>1 DEF MessagingTypeOK, CallStates
<1>3. MessagingTypeOK'
  BY <1>1, <1>2 DEF MessagingTypeOK
<1>4. \A c \in Calls : /\ Writing(c)' = Writing(c) /\ Uncommitted(c)' = Uncommitted(c)
                        /\ RowOf(c)' = RowOf(c)
  BY <1>2 DEF Writing, Uncommitted, RowOf
<1>5. CallersAreLetIn'
  BY <1>1, <1>2, <1>4 DEF CallersAreLetIn, CallAt
<1>6. RowsAreOwned'
  BY <1>2, <1>4 DEF RowsAreOwned
<1>7. InsertsAreNew'
  <2>1. \A c, d \in Calls : SameKey(calls[c], calls[d])' = SameKey(calls[c], calls[d])
    BY <1>2 DEF SameKey
  <2> QED BY <1>1, <1>2, <1>4, <2>1 DEF InsertsAreNew
<1>8. HistoryFits'
  BY <1>1, <1>2, <1>4 DEF HistoryFits, CallAt
<1> QED BY <1>3, <1>5, <1>6, <1>7, <1>8

\* The shims: a row without a client id, under an id nobody has taken.
LEMMA LegacyStep ==
  ASSUME ThreadInv, LegacyStart \/ \E u \in Members : LegacySend(u)
  PROVE  ThreadInv'
<1> USE DEF ThreadInv
<1>1. /\ UNCHANGED <<blocked, calls, created, replayed, announced>>
      /\ conversation' \in {"none", "plain", "matched"}
  BY DEF LegacyStart, LegacySend, LegacyRow, threadHistory, MessagingTypeOK
<1>2. \A c \in Calls : /\ Writing(c)' = Writing(c) /\ Uncommitted(c)' = Uncommitted(c)
                        /\ RowOf(c)' = RowOf(c)
  BY <1>1 DEF Writing, Uncommitted, RowOf
<1>3. CallersAreLetIn' /\ RowsAreOwned'
  BY <1>1, <1>2 DEF CallersAreLetIn, RowsAreOwned, CallAt
<1>4. CASE messages' = messages
  BY <1>1, <1>2, <1>3, <1>4 DEF MessagingTypeOK, InsertsAreNew, HistoryFits, SameKey, CallAt
<1>5. ASSUME NEW u \in Members, LegacySend(u)
      PROVE  ThreadInv'
  <2>1. PICK i \in MessageIds \ UsedIds :
          messages' = messages \cup {[id |-> i, sender |-> u, key |-> NoClientId]}
    BY <1>5 DEF LegacySend, LegacyInsert
  <2>2. MessagingTypeOK'
    BY <1>1, <2>1 DEF MessagingTypeOK, MessageRows, MessageKeys
  <2>3. InsertsAreNew'
    <3>1. \A c \in Calls : Uncommitted(c) => calls[c].id # i
      BY <2>1 DEF Uncommitted, UsedIds, OpenInserts
    <3> QED BY <1>1, <1>2, <2>1, <3>1 DEF InsertsAreNew, SameKey
  <2>4. HistoryFits'
    BY <1>1, <1>2, <2>1 DEF HistoryFits, CallAt
  <2> QED BY <1>3, <2>2, <2>3, <2>4
<1> QED BY <1>4, <1>5 DEF LegacyStart

-----------------------------------------------------------------------------
LEMMA MessagingInitInv == MessagingInit => ThreadInv
<1> SUFFICES ASSUME MessagingInit PROVE ThreadInv
  OBVIOUS
<1>1. IdleCall \in CallStates /\ IdleCall.step = "idle"
  BY MessagingAssumption DEF IdleCall, CallStates, CallSteps, MessageKeys
<1>2. \A c \in Calls : CallAt(c, "idle")
  BY <1>1 DEF MessagingInit, CallAt
<1>3. MessagingTypeOK
  BY <1>1 DEF MessagingInit, MessagingTypeOK
<1>4. \A c \in Calls : ~Writing(c) /\ ~Uncommitted(c)
  BY <1>2 DEF Writing, Uncommitted, CallAt
<1>5. CallersAreLetIn /\ RowsAreOwned /\ InsertsAreNew
  BY <1>2, <1>4 DEF CallersAreLetIn, RowsAreOwned, InsertsAreNew
<1>6. HistoryFits
  BY <1>2 DEF MessagingInit, HistoryFits, CallAt
<1> QED BY <1>3, <1>5, <1>6 DEF ThreadInv

LEMMA MessagingNextInv == ThreadInv /\ [MessagingNext]_messagingVars => ThreadInv'
<1> SUFFICES ASSUME ThreadInv, [MessagingNext]_messagingVars PROVE ThreadInv'
  OBVIOUS
<1>1. CASE UNCHANGED messagingVars
  <2> UNCHANGED <<conversation, messages, blocked, calls, created, replayed, announced>>
    BY <1>1 DEF messagingVars, threadRows, threadHistory
  <2>1. MessagingTypeOK' /\ CallersAreLetIn' /\ RowsAreOwned'
    BY DEF ThreadInv, MessagingTypeOK, CallersAreLetIn, RowsAreOwned, CallAt, Writing
  <2>2. InsertsAreNew' /\ HistoryFits'
    BY DEF ThreadInv, InsertsAreNew, HistoryFits, CallAt, Uncommitted, RowOf
  <2> QED BY <2>1, <2>2 DEF ThreadInv
<1> QED BY <1>1, QuietStep, InsertStep, TouchStep, CommitStep, PublishStep, BlockStep,
           LegacyStep DEF MessagingNext, SendStep

\* The inductive invariant of Messaging: who owns a row that is being written,
\* and what may have been said of it.
THEOREM MessagingSpecInv == MessagingSpec => []ThreadInv
BY MessagingInitInv, MessagingNextInv, PTL DEF MessagingSpec

\* Rows, calls and answers keep their types.
THEOREM MessagingSpecTypeOK == MessagingSpec => []MessagingTypeOK
<1>1. ThreadInv => MessagingTypeOK
  BY DEF ThreadInv
<1> QED BY <1>1, MessagingSpecInv, PTL

\* A call that stores its message under a block was let in before that block.
THEOREM SpecBlockClosesThread == MessagingSpec => BlockClosesThread
<1>1. ThreadInv =>
        \A c \in Calls : (CallAt(c, "touched") /\ calls'[c].step = "stored" /\ blocked)
          => calls[c].early
  BY DEF ThreadInv, CallersAreLetIn, CallAt
<1> QED BY <1>1, MessagingSpecInv, PTL DEF BlockClosesThread, MessagingSpec

\* Every step stores a new message, tells of one, announces one or changes
\* nothing Thread can see: sending is idempotent on client_msg_id.
THEOREM SpecImplementsThread == MessagingSpec => ThreadSpec
<1>1. MessagingInit => Promise!Init
  BY DEF MessagingInit, Promise!Init
<1>2. ASSUME ThreadInv, [MessagingNext]_messagingVars
      PROVE  [Promise!Next]_(Promise!vars)
  <2> DEFINE quiet == UNCHANGED <<messages, created, replayed, announced>>
  <2>1. CASE quiet
    BY <2>1 DEF Promise!vars
  <2>2. ASSUME NEW c \in Calls, AnswerExisting(c)
        PROVE  Promise!Next
    <3>1. PICK m \in StoredFor(calls[c]) : replayed' = replayed \cup {m}
      BY <2>2 DEF AnswerExisting
    <3>2. m \in messages /\ m.key \in ClientIds
      BY <1>2, <3>1 DEF StoredFor, ThreadInv, MessagingTypeOK, MessageRows, MessageKeys
    <3>3. Promise!TellReplayed(m)
      BY <2>2, <3>1, <3>2 DEF AnswerExisting, Promise!TellReplayed, threadRows
    <3> QED BY <3>2, <3>3 DEF Promise!Next
  <2>3. ASSUME NEW c \in Calls, CommitInsert(c)
        PROVE  Promise!Next
    <3>1. messages' = messages \cup {RowOf(c)} /\ UNCHANGED <<created, replayed, announced>>
      BY <2>3 DEF CommitInsert, RowOf, threadHistory
    <3>2. Uncommitted(c) /\ Writing(c)
      BY <2>3 DEF CommitInsert, CallAt, Uncommitted, Writing
    <3>3. RowOf(c).id = calls[c].id /\ RowOf(c).sender = calls[c].user
            /\ RowOf(c).key = calls[c].key
      BY DEF RowOf
    <3>4. RowOf(c).id \in MessageIds \ Promise!StoredIds
      BY <1>2, <3>2, <3>3 DEF ThreadInv, CallersAreLetIn, InsertsAreNew, Promise!StoredIds
    <3>5. RowOf(c).key \in ClientIds =>
            \A n \in messages : n.sender = RowOf(c).sender => n.key # RowOf(c).key
      BY <1>2, <3>2, <3>3, MessagingAssumption DEF ThreadInv, InsertsAreNew
    <3>6. Promise!Store(RowOf(c))
      BY <3>1, <3>4, <3>5 DEF Promise!Store
    <3>7. RowOf(c) \in messages' \ messages
      BY <3>1, <3>4 DEF Promise!StoredIds
    <3> QED BY <3>6, <3>7 DEF Promise!Next
  <2>4. ASSUME NEW c \in Calls, PublishCreated(c)
        PROVE  [Promise!Next]_(Promise!vars)
    <3> DEFINE i == calls[c].id
    <3>1. UNCHANGED <<messages, created, replayed>>
            /\ announced' \in {announced, [announced EXCEPT ![i] = @ + 1]}
      BY <2>4 DEF PublishCreated, threadRows
    <3>2. RowOf(c) \in messages /\ RowOf(c).id = i /\ announced[i] = 0 /\ i \in MessageIds
      BY <1>2, <2>4 DEF PublishCreated, ThreadInv, HistoryFits, CallersAreLetIn, RowOf,
         CallAt, Writing
    <3>3. CASE announced' = announced
      BY <2>1, <3>1, <3>3
    <3>4. CASE announced' = [announced EXCEPT ![i] = @ + 1]
      <4>1. announced' = [announced EXCEPT ![i] = 1]
        BY <3>2, <3>4
      <4>2. Promise!Announce(i)
        BY <3>1, <3>2, <4>1 DEF Promise!Announce, Promise!StoredIds
      <4> QED BY <3>2, <4>2 DEF Promise!Next
    <3> QED BY <3>1, <3>3, <3>4
  <2>5. ASSUME NEW c \in Calls, AnswerCreated(c)
        PROVE  Promise!Next
    <3> DEFINE i == calls[c].id
    <3>1. UNCHANGED <<messages, announced, replayed>>
            /\ created' = [created EXCEPT ![i] = @ + 1]
      BY <2>5 DEF AnswerCreated, threadRows
    <3>2. RowOf(c) \in messages /\ RowOf(c).id = i /\ created[i] = 0 /\ i \in MessageIds
      BY <1>2, <2>5 DEF AnswerCreated, ThreadInv, HistoryFits, CallersAreLetIn, RowOf,
         CallAt, Writing
    <3>3. created' = [created EXCEPT ![i] = 1]
      BY <3>1, <3>2
    <3>4. Promise!TellCreated(i)
      BY <3>1, <3>2, <3>3 DEF Promise!TellCreated, Promise!StoredIds
    <3> QED BY <3>2, <3>4 DEF Promise!Next
  <2>6. ASSUME NEW u \in Members, LegacySend(u)
        PROVE  Promise!Next
    <3>1. PICK i \in MessageIds \ UsedIds :
            messages' = messages \cup {[id |-> i, sender |-> u, key |-> NoClientId]}
      BY <2>6 DEF LegacySend, LegacyInsert
    <3> DEFINE m == [id |-> i, sender |-> u, key |-> NoClientId]
    <3>2. m.id \in MessageIds \ Promise!StoredIds /\ m.key \notin ClientIds
      BY <3>1, MessagingAssumption DEF UsedIds, Promise!StoredIds
    <3>3. Promise!Store(m)
      BY <2>6, <3>1, <3>2 DEF Promise!Store, LegacySend, threadHistory
    <3>4. m \in messages' \ messages
      BY <3>1, <3>2 DEF Promise!StoredIds
    <3> QED BY <3>3, <3>4 DEF Promise!Next
  <2>7. ASSUME NEW c \in Calls,
               \/ CreateConversation(c) \/ CreateOrGet(c) \/ CallFails(c)
               \/ BeginInsert(c) \/ Insert(c) \/ Touch(c)
               \/ \E u \in Members, k \in MessageKeys : Authorise(c, u, k)
        PROVE  quiet
    BY <2>7 DEF CreateConversation, OpenByMatch, CreateOrGet, CallFails, BeginInsert,
       Insert, Touch, Authorise, threadRows, threadHistory
  <2>8. CASE BlockOrUnblock \/ LegacyStart \/ UNCHANGED messagingVars
    BY <2>1, <2>8 DEF BlockOrUnblock, LegacyStart, messagingVars, threadRows, threadHistory
  <2> HIDE DEF quiet
  <2> QED BY <1>2, <2>1, <2>2, <2>3, <2>4, <2>5, <2>6, <2>7, <2>8
             DEF MessagingNext, SendStep
<1> QED BY <1>1, <1>2, MessagingSpecInv, PTL DEF MessagingSpec, ThreadSpec, Promise!Spec

-----------------------------------------------------------------------------
\* Keyset: the walk through a list that changes.

LEMMA PlacesAreNatural ==
  ASSUME KeysetTypeOK
  PROVE  /\ \A r \in RowIds : r \in Nat /\ place[r] \in Nat /\ (There(r) => place[r] \in Places)
         /\ NoPosition \notin Positions
         /\ \A x \in Positions : x.place \in Nat /\ x.row \in Nat
<1>1. ASSUME NEW r \in RowIds
      PROVE  r \in Nat /\ place[r] \in Nat /\ (There(r) => place[r] \in Places)
  <2>1. place[r] \in Places \cup {0}
    BY DEF KeysetTypeOK
  <2>2. There(r) <=> place[r] # 0
    BY DEF There
  <2>3. r \in Nat /\ Places \subseteq Nat \ {0}
    BY KeysetAssumption
  <2>4. place[r] \in Nat /\ (place[r] # 0 => place[r] \in Places)
    <3>1. CASE place[r] \in Places
      BY <2>3, <3>1
    <3>2. CASE place[r] = 0
      BY <3>2
    <3> QED BY <2>1, <3>1, <3>2
  <2> QED BY <2>2, <2>3, <2>4, Zenon
<1>2. \A x \in Positions : x.place \in Places /\ x.row \in RowIds
  BY DEF Positions
<1>3. NoPosition.place = 0
  BY DEF NoPosition
<1> QED BY <1>1, <1>2, <1>3, KeysetAssumption

\* The sort key is a strict total order ...
LEMMA RanksAreOrdered ==
  ASSUME KeysetTypeOK
  PROVE  /\ \A r \in RowIds : ~RanksBefore(r, r)
         /\ \A r, s \in RowIds : r # s => RanksBefore(r, s) \/ RanksBefore(s, r)
         /\ \A r, s \in RowIds : RanksBefore(r, s) => ~RanksBefore(s, r)
         /\ \A r, s, t \in RowIds : RanksBefore(r, s) /\ RanksBefore(s, t) => RanksBefore(r, t)
BY PlacesAreNatural DEF RanksBefore

\* ... and the cursor's condition is the same order.
LEMMA AfterIsTheOrder ==
  ASSUME KeysetTypeOK
  PROVE  /\ \A r, s \in RowIds : After(PositionOf(r), PositionOf(s)) <=> RanksBefore(s, r)
         /\ \A r, s \in RowIds, x \in Positions :
              After(PositionOf(r), PositionOf(s)) /\ After(PositionOf(s), x)
                => After(PositionOf(r), x)
BY PlacesAreNatural DEF RanksBefore, After, FeedAfter, TimeAfter, PositionOf

Sorted(s, rows) ==
  /\ s \in [1 .. Cardinality(rows) -> rows]
  /\ \A i, j \in DOMAIN s : i < j => RanksBefore(s[i], s[j])

\* Every finite set of rows can be sorted: a row's place is how many rank before
\* it, and one.
LEMMA SortedExists ==
  ASSUME KeysetTypeOK, NEW rows \in SUBSET RowIds
  PROVE  \E s : Sorted(s, rows)
<1> DEFINE n == Cardinality(rows)
           before(r) == {x \in rows : RanksBefore(x, r)}
           pos == [r \in rows |-> Cardinality(before(r)) + 1]
<1>1. IsFiniteSet(rows) /\ n \in Nat
  BY KeysetAssumption, FS_Subset, FS_CardinalityType
<1>2. ASSUME NEW r \in rows
      PROVE  /\ IsFiniteSet(before(r)) /\ Cardinality(before(r)) \in Nat
             /\ pos[r] = Cardinality(before(r)) + 1 /\ pos[r] \in 1 .. n
  <2>1. before(r) \in SUBSET rows /\ r \notin before(r)
    BY RanksAreOrdered
  <2>2. IsFiniteSet(before(r)) /\ Cardinality(before(r)) <= n
        /\ (n = Cardinality(before(r)) => rows = before(r))
    <3> HIDE DEF before
    <3> QED BY <1>1, <2>1, FS_Subset
  <2>3. Cardinality(before(r)) \in Nat
    <3> HIDE DEF before
    <3> QED BY <2>2, FS_CardinalityType
  <2>4. pos[r] = Cardinality(before(r)) + 1
    OBVIOUS
  <2>5. Cardinality(before(r)) # n
    BY <2>1, <2>2
  <2> HIDE DEF before, pos, n
  <2> QED BY <1>1, <2>2, <2>3, <2>4, <2>5
<1>3. ASSUME NEW r \in rows, NEW s \in rows, RanksBefore(r, s)
      PROVE  pos[r] < pos[s]
  <2>1. before(r) \in SUBSET before(s) /\ r \in before(s) /\ r \notin before(r)
    BY <1>3, RanksAreOrdered
  <2>2. IsFiniteSet(before(s)) /\ Cardinality(before(s)) \in Nat
        /\ Cardinality(before(r)) \in Nat
        /\ pos[r] = Cardinality(before(r)) + 1 /\ pos[s] = Cardinality(before(s)) + 1
    BY <1>2
  <2> HIDE DEF before, pos
  <2>3. Cardinality(before(r)) <= Cardinality(before(s))
        /\ (Cardinality(before(s)) = Cardinality(before(r)) => before(s) = before(r))
    BY <2>1, <2>2, FS_Subset
  <2> QED BY <2>1, <2>2, <2>3
<1>4. pos \in Injection(rows, 1 .. n)
  <2>1. pos \in [rows -> 1 .. n]
    <3>1. \A r \in rows : pos[r] \in 1 .. n
      BY <1>2
    <3>2. pos = [r \in rows |-> pos[r]]
      OBVIOUS
    <3> HIDE DEF pos
    <3> QED BY <3>1, <3>2
  <2>2. ASSUME NEW r \in rows, NEW s \in rows, r # s
        PROVE  pos[r] # pos[s]
    <3>1. RanksBefore(r, s) \/ RanksBefore(s, r)
      BY <2>2, RanksAreOrdered
    <3>2. pos[r] < pos[s] \/ pos[s] < pos[r]
      <4> HIDE DEF pos
      <4> QED BY <1>3, <3>1
    <3>3. pos[r] \in Nat /\ pos[s] \in Nat
      BY <1>1, <1>2
    <3> HIDE DEF pos
    <3> QED BY <3>2, <3>3
  <2> HIDE DEF pos
  <2> QED BY <2>1, <2>2 DEF Injection, IsInjective
<1> HIDE DEF pos
<1>5. pos \in Surjection(rows, 1 .. n)
  <2>1. IsFiniteSet(1 .. n) /\ Cardinality(1 .. n) = n
    BY <1>1, FS_Interval
  <2> QED BY <1>1, <1>4, <2>1, FS_Injection
<1> DEFINE s == [i \in 1 .. n |-> CHOOSE r \in rows : pos[r] = i]
<1>6. \A i \in 1 .. n : s[i] \in rows /\ pos[s[i]] = i
  <2>1. \A i \in 1 .. n : \E r \in rows : pos[r] = i
    BY <1>5 DEF Surjection
  <2> QED BY <2>1
<1>7. s \in [1 .. n -> rows] /\ DOMAIN s = 1 .. n
  BY <1>6
<1> HIDE DEF s
<1>8. ASSUME NEW i \in 1 .. n, NEW j \in 1 .. n, i < j
      PROVE  RanksBefore(s[i], s[j])
  <2>1. s[i] # s[j]
    BY <1>1, <1>6, <1>8
  <2>2. ~RanksBefore(s[j], s[i])
    <3> SUFFICES ASSUME RanksBefore(s[j], s[i]) PROVE FALSE
      OBVIOUS
    <3>1. pos[s[j]] < pos[s[i]]
      BY <1>3, <1>6
    <3> QED BY <1>1, <1>6, <1>8, <3>1
  <2> QED BY <1>6, <2>1, <2>2, RanksAreOrdered
<1>9. Sorted(s, rows)
  BY <1>7, <1>8 DEF Sorted
<1> QED BY <1>9

\* What InOrder returns: every row once, sorted.
LEMMA InOrderSorts ==
  ASSUME KeysetTypeOK, NEW rows \in SUBSET RowIds
  PROVE  /\ Cardinality(rows) \in Nat
         /\ InOrder(rows) \in [1 .. Cardinality(rows) -> rows]
         /\ \A i, j \in 1 .. Cardinality(rows) :
              i < j => RanksBefore(InOrder(rows)[i], InOrder(rows)[j])
         /\ \A r \in rows : \E i \in 1 .. Cardinality(rows) : InOrder(rows)[i] = r
<1> DEFINE s == InOrder(rows)
           n == Cardinality(rows)
<1>1. Sorted(s, rows)
  <2>1. \E x \in [1 .. n -> rows] : \A i, j \in DOMAIN x : i < j => RanksBefore(x[i], x[j])
    BY SortedExists DEF Sorted
  <2> QED BY <2>1 DEF Sorted, InOrder
<1>2. IsFiniteSet(rows) /\ n \in Nat
  BY KeysetAssumption, FS_Subset, FS_CardinalityType
<1> HIDE DEF s
<1>3. s \in [1 .. n -> rows] /\ \A i, j \in 1 .. n : i < j => RanksBefore(s[i], s[j])
  BY <1>1 DEF Sorted
<1>4. s \in Injection(1 .. n, rows)
  <2>1. ASSUME NEW i \in 1 .. n, NEW j \in 1 .. n, s[i] = s[j]
        PROVE  i = j
    <3>1. ~(i < j) /\ ~(j < i)
      BY <1>3, <2>1, RanksAreOrdered
    <3> QED BY <1>2, <3>1
  <2> QED BY <1>3, <2>1 DEF Injection, IsInjective
<1>5. s \in Surjection(1 .. n, rows)
  <2>1. IsFiniteSet(1 .. n) /\ Cardinality(1 .. n) = n
    BY <1>2, FS_Interval
  <2> QED BY <1>2, <1>4, <2>1, FS_Injection
<1>6. \A r \in rows : \E i \in 1 .. n : s[i] = r
  BY <1>5 DEF Surjection
<1> QED BY <1>2, <1>3, <1>6 DEF s

\* Where a fetched page ends, and what is on it.
LEMMA PageFetched ==
  ASSUME KeysetTypeOK, NEW from
  PROVE  LET rows == Fetch(from)
             page == PageOf(rows)
             sel == Selected(from)
         IN  /\ ToSet(page.items) \subseteq sel
             /\ ~HasMore(rows) => ToSet(page.items) = sel
             /\ HasMore(rows) =>
                  /\ page.last \in ToSet(page.items)
                  /\ \A r \in sel : r \in ToSet(page.items)
                                      <=> r = page.last \/ RanksBefore(r, page.last)
<1> DEFINE sel == Selected(from)
           n == Cardinality(sel)
           s == InOrder(sel)
           m == IF n > PageSize + 1 THEN PageSize + 1 ELSE n
           rows == Fetch(from)
           page == PageOf(rows)
<1>1. sel \in SUBSET RowIds
  BY DEF Selected
<1>2. /\ n \in Nat /\ s \in [1 .. n -> sel]
      /\ \A i, j \in 1 .. n : i < j => RanksBefore(s[i], s[j])
      /\ \A r \in sel : \E i \in 1 .. n : s[i] = r
  <2> HIDE DEF sel
  <2> QED BY <1>1, InOrderSorts
<1> HIDE DEF n
<1>3. Len(s) = n /\ PageSize \in Nat \ {0} /\ m \in 0 .. n
  BY <1>2, KeysetAssumption
<1>4. rows = SubSeq(s, 1, m)
  BY <1>3 DEF Fetch
<1> HIDE DEF s, sel, rows
<1>5. rows = [i \in 1 .. m |-> s[i]]
  <2>1. s \in Seq(sel)
    BY <1>2
  <2> HIDE DEF m
  <2> QED BY <1>2, <1>3, <1>4, <2>1
<1>6. Len(rows) = m /\ (HasMore(rows) <=> n > PageSize) /\ (HasMore(rows) => m = PageSize + 1)
  <2>1. Len(rows) = m
    <3> HIDE DEF m
    <3> QED BY <1>3, <1>5
  <2> QED BY <1>2, <1>3, <2>1 DEF HasMore
<1>7. /\ rows \in Seq(sel)
      /\ \A i \in 1 .. m : rows[i] = s[i]
  <2>1. \A i \in 1 .. m : s[i] \in sel
    BY <1>2, <1>3
  <2> HIDE DEF m
  <2> QED BY <1>3, <1>5, <2>1
<1> HIDE DEF m
<1>8. CASE ~HasMore(rows)
  <2>1. m = n
    BY <1>2, <1>3, <1>6, <1>8 DEF m
  <2>2. ToSet(page.items) = {rows[i] : i \in 1 .. m}
    <3>1. CASE list = "messages"
      <4>1. page.items = Reverse(rows)
        BY <1>8, <3>1 DEF PageOf, ChatPage
      <4>2. page.items = [i \in 1 .. m |-> rows[m - i + 1]]
        BY <1>6, <4>1 DEF Reverse
      <4>3. \A i \in 1 .. m : m - i + 1 \in 1 .. m /\ m - (m - i + 1) + 1 = i
        BY <1>3
      <4> HIDE DEF page
      <4> QED BY <4>2, <4>3 DEF ToSet
    <3>2. CASE list # "messages"
      <4>1. page.items = rows
        BY <1>8, <3>2 DEF PageOf, ListPage
      <4> HIDE DEF page
      <4> QED BY <1>5, <4>1 DEF ToSet
    <3> QED BY <3>1, <3>2
  <2>3. {rows[i] : i \in 1 .. m} = sel
    BY <1>2, <1>7, <2>1
  <2> HIDE DEF page
  <2> QED BY <1>8, <2>2, <2>3 DEF sel, rows, page
<1>9. CASE HasMore(rows)
  <2>1. m = PageSize + 1 /\ n > PageSize
    BY <1>6, <1>9
  <2>2. ToSet(page.items) = {rows[i] : i \in 1 .. PageSize} /\ page.last = rows[PageSize]
    <3>1. CASE list = "messages"
      <4> DEFINE old == Reverse(rows)
      <4>1. old = [i \in 1 .. m |-> rows[m - i + 1]]
        BY <1>6 DEF Reverse
      <4>2. old \in Seq(sel) /\ Len(old) = m
        <5>1. \A i \in 1 .. m : rows[m - i + 1] \in sel
          <6>1. \A i \in 1 .. m : m - i + 1 \in 1 .. m
            BY <1>3
          <6> QED BY <1>6, <1>7, <6>1
        <5> HIDE DEF old
        <5> QED BY <1>3, <4>1, <5>1
      <4> HIDE DEF old
      <4>3. page.items = Tail(old) /\ Tail(old) = [i \in 1 .. PageSize |-> old[i + 1]]
        <5>1. page.items = Tail(old)
          BY <1>9, <3>1 DEF PageOf, ChatPage, old
        <5>2. Tail(old) = [i \in 1 .. PageSize |-> old[i + 1]]
          <6>1. old # <<>> /\ Len(old) - 1 = PageSize
            BY <1>3, <2>1, <4>2
          <6>2. /\ Tail(old) \in Seq(sel) /\ Len(Tail(old)) = Len(old) - 1
                /\ \A i \in 1 .. Len(Tail(old)) : Tail(old)[i] = old[i + 1]
            BY <4>2, <6>1, HeadTailProperties
          <6>3. Tail(old) = [i \in 1 .. Len(Tail(old)) |-> Tail(old)[i]]
            <7> DEFINE t == Tail(old)
            <7>1. t \in Seq(sel)
              BY <6>2
            <7> HIDE DEF t
            <7>2. t = [i \in 1 .. Len(t) |-> t[i]]
              BY <7>1
            <7> QED BY <7>2 DEF t
          <6> QED BY <6>1, <6>2, <6>3
        <5> HIDE DEF page
        <5> QED BY <5>1, <5>2
      <4>4. page.last = IF page.items = <<>> THEN 0 ELSE Head(page.items)
        BY <1>9, <3>1 DEF PageOf, ChatPage
      <4> HIDE DEF page
      <4>5. page.items = [i \in 1 .. PageSize |-> rows[PageSize - i + 1]]
        <5>1. \A i \in 1 .. PageSize : i + 1 \in 1 .. m /\ m - (i + 1) + 1 = PageSize - i + 1
          BY <1>3, <2>1
        <5> QED BY <4>1, <4>3, <5>1
      <4>6. page.last = page.items[1] /\ 1 \in 1 .. PageSize
        <5>1. page.items # <<>> /\ Len(page.items) = PageSize
          BY <1>3, <4>5
        <5> QED BY <1>3, <4>4, <4>5, <5>1
      <4>7. \A i \in 1 .. PageSize : PageSize - i + 1 \in 1 .. PageSize /\ PageSize - (PageSize - i + 1) + 1 = i
        BY <1>3
      <4>8. page.last = rows[PageSize]
        BY <1>3, <4>5, <4>6
      <4> QED BY <4>5, <4>7, <4>8 DEF ToSet
    <3>2. CASE list # "messages"
      <4>1. page.items = SubSeq(rows, 1, PageSize)
        BY <1>9, <3>2 DEF PageOf, ListPage
      <4>2. page.last = IF page.items = <<>> THEN 0 ELSE page.items[Len(page.items)]
        BY <1>9, <3>2 DEF PageOf, ListPage
      <4> HIDE DEF page
      <4>3. page.items = [i \in 1 .. PageSize |-> rows[i]]
        BY <1>3, <1>6, <1>7, <2>1, <4>1
      <4>4. Len(page.items) = PageSize /\ page.items # <<>>
        BY <1>3, <4>3
      <4>5. page.last = rows[PageSize]
        BY <1>3, <4>2, <4>3, <4>4
      <4> QED BY <4>3, <4>5 DEF ToSet
    <3> QED BY <3>1, <3>2
  <2>3. \A i \in 1 .. PageSize : i \in 1 .. m /\ i \in 1 .. n /\ rows[i] = s[i] /\ s[i] \in sel
    <3>1. \A i \in 1 .. PageSize : i \in 1 .. m /\ i \in 1 .. n
      BY <1>2, <1>3, <2>1
    <3> QED BY <1>2, <1>7, <3>1
  <2>4. PageSize \in 1 .. PageSize
    BY <1>3
  <2> HIDE DEF page
  <2>5. ToSet(page.items) \subseteq sel /\ page.last \in ToSet(page.items)
        /\ page.last = s[PageSize]
    BY <2>2, <2>3, <2>4
  <2>6. ASSUME NEW r \in sel
        PROVE  r \in ToSet(page.items) <=> r = page.last \/ RanksBefore(r, page.last)
    <3>1. PICK i \in 1 .. n : s[i] = r
      BY <1>2
    <3>2. CASE i \in 1 .. PageSize
      <4>1. r \in ToSet(page.items)
        BY <2>2, <2>3, <3>1, <3>2
      <4>2. i = PageSize \/ i < PageSize
        BY <1>3, <3>2
      <4>3. r = page.last \/ RanksBefore(r, page.last)
        BY <1>2, <2>3, <2>4, <2>5, <3>1, <3>2, <4>2
      <4> QED BY <4>1, <4>3
    <3>3. CASE i \notin 1 .. PageSize
      <4>1. PageSize < i
        BY <1>2, <1>3, <3>1, <3>3
      <4>2. \A j \in 1 .. PageSize : RanksBefore(s[j], r)
        <5>1. \A j \in 1 .. PageSize : j < i
          BY <1>2, <1>3, <4>1
        <5> QED BY <1>2, <2>3, <3>1, <5>1
      <4>3. r \in RowIds /\ \A j \in 1 .. PageSize : s[j] \in RowIds
        BY <1>1, <2>3 DEF sel
      <4>4. r \notin ToSet(page.items)
        <5> SUFFICES ASSUME r \in ToSet(page.items) PROVE FALSE
          OBVIOUS
        <5>1. PICK j \in 1 .. PageSize : r = s[j]
          BY <2>2, <2>3
        <5> QED BY <4>2, <4>3, <5>1, RanksAreOrdered
      <4>5. ~(r = page.last \/ RanksBefore(r, page.last))
        <5>1. RanksBefore(page.last, r) /\ page.last \in RowIds
          BY <2>4, <2>5, <4>2, <4>3
        <5> QED BY <4>3, <5>1, RanksAreOrdered
      <4> QED BY <4>4, <4>5
    <3> QED BY <3>2, <3>3
  <2> QED BY <1>9, <2>5, <2>6 DEF sel, rows, page
<1> QED BY <1>8, <1>9

\* A walk that has not begun has shown nothing; a row it may count on is there;
\* and what it has shown lies behind its cursor.
KeysetInv ==
  /\ KeysetTypeOK
  /\ walk = "fresh" => cursor = NoPosition /\ steady = {} /\ \A r \in RowIds : shown[r] = 0
  /\ walk = "between" => cursor \in Positions
  /\ \A r \in steady : There(r)
  /\ WalksAreComplete
  /\ walk = "between" =>
       \A r \in RowIds \ moved :
         shown[r] # 0 => There(r) /\ ~After(PositionOf(r), cursor)

LEMMA KeysetInitInv ==
  ASSUME KeysetInit
  PROVE  KeysetInv
<1>1. KeysetTypeOK
  BY DEF KeysetInit, KeysetTypeOK
<1>2. WalksAreComplete
  BY DEF KeysetInit, WalksAreComplete
<1> QED BY <1>1, <1>2 DEF KeysetInit, KeysetInv

\* A row that turns up is not one the walk counts on, and has not been shown.
LEMMA AppearStep ==
  ASSUME KeysetInv, NEW r \in RowIds, NEW p \in Places, Appear(r, p)
  PROVE  KeysetInv'
<1>1. /\ place' = [place EXCEPT ![r] = p] /\ ~There(r)
      /\ UNCHANGED <<list, walk, cursor, shown, steady, moved>>
  BY DEF Appear, walkState, walkHistory
<1>2. KeysetTypeOK'
  BY <1>1 DEF KeysetInv, KeysetTypeOK
<1>3. \A x \in RowIds : x # r => (There(x)' <=> There(x)) /\ PositionOf(x)' = PositionOf(x)
  BY <1>1 DEF KeysetInv, KeysetTypeOK, There, PositionOf
<1>4. \A x, y : After(x, y)' <=> After(x, y)
  BY <1>1 DEF After, FeedAfter, TimeAfter
<1>5. r \notin steady /\ (walk = "between" => r \in moved \/ shown[r] = 0)
  BY <1>1 DEF KeysetInv
<1>6. \A x \in steady : x \in RowIds /\ x # r
  BY <1>5 DEF KeysetInv, KeysetTypeOK
<1>7. (\A x \in steady : There(x))'
  BY <1>1, <1>3, <1>6 DEF KeysetInv
<1>8. \A x \in steady : Passed(x)' <=> Passed(x)
  <2> SUFFICES ASSUME NEW x \in steady PROVE Passed(x)' <=> Passed(x)
    OBVIOUS
  <2>1. PositionOf(x)' = PositionOf(x)
    BY <1>3, <1>6
  <2>2. After(PositionOf(x), cursor)' <=> After(PositionOf(x), cursor)
    BY <1>1, <2>1 DEF After, FeedAfter, TimeAfter
  <2> QED BY <1>1, <2>2 DEF Passed
<1>9. WalksAreComplete'
  BY <1>1, <1>8 DEF KeysetInv, WalksAreComplete
<1>10. ASSUME walk = "between", NEW x \in RowIds \ moved, shown[x] # 0
       PROVE  There(x)' /\ ~After(PositionOf(x), cursor)'
  <2>1. x # r /\ There(x) /\ ~After(PositionOf(x), cursor)
    BY <1>5, <1>10 DEF KeysetInv
  <2>2. PositionOf(x)' = PositionOf(x)
    BY <1>3, <2>1
  <2>3. After(PositionOf(x), cursor)' <=> After(PositionOf(x), cursor)
    BY <1>1, <2>2 DEF After, FeedAfter, TimeAfter
  <2> QED BY <1>3, <2>1, <2>3
<1> QED BY <1>1, <1>2, <1>7, <1>9, <1>10 DEF KeysetInv

\* A row that moves or leaves is no longer one the walk counts on.
LEMMA MoveStep ==
  ASSUME KeysetInv, NEW r \in RowIds, NEW p \in Places \cup {0},
         place' = [place EXCEPT ![r] = p],
         steady' = steady \ {r}, moved' = moved \cup {r},
         UNCHANGED <<list, walk, cursor, shown>>
  PROVE  KeysetInv'
<1>1. KeysetTypeOK'
  BY DEF KeysetInv, KeysetTypeOK
<1>2. \A x \in RowIds : x # r => (There(x)' <=> There(x)) /\ PositionOf(x)' = PositionOf(x)
  BY DEF KeysetInv, KeysetTypeOK, There, PositionOf
<1>3. \A x \in steady' : x \in RowIds /\ x # r /\ x \in steady
  BY DEF KeysetInv, KeysetTypeOK
<1>4. ASSUME NEW x \in RowIds, x # r
      PROVE  (Passed(x)' <=> Passed(x))
             /\ (After(PositionOf(x), cursor)' <=> After(PositionOf(x), cursor))
  <2>1. PositionOf(x)' = PositionOf(x)
    BY <1>2, <1>4
  <2>2. After(PositionOf(x), cursor)' <=> After(PositionOf(x), cursor)
    BY <2>1 DEF After, FeedAfter, TimeAfter
  <2> QED BY <2>2 DEF Passed
<1>5. (\A x \in steady : There(x))'
  BY <1>2, <1>3 DEF KeysetInv
<1>6. WalksAreComplete'
  <2>1. ASSUME NEW x \in steady' PROVE shown'[x] = IF Passed(x)' THEN 1 ELSE 0
    BY <1>3, <1>4 DEF KeysetInv, WalksAreComplete
  <2>2. ASSUME NEW x \in RowIds \ moved' PROVE shown'[x] <= 1
    BY DEF KeysetInv, WalksAreComplete
  <2> QED BY <2>1, <2>2 DEF WalksAreComplete
<1>7. ASSUME walk = "between", NEW x \in RowIds \ moved', shown[x] # 0
      PROVE  There(x)' /\ ~After(PositionOf(x), cursor)'
  <2>1. x \in RowIds /\ x # r /\ x \notin moved
    BY <1>7
  <2>2. There(x) /\ ~After(PositionOf(x), cursor)
    BY <1>7, <2>1 DEF KeysetInv
  <2> QED BY <1>2, <1>4, <2>1, <2>2
<1>8. (walk = "fresh" => cursor = NoPosition /\ steady = {} /\ \A x \in RowIds : shown[x] = 0)'
      /\ (walk = "between" => cursor \in Positions)'
  BY <1>3 DEF KeysetInv
<1> QED BY <1>1, <1>5, <1>6, <1>7, <1>8 DEF KeysetInv

\* A page shows what is between its cursor and the next.
LEMMA FetchStep ==
  ASSUME KeysetInv, FetchPage
  PROVE  KeysetInv'
<1> DEFINE rows == Fetch(cursor)
           page == PageOf(rows)
           on == ToSet(page.items)
           last == page.last
           more == HasMore(rows)
           sel == Selected(cursor)
<1>1. /\ walk # "ended"
      /\ shown' = [r \in RowIds |-> IF r \in on THEN shown[r] + 1 ELSE shown[r]]
      /\ cursor' = IF more THEN PositionOf(last) ELSE NoPosition
      /\ walk' = IF more THEN "between" ELSE "ended"
      /\ steady' = IF walk = "fresh" THEN {r \in RowIds : There(r)} ELSE steady
      /\ moved' = IF walk = "fresh" THEN {} ELSE moved
      /\ list' = list /\ place' = place
  BY DEF FetchPage, listRows
<1>2. KeysetTypeOK
  BY DEF KeysetInv
<1>3. /\ on \subseteq sel
      /\ ~more => on = sel
      /\ more => last \in on /\ \A r \in sel : r \in on <=> r = last \/ RanksBefore(r, last)
  BY <1>2, PageFetched
<1>4. \A r : r \in sel <=> /\ r \in RowIds /\ There(r)
                           /\ cursor = NoPosition \/ After(PositionOf(r), cursor)
  BY DEF Selected
<1> HIDE DEF on, last, more, sel, page, rows
<1>5. more => last \in sel /\ last \in RowIds /\ There(last) /\ PositionOf(last) \in Positions
  <2> SUFFICES ASSUME more
               PROVE  last \in sel /\ last \in RowIds /\ There(last) /\ PositionOf(last) \in Positions
    OBVIOUS
  <2>1. last \in sel /\ last \in RowIds /\ There(last)
    BY <1>3, <1>4
  <2>2. place[last] \in Places
    BY <1>2, <2>1, PlacesAreNatural
  <2> QED BY <2>1, <2>2 DEF PositionOf, Positions
<1>6. more => \A r \in sel : r \in on <=> ~After(PositionOf(r), PositionOf(last))
  <2> SUFFICES ASSUME more, NEW r \in sel
               PROVE  r \in on <=> ~After(PositionOf(r), PositionOf(last))
    OBVIOUS
  <2>1. r \in RowIds /\ last \in RowIds
    BY <1>4, <1>5
  <2>2. After(PositionOf(r), PositionOf(last)) <=> RanksBefore(last, r)
    BY <1>2, <2>1, AfterIsTheOrder
  <2>3. RanksBefore(last, r) <=> ~(r = last \/ RanksBefore(r, last))
    BY <1>2, <2>1, RanksAreOrdered
  <2> QED BY <1>3, <2>2, <2>3
<1>7. walk \in {"fresh", "between"} /\ (walk = "between" => cursor \in Positions /\ cursor # NoPosition)
      /\ (walk = "fresh" => cursor = NoPosition)
  BY <1>1, <1>2, PlacesAreNatural DEF KeysetInv, KeysetTypeOK
<1>8. more /\ walk = "between" =>
        \A r \in RowIds : After(PositionOf(r), PositionOf(last)) => After(PositionOf(r), cursor)
  <2> SUFFICES ASSUME more, walk = "between", NEW r \in RowIds,
                      After(PositionOf(r), PositionOf(last))
               PROVE  After(PositionOf(r), cursor)
    OBVIOUS
  <2>1. last \in RowIds /\ cursor \in Positions /\ After(PositionOf(last), cursor)
    BY <1>4, <1>5, <1>7
  <2> QED BY <1>2, <2>1, AfterIsTheOrder
<1>9. \A r \in RowIds : Passed(r)' <=> ~more \/ ~After(PositionOf(r), PositionOf(last))
  <2> SUFFICES ASSUME NEW r \in RowIds
               PROVE  Passed(r)' <=> ~more \/ ~After(PositionOf(r), PositionOf(last))
    OBVIOUS
  <2>1. PositionOf(r)' = PositionOf(r)
    BY <1>1 DEF PositionOf
  <2>2. CASE more
    <3>1. cursor' = PositionOf(last) /\ walk' = "between"
      BY <1>1, <2>2
    <3>2. After(PositionOf(r), cursor)' <=> After(PositionOf(r), PositionOf(last))
      BY <1>1, <2>1, <3>1 DEF After, FeedAfter, TimeAfter
    <3> QED BY <2>2, <3>1, <3>2 DEF Passed
  <2>3. CASE ~more
    BY <1>1, <2>3 DEF Passed
  <2> QED BY <2>2, <2>3
<1>10. \A r \in RowIds : There(r)' <=> There(r)
  BY <1>1 DEF There
<1>11. shown \in [RowIds -> Nat] /\ steady \subseteq RowIds /\ moved \subseteq RowIds
  BY <1>2 DEF KeysetTypeOK
<1>12. KeysetTypeOK'
  <2>1. shown' \in [RowIds -> Nat]
    BY <1>1, <1>11
  <2>2. cursor' \in Positions \cup {NoPosition} /\ walk' \in {"fresh", "between", "ended"}
    BY <1>1, <1>5
  <2>3. steady' \subseteq RowIds /\ moved' \subseteq RowIds
    BY <1>1, <1>11
  <2>4. list' \in Lists /\ place' \in [RowIds -> Places \cup {0}]
    BY <1>1, <1>2 DEF KeysetTypeOK
  <2> QED BY <2>1, <2>2, <2>3, <2>4 DEF KeysetTypeOK
<1>13. ASSUME NEW r \in steady'
       PROVE  There(r) /\ r \in RowIds /\ shown'[r] = IF Passed(r)' THEN 1 ELSE 0
  <2>1. There(r) /\ r \in RowIds
    <3>1. CASE walk = "fresh"
      <4>1. r \in {x \in RowIds : There(x)}
        BY <1>1, <1>13, <3>1
      <4> QED BY <4>1
    <3>2. CASE walk # "fresh"
      <4>1. r \in steady
        BY <1>1, <1>13, <3>2
      <4> QED BY <1>11, <4>1 DEF KeysetInv
    <3> QED BY <3>1, <3>2
  <2>2. shown'[r] = IF r \in on THEN shown[r] + 1 ELSE shown[r]
    BY <1>1, <2>1
  <2>3. r \in on <=> r \in sel /\ (~more \/ ~After(PositionOf(r), PositionOf(last)))
    BY <1>3, <1>6
  <2>4. CASE walk = "fresh"
    <3>1. shown[r] = 0 /\ r \in sel
      BY <1>4, <1>7, <2>1, <2>4 DEF KeysetInv
    <3> QED BY <1>9, <2>1, <2>2, <2>3, <3>1
  <2>5. CASE walk = "between"
    <3>1. shown[r] = IF After(PositionOf(r), cursor) THEN 0 ELSE 1
      <4>1. r \in steady
        BY <1>1, <1>13, <2>5
      <4>2. Passed(r) <=> ~After(PositionOf(r), cursor)
        BY <2>5 DEF Passed
      <4>3. shown[r] = IF Passed(r) THEN 1 ELSE 0
        BY <4>1 DEF KeysetInv, WalksAreComplete
      <4> QED BY <4>2, <4>3
    <3>2. r \in sel <=> After(PositionOf(r), cursor)
      BY <1>4, <1>7, <2>1, <2>5
    <3>3. CASE After(PositionOf(r), cursor)
      BY <1>9, <2>1, <2>2, <2>3, <3>1, <3>2, <3>3
    <3>4. CASE ~After(PositionOf(r), cursor)
      <4>1. Passed(r)' /\ r \notin on /\ shown[r] = 1
        BY <1>8, <1>9, <2>1, <2>3, <2>5, <3>1, <3>2, <3>4
      <4> QED BY <2>1, <2>2, <4>1
    <3> QED BY <3>3, <3>4
  <2> QED BY <1>7, <2>1, <2>4, <2>5
<1>14. ASSUME NEW r \in RowIds \ moved'
       PROVE  /\ shown'[r] <= 1
              /\ more /\ shown'[r] # 0 => There(r) /\ ~After(PositionOf(r), PositionOf(last))
  <2>1. r \in RowIds /\ shown'[r] = (IF r \in on THEN shown[r] + 1 ELSE shown[r]) /\ shown[r] \in Nat
    BY <1>1, <1>11
  <2>2. r \in on => There(r) /\ (more => ~After(PositionOf(r), PositionOf(last)))
    BY <1>3, <1>4, <1>6
  <2>3. CASE walk = "fresh"
    <3>1. shown[r] = 0
      BY <2>1, <2>3 DEF KeysetInv
    <3> QED BY <2>1, <2>2, <3>1
  <2>4. CASE walk = "between"
    <3>1. r \notin moved
      BY <1>1, <1>14, <2>4
    <3>2. shown[r] <= 1
      BY <2>1, <3>1 DEF KeysetInv, WalksAreComplete
    <3>3. shown[r] # 0 => There(r) /\ ~After(PositionOf(r), cursor)
      BY <2>1, <2>4, <3>1 DEF KeysetInv
    <3>4. r \in on => shown[r] = 0
      BY <1>3, <1>4, <1>7, <2>4, <3>3
    <3>5. shown[r] # 0 /\ more => ~After(PositionOf(r), PositionOf(last))
      BY <1>8, <2>1, <2>4, <3>3
    <3> QED BY <2>1, <2>2, <3>2, <3>3, <3>4, <3>5
  <2> QED BY <1>7, <2>3, <2>4
<1>15. WalksAreComplete'
  BY <1>13, <1>14 DEF WalksAreComplete
<1>16. (\A r \in steady : There(r))'
  BY <1>10, <1>13
<1>17. (walk = "between" => cursor \in Positions)' /\ walk' # "fresh"
  BY <1>1, <1>5
<1>18. (walk = "between" => \A r \in RowIds \ moved :
          shown[r] # 0 => There(r) /\ ~After(PositionOf(r), cursor))'
  <2> SUFFICES ASSUME walk' = "between", NEW r \in RowIds \ moved', shown'[r] # 0
               PROVE  There(r)' /\ ~After(PositionOf(r), cursor)'
    OBVIOUS
  <2>1. more
    BY <1>1
  <2>2. There(r) /\ ~After(PositionOf(r), PositionOf(last))
    BY <1>14, <2>1
  <2>3. Passed(r)' /\ walk' # "ended"
    BY <1>9, <2>2
  <2> QED BY <1>10, <2>2, <2>3 DEF Passed
<1> QED BY <1>12, <1>15, <1>16, <1>17, <1>18 DEF KeysetInv

LEMMA KeysetNextInv ==
  ASSUME KeysetInv, [KeysetNext]_keysetVars
  PROVE  KeysetInv'
<1>1. CASE FetchPage
  BY <1>1, FetchStep
<1>2. ASSUME NEW r \in RowIds, ListStep(r)
      PROVE  KeysetInv'
  <2>1. CASE Leave(r)
    <3>1. /\ place' = [place EXCEPT ![r] = 0]
          /\ steady' = steady \ {r} /\ moved' = moved \cup {r}
          /\ UNCHANGED <<list, walk, cursor, shown>>
      BY <2>1 DEF Leave, walkState
    <3> QED BY <3>1, MoveStep
  <2>2. ASSUME NEW p \in Places, Move(r, p)
        PROVE  KeysetInv'
    <3>1. /\ place' = [place EXCEPT ![r] = p]
          /\ steady' = steady \ {r} /\ moved' = moved \cup {r}
          /\ UNCHANGED <<list, walk, cursor, shown>>
      BY <2>2 DEF Move, walkState
    <3> QED BY <3>1, MoveStep
  <2> QED BY <1>2, <2>1, <2>2, AppearStep DEF ListStep
<1>3. CASE UNCHANGED keysetVars
  BY <1>3 DEF keysetVars, listRows, walkState, walkHistory, KeysetInv, KeysetTypeOK,
              WalksAreComplete, There, Passed, After, FeedAfter, TimeAfter, PositionOf
<1> QED BY <1>1, <1>2, <1>3 DEF KeysetNext

\* The inductive invariant of Keyset: what a walk has shown lies behind its
\* cursor, and the rows it counts on are there.
THEOREM KeysetSpecInv == KeysetSpec => []KeysetInv
BY KeysetInitInv, KeysetNextInv, PTL DEF KeysetSpec

\* A row that is there all the time is shown exactly once when a walk has passed
\* it, and none twice unless it moved (cursor.go:15-16, and the five queries), for
\* any number of rows and any page size.
THEOREM SpecWalksAreComplete == KeysetSpec => []WalksAreComplete
<1>1. KeysetInv => WalksAreComplete
  BY DEF KeysetInv
<1> QED BY <1>1, KeysetSpecInv, PTL

-----------------------------------------------------------------------------
\* Media: uploads, derivatives and removals.

\* Whoever is at a job, or about to publish or take back one, comes after the
\* asset was marked processing, which happens once.
JobsAreAskedFor ==
  (\/ queued
   \/ \E w \in Workers : ~WorkerAt(w, "idle")
   \/ \E c \in Completers : complete[c] \in {"publish", "markFailed"})
     => asset.status \notin {"none", "pending"}

\* A job is acknowledged when nothing is left to be done for the asset.
AcknowledgedIsDone ==
  \A w \in Workers : WorkerAt(w, "ack") => asset.status # "processing" \/ lost

\* Only a Delete takes objects away.
RemovalsAreNoted ==
  \A d \in Deleters : ~RemovalAt(d, "idle") => deleting /\ asset.status # "none"

\* A worker goes on from objects that are there.
WorkHasItsObjects ==
  ~deleting =>
    \A w \in Workers :
      /\ work[w].step \in {"thumbnail", "markFailed", "put", "markReady"} => original # "none"
      /\ WorkerAt(w, "markReady") /\ resizable => thumb

MediaInv ==
  /\ MediaTypeOK /\ JobsAreAskedFor /\ AcknowledgedIsDone
  /\ RemovalsAreNoted /\ WorkHasItsObjects
  /\ ReadyMeansStored /\ StuckOnlyWhenLost

-----------------------------------------------------------------------------
\* An update of the status keeps the row's type.
LEMMA UpdatedAsset ==
  ASSUME MediaTypeOK, NEW s \in AssetStates \ {"none", "gone"}, UpdateStatus(s)
  PROVE  /\ asset' \in [status: AssetStates, thumbed: BOOLEAN]
         /\ asset'.thumbed = asset.thumbed
         /\ asset'.status = IF HasRow THEN s ELSE asset.status
BY DEF MediaTypeOK, UpdateStatus, HasRow

\* The client and its URL.
LEMMA ClientStep ==
  ASSUME MediaInv, Presign \/ Upload \/ UrlExpires
  PROVE  MediaInv'
<1> USE DEF MediaInv
<1>1. UNCHANGED <<thumb, resizable, queued, complete, work, removal, deleting, lost>>
  BY DEF Presign, Upload, UrlExpires, mediaProcs
<1>2. /\ asset' \in [status: AssetStates, thumbed: BOOLEAN]
      /\ \/ asset' = asset /\ (original' = original \/ original' # "none")
         \/ /\ asset.status = "none" /\ asset'.status = "pending"
            /\ original' = original
  BY DEF Presign, Upload, UrlExpires, MediaTypeOK, AssetStates
<1>3. MediaTypeOK'
  BY <1>1, <1>2 DEF MediaTypeOK, Presign, Upload, UrlExpires
<1>4. JobsAreAskedFor' /\ AcknowledgedIsDone' /\ RemovalsAreNoted' /\ WorkHasItsObjects'
  BY <1>1, <1>2 DEF JobsAreAskedFor, AcknowledgedIsDone, RemovalsAreNoted,
     WorkHasItsObjects, WorkerAt, RemovalAt
<1>5. ReadyMeansStored' /\ StuckOnlyWhenLost'
  BY <1>1, <1>2 DEF ReadyMeansStored, StuckOnlyWhenLost
<1> QED BY <1>3, <1>4, <1>5

\* The places a Complete may go to, and what it does on its way: it leaves the
\* publishing with the asset failed or something lost, and only there.
CompleteDoes(c, step) ==
  \/ /\ UNCHANGED <<asset, queued>>
     /\ step \notin {"publish", "markFailed"}
     /\ complete[c] \in {"publish", "markFailed"} => lost'
  \/ /\ asset.status = "pending" /\ asset' = [asset EXCEPT !.status = "processing"]
     /\ UNCHANGED queued /\ step = "publish"
  \/ /\ complete[c] = "publish" /\ UNCHANGED asset /\ queued' \in BOOLEAN
     /\ queued => queued'
     /\ queued' \/ step = "markFailed"
  \/ /\ complete[c] = "markFailed" /\ step = "idle" /\ UNCHANGED queued
     /\ asset' = IF HasRow THEN [asset EXCEPT !.status = "failed"] ELSE asset

LEMMA CompleteEffect ==
  ASSUME MediaTypeOK, NEW c \in Completers, CompleteStep(c)
  PROVE  /\ UNCHANGED <<original, thumb, urlOpen, resizable, work, removal, deleting>>
         /\ lost' \in BOOLEAN /\ (lost => lost')
         /\ \E step \in CompleteSteps : CompleteGoesTo(c, step) /\ CompleteDoes(c, step)
<1> DEFINE frame == UNCHANGED <<original, thumb, urlOpen, resizable, work, removal, deleting>>
           kept == lost' \in BOOLEAN /\ (lost => lost')
           goes(step) == CompleteGoesTo(c, step) /\ CompleteDoes(c, step)
<1>0. lost \in BOOLEAN /\ queued \in BOOLEAN
  BY DEF MediaTypeOK
<1> USE DEF CompleteAt, CompleteDoes, assetStore
<1>1. CASE ReadPending(c)
  <2>1. frame /\ kept /\ goes("exists")
    BY <1>0, <1>1 DEF ReadPending
  <2> QED BY <2>1 DEF CompleteSteps
<1>2. CASE CheckUpload(c)
  <2>1. frame /\ kept /\ (goes("idle") \/ goes("claim"))
    BY <1>0, <1>2 DEF CheckUpload
  <2> QED BY <2>1 DEF CompleteSteps
<1>3. CASE MarkProcessing(c)
  <2>1. frame /\ kept /\ (goes("idle") \/ goes("publish"))
    BY <1>0, <1>3 DEF MarkProcessing, UpdateStatus, HasRow
  <2> QED BY <2>1 DEF CompleteSteps
<1>4. CASE PublishJob(c)
  <2>1. frame /\ kept /\ (goes("idle") \/ goes("markFailed"))
    BY <1>0, <1>4 DEF PublishJob
  <2> QED BY <2>1 DEF CompleteSteps
<1>5. CASE FailAfterPublish(c)
  <2>1. CASE UpdateStatus("failed") /\ UNCHANGED lost
    BY <1>0, <1>5, <2>1, Zenon DEF FailAfterPublish, UpdateStatus, CompleteSteps
  <2>2. CASE lost' = TRUE /\ UNCHANGED asset
    BY <1>0, <1>5, <2>2 DEF FailAfterPublish, CompleteSteps
  <2> QED BY <1>5, <2>1, <2>2 DEF FailAfterPublish
<1>6. CASE CompleteStops(c)
  <2>1. frame /\ kept /\ goes("idle")
    BY <1>0, <1>6 DEF CompleteStops
  <2> QED BY <2>1 DEF CompleteSteps
<1> QED BY <1>1, <1>2, <1>3, <1>4, <1>5, <1>6 DEF CompleteStep

\* Complete, statement by statement.
LEMMA CompleteStepInv ==
  ASSUME MediaInv, NEW c \in Completers, CompleteStep(c)
  PROVE  MediaInv'
<1> USE DEF MediaInv
<1>1. PICK step \in CompleteSteps : CompleteGoesTo(c, step) /\ CompleteDoes(c, step)
  BY CompleteEffect
<1>2. /\ UNCHANGED <<original, thumb, urlOpen, resizable, work, removal, deleting>>
      /\ lost' \in BOOLEAN /\ (lost => lost')
  BY CompleteEffect
<1>3. /\ complete' \in [Completers -> CompleteSteps] /\ complete'[c] = step
      /\ \A d \in Completers \ {c} : complete'[d] = complete[d]
  BY <1>1 DEF MediaTypeOK, CompleteGoesTo
<1>4. asset \in [status: AssetStates, thumbed: BOOLEAN] /\ queued \in BOOLEAN
  BY DEF MediaTypeOK
<1>5. /\ asset' \in [status: AssetStates, thumbed: BOOLEAN] /\ queued' \in BOOLEAN
      /\ asset'.thumbed = asset.thumbed /\ (queued => queued')
  BY <1>1, <1>4 DEF CompleteDoes, AssetStates
<1>6. MediaTypeOK'
  BY <1>2, <1>3, <1>5 DEF MediaTypeOK
<1>7. \/ asset'.status = asset.status
      \/ asset.status = "pending" /\ asset'.status = "processing"
      \/ complete[c] = "markFailed" /\ asset'.status = "failed" /\ HasRow
  BY <1>1, <1>4 DEF CompleteDoes
<1>8. /\ complete[c] \in {"publish", "markFailed"} =>
           asset.status \notin {"none", "pending"}
      /\ \A w \in Workers : ~WorkerAt(w, "idle") => asset.status \notin {"none", "pending"}
      /\ queued => asset.status \notin {"none", "pending"}
  BY DEF JobsAreAskedFor
<1>9. JobsAreAskedFor'
  <2>1. asset.status \notin {"none", "pending"} => asset'.status \notin {"none", "pending"}
    BY <1>7
  <2>2. step \in {"publish", "markFailed"} \/ queued' # queued
          => asset'.status \notin {"none", "pending"}
    BY <1>1, <1>4, <1>8 DEF CompleteDoes
  <2> QED BY <1>2, <1>3, <1>5, <1>8, <2>1, <2>2 DEF JobsAreAskedFor, WorkerAt
<1>10. AcknowledgedIsDone'
  BY <1>2, <1>7, <1>8 DEF AcknowledgedIsDone, WorkerAt
<1>11. RemovalsAreNoted' /\ WorkHasItsObjects'
  BY <1>2, <1>7 DEF RemovalsAreNoted, WorkHasItsObjects, WorkerAt, RemovalAt
<1>12. ReadyMeansStored'
  BY <1>2, <1>5, <1>7 DEF ReadyMeansStored
<1>13. StuckOnlyWhenLost'
  BY <1>1, <1>2, <1>3, <1>4, <1>5, <1>7 DEF CompleteDoes, StuckOnlyWhenLost, HasRow
<1> QED BY <1>6, <1>9, <1>10, <1>11, <1>12, <1>13

\* What a worker may do to the rest on its way to another step.
Jobs == [step: WorkSteps, bytes: {"none", "image", "corrupt"}]
AtObjects == {"thumbnail", "markFailed", "put", "markReady"}

WorkDoes(w, next) ==
  /\ thumb' \in BOOLEAN /\ (thumb => thumb')
  /\ lost' \in BOOLEAN /\ (lost => lost')
  /\ queued' = queued \/ (queued' = FALSE /\ WorkerAt(w, "ack") /\ next.step = "idle")
  /\ next.step # "idle" => queued \/ ~WorkerAt(w, "idle")
  /\ \/ asset' = asset
     \/ /\ HasRow /\ ~WorkerAt(w, "idle")
        /\ asset' = [status |-> "failed", thumbed |-> asset.thumbed]
     \/ /\ HasRow /\ WorkerAt(w, "markReady")
        /\ asset' = [status |-> "ready", thumbed |-> resizable]
  /\ next.step = "ack" => asset'.status # "processing" \/ lost'
  /\ next.step \in AtObjects => original # "none" \/ work[w].step \in AtObjects
  /\ next.step = "markReady" /\ resizable => thumb'

LEMMA WorkEffect ==
  ASSUME MediaTypeOK, NEW w \in Workers, WorkStep(w)
  PROVE  /\ UNCHANGED <<original, urlOpen, resizable, complete, removal, deleting>>
         /\ \E next \in Jobs : work' = [work EXCEPT ![w] = next] /\ WorkDoes(w, next)
<1> DEFINE frame == UNCHANGED <<original, urlOpen, resizable, complete, removal, deleting>>
           goes(next) == work' = [work EXCEPT ![w] = next] /\ WorkDoes(w, next)
<1>0. /\ lost \in BOOLEAN /\ queued \in BOOLEAN /\ thumb \in BOOLEAN
      /\ work[w] \in Jobs /\ original \in {"none", "image", "corrupt"}
      /\ asset \in [status: AssetStates, thumbed: BOOLEAN]
      /\ work \in [Workers -> Jobs]
  BY DEF MediaTypeOK, Jobs
<1>1. /\ FreeWorker \in Jobs /\ FreeWorker.step = "idle"
      /\ \A x \in WorkSteps : /\ [work[w] EXCEPT !.step = x] \in Jobs
                              /\ [work[w] EXCEPT !.step = x].step = x
                              /\ WorkGoesTo(w, x) =>
                                   work' = [work EXCEPT ![w] = [work[w] EXCEPT !.step = x]]
  BY <1>0 DEF FreeWorker, Jobs, WorkSteps, WorkGoesTo
<1> USE DEF WorkDoes, WorkerAt, assetStore, AtObjects
<1>2. CASE TakeJob(w)
  <2>1. frame /\ goes([work[w] EXCEPT !.step = "get"])
    BY <1>0, <1>1, <1>2 DEF TakeJob, WorkSteps
  <2> QED BY <1>1, <2>1 DEF WorkSteps
<1>3. CASE ReadAsset(w)
  <2> DEFINE x == IF HasRow /\ asset.status # "ready" THEN "download" ELSE "ack"
  <2>1. frame /\ WorkGoesTo(w, x) /\ x \in WorkSteps /\ UNCHANGED <<asset, thumb, lost, queued>>
    BY <1>3 DEF ReadAsset, WorkSteps
  <2>2. x = "ack" => asset.status # "processing"
    BY DEF HasRow
  <2>3. x \in {"download", "ack"} /\ WorkerAt(w, "get")
    BY <1>3 DEF ReadAsset
  <2> HIDE DEF x
  <2> DEFINE next == [work[w] EXCEPT !.step = x]
  <2>4. next \in Jobs /\ next.step = x /\ work' = [work EXCEPT ![w] = next]
    BY <1>1, <2>1
  <2> HIDE DEF next
  <2>5. goes(next)
    BY <1>0, <2>1, <2>2, <2>3, <2>4
  <2> QED BY <2>1, <2>4, <2>5
<1>4. CASE Download(w)
  <2> DEFINE next == [step |-> IF resizable THEN "thumbnail" ELSE "markReady",
                      bytes |-> original]
  <2>1. next \in Jobs
    BY <1>0, <1>4 DEF Download, Jobs, WorkSteps
  <2>2. frame /\ goes(next)
    BY <1>0, <1>4 DEF Download
  <2> QED BY <2>1, <2>2
<1>5. CASE MakeThumbnail(w)
  <2> DEFINE x == IF work[w].bytes = "image" THEN "put" ELSE "markFailed"
  <2>1. frame /\ WorkGoesTo(w, x) /\ x \in WorkSteps /\ UNCHANGED <<asset, thumb, lost, queued>>
    BY <1>5 DEF MakeThumbnail, WorkSteps
  <2>2. x \in {"put", "markFailed"} /\ WorkerAt(w, "thumbnail")
    BY <1>5 DEF MakeThumbnail
  <2> HIDE DEF x
  <2> DEFINE next == [work[w] EXCEPT !.step = x]
  <2>3. next \in Jobs /\ next.step = x /\ work' = [work EXCEPT ![w] = next]
    BY <1>1, <2>1
  <2> HIDE DEF next
  <2>4. goes(next)
    BY <1>0, <2>1, <2>2, <2>3
  <2> QED BY <2>1, <2>3, <2>4
<1>6. CASE GiveUpOnImage(w)
  <2> DEFINE next == [work[w] EXCEPT !.step = "ack"]
  <2>1. /\ frame /\ work' = [work EXCEPT ![w] = next] /\ next \in Jobs /\ next.step = "ack"
        /\ UNCHANGED <<thumb, queued>> /\ WorkerAt(w, "markFailed")
    BY <1>1, <1>6 DEF GiveUpOnImage, WorkSteps
  <2> HIDE DEF next
  <2>2. CASE lost' = TRUE /\ UNCHANGED asset
    BY <1>0, <2>1, <2>2
  <2>3. CASE UpdateStatus("failed") /\ UNCHANGED lost
    <3>1. CASE HasRow
      <4>1. asset' = [status |-> "failed", thumbed |-> asset.thumbed]
        BY <1>0, <2>3, <3>1 DEF UpdateStatus
      <4> QED BY <1>0, <2>1, <2>3, <3>1, <4>1
    <3>2. CASE ~HasRow
      <4>1. asset' = asset /\ asset.status # "processing"
        BY <2>3, <3>2 DEF UpdateStatus, HasRow
      <4> QED BY <1>0, <2>1, <2>3, <4>1
    <3> QED BY <3>1, <3>2
  <2> QED BY <1>6, <2>2, <2>3 DEF GiveUpOnImage
<1>7. CASE PutThumbnail(w)
  <2>1. frame /\ goes([work[w] EXCEPT !.step = "markReady"])
    BY <1>0, <1>1, <1>7 DEF PutThumbnail, WorkSteps
  <2> QED BY <1>1, <2>1 DEF WorkSteps
<1>8. CASE MarkReady(w)
  <2> DEFINE next == [work[w] EXCEPT !.step = "ack"]
  <2>1. /\ frame /\ work' = [work EXCEPT ![w] = next] /\ next \in Jobs /\ next.step = "ack"
        /\ UNCHANGED <<thumb, queued, lost>> /\ WorkerAt(w, "markReady")
    BY <1>1, <1>8 DEF MarkReady, WorkSteps
  <2> HIDE DEF next
  <2>2. CASE HasRow
    <3>1. asset' = [status |-> "ready", thumbed |-> resizable]
      BY <1>8, <2>2 DEF MarkReady
    <3>2. asset'.status # "processing"
      BY <3>1
    <3> QED BY <1>0, <2>1, <2>2, <3>1, <3>2
  <2>3. CASE ~HasRow
    <3>1. asset' = asset /\ asset.status # "processing"
      BY <1>8, <2>3 DEF MarkReady, HasRow
    <3> QED BY <1>0, <2>1, <3>1
  <2> QED BY <2>2, <2>3
<1>9. CASE Acknowledge(w)
  <2>1. frame /\ goes(FreeWorker)
    BY <1>0, <1>1, <1>9 DEF Acknowledge
  <2> QED BY <1>1, <2>1
<1>10. CASE WorkStops(w)
  <2> DEFINE next == FreeWorker
  <2>1. /\ frame /\ work' = [work EXCEPT ![w] = next] /\ next \in Jobs /\ next.step = "idle"
        /\ UNCHANGED <<asset, queued, lost>> /\ thumb' \in {thumb, thumb \/ WorkerAt(w, "put")}
    BY <1>1, <1>10 DEF WorkStops
  <2> HIDE DEF next
  <2>2. thumb' \in BOOLEAN /\ (thumb => thumb')
    BY <1>0, <2>1
  <2> QED BY <1>0, <2>1, <2>2
<1> QED BY <1>2, <1>3, <1>4, <1>5, <1>6, <1>7, <1>8, <1>9, <1>10 DEF WorkStep

\* A worker, statement by statement, whatever the others are at.
LEMMA WorkStepInv ==
  ASSUME MediaInv, NEW w \in Workers, WorkStep(w)
  PROVE  MediaInv'
<1> USE DEF MediaInv
<1>1. PICK next \in Jobs : work' = [work EXCEPT ![w] = next] /\ WorkDoes(w, next)
  BY WorkEffect
<1>2. UNCHANGED <<original, urlOpen, resizable, complete, removal, deleting>>
  BY WorkEffect
<1>3. /\ work' \in [Workers -> Jobs] /\ work'[w] = next
      /\ \A v \in Workers \ {w} : work'[v] = work[v]
  BY <1>1 DEF MediaTypeOK, Jobs
<1>4. /\ asset \in [status: AssetStates, thumbed: BOOLEAN] /\ queued \in BOOLEAN
      /\ resizable \in BOOLEAN
  BY DEF MediaTypeOK
<1>5. /\ asset' \in [status: AssetStates, thumbed: BOOLEAN]
      /\ thumb' \in BOOLEAN /\ lost' \in BOOLEAN /\ queued' \in BOOLEAN
      /\ (thumb => thumb') /\ (lost => lost')
  <2>1. \/ asset' = asset
        \/ asset' = [status |-> "failed", thumbed |-> asset.thumbed]
        \/ asset' = [status |-> "ready", thumbed |-> resizable]
    BY <1>1 DEF WorkDoes
  <2>2. asset' \in [status: AssetStates, thumbed: BOOLEAN]
    BY <1>4, <2>1 DEF AssetStates
  <2>3. queued' = queued \/ queued' = FALSE
    BY <1>1, Zenon DEF WorkDoes
  <2>4. queued' \in BOOLEAN
    BY <1>4, <2>3, Zenon
  <2>5. thumb' \in BOOLEAN /\ lost' \in BOOLEAN /\ (thumb => thumb') /\ (lost => lost')
    BY <1>1, Zenon DEF WorkDoes
  <2> QED BY <2>2, <2>4, <2>5
<1>6. MediaTypeOK'
  BY <1>2, <1>3, <1>5 DEF MediaTypeOK, Jobs
<1>7. \/ asset' = asset
      \/ /\ asset'.status = "failed" /\ asset'.thumbed = asset.thumbed /\ HasRow
      \/ /\ HasRow /\ WorkerAt(w, "markReady")
         /\ asset'.status = "ready" /\ asset'.thumbed = resizable
  BY <1>1, <1>4 DEF WorkDoes
<1>8. asset.status \notin {"none", "pending"} => asset'.status \notin {"none", "pending"}
  BY <1>7
<1>9. asset'.status = "processing" => asset.status = "processing"
  BY <1>7
<1>10. JobsAreAskedFor'
  BY <1>1, <1>2, <1>3, <1>8 DEF WorkDoes, JobsAreAskedFor, WorkerAt
<1>11. AcknowledgedIsDone'
  BY <1>1, <1>3, <1>5, <1>9 DEF WorkDoes, AcknowledgedIsDone, WorkerAt
<1>12. RemovalsAreNoted'
  BY <1>2, <1>7 DEF RemovalsAreNoted, RemovalAt, HasRow
<1>13. WorkHasItsObjects'
  BY <1>1, <1>2, <1>3, <1>5 DEF WorkDoes, WorkHasItsObjects, WorkerAt, AtObjects
<1>14. ReadyMeansStored'
  BY <1>2, <1>5, <1>7 DEF ReadyMeansStored, WorkHasItsObjects, WorkerAt
<1>15. StuckOnlyWhenLost'
  <2>1. CASE queued' = queued
    BY <1>2, <1>5, <1>9, <2>1 DEF StuckOnlyWhenLost
  <2>2. CASE WorkerAt(w, "ack") /\ queued' = FALSE
    <3>1. asset.status # "processing" \/ lost
      BY <2>2 DEF AcknowledgedIsDone
    <3> QED BY <1>5, <1>9, <3>1 DEF StuckOnlyWhenLost
  <2> QED BY <1>1, <2>1, <2>2 DEF WorkDoes
<1> QED BY <1>6, <1>10, <1>11, <1>12, <1>13, <1>14, <1>15

\* A Delete: from its first step on, what a ready row promises is not claimed.
LEMMA RemovalStepInv ==
  ASSUME MediaInv, NEW d \in Deleters, RemovalStep(d)
  PROVE  MediaInv'
<1> USE DEF MediaInv
<1>1. /\ UNCHANGED <<urlOpen, resizable, queued, complete, work, lost>>
      /\ asset \in [status: AssetStates, thumbed: BOOLEAN]
      /\ removal \in [Deleters -> [step: RemovalSteps, thumbed: BOOLEAN]]
      /\ original \in {"none", "image", "corrupt"} /\ thumb \in BOOLEAN /\ deleting \in BOOLEAN
  BY DEF RemovalStep, BeginDelete, RemoveOriginal, RemoveThumbnail, DeleteRow, DeleteStops,
     assetStore, MediaTypeOK
<1>2. \/ asset' = asset
      \/ asset' = [status |-> "gone", thumbed |-> FALSE]
  BY DEF RemovalStep, BeginDelete, RemoveOriginal, RemoveThumbnail, DeleteRow, DeleteStops,
     assetStore
<1>3. /\ asset' \in [status: AssetStates, thumbed: BOOLEAN]
      /\ asset'.status = asset.status \/ asset'.status = "gone"
  <2>1. CASE asset' = asset
    BY <1>1, <2>1
  <2>2. CASE asset' = [status |-> "gone", thumbed |-> FALSE]
    BY <2>2 DEF AssetStates
  <2> QED BY <1>2, <2>1, <2>2
<1>4. /\ original' \in {"none", "image", "corrupt"} /\ thumb' \in BOOLEAN
      /\ deleting' \in BOOLEAN /\ (deleting => deleting')
  BY <1>1 DEF RemovalStep, BeginDelete, RemoveOriginal, RemoveThumbnail, DeleteRow,
     DeleteStops, assetStore
<1>5. PICK next \in [step: RemovalSteps, thumbed: BOOLEAN] :
        removal' = [removal EXCEPT ![d] = next]
  <2>1. \A x \in RemovalSteps :
          /\ [removal[d] EXCEPT !.step = x] \in [step: RemovalSteps, thumbed: BOOLEAN]
          /\ RemovalGoesTo(d, x) =>
               removal' = [removal EXCEPT ![d] = [removal[d] EXCEPT !.step = x]]
    BY <1>1 DEF RemovalGoesTo
  <2>2. CASE BeginDelete(d)
    <3>1. asset.thumbed \in BOOLEAN
      BY <1>1
    <3> QED BY <2>2, <3>1 DEF BeginDelete, RemovalSteps
  <2>3. CASE RemoveOriginal(d)
    <3>1. \E x \in {"thumb", "row"} : RemovalGoesTo(d, x)
      BY <2>3 DEF RemoveOriginal
    <3> QED BY <2>1, <3>1 DEF RemovalSteps
  <2>4. CASE RemoveThumbnail(d)
    BY <2>1, <2>4 DEF RemoveThumbnail, RemovalSteps
  <2>5. CASE DeleteRow(d) \/ DeleteStops(d)
    BY <2>5 DEF DeleteRow, DeleteStops, FreeDeleter, RemovalSteps
  <2> QED BY <2>2, <2>3, <2>4, <2>5 DEF RemovalStep
<1>6. /\ removal' \in [Deleters -> [step: RemovalSteps, thumbed: BOOLEAN]]
      /\ \A e \in Deleters \ {d} : removal'[e] = removal[e]
  BY <1>1, <1>5
<1>7. MediaTypeOK'
  BY <1>1, <1>3, <1>4, <1>6 DEF MediaTypeOK
<1>8. deleting' /\ asset.status # "none"
  <2>1. CASE BeginDelete(d)
    BY <2>1 DEF BeginDelete, HasRow
  <2>2. CASE ~RemovalAt(d, "idle")
    BY <1>1, <1>4, <2>2 DEF RemovalsAreNoted
  <2> QED BY <2>1, <2>2 DEF RemovalStep, RemoveOriginal, RemoveThumbnail, DeleteRow,
             DeleteStops, RemovalAt
<1>9. JobsAreAskedFor' /\ AcknowledgedIsDone' /\ StuckOnlyWhenLost'
  BY <1>1, <1>3, <1>8 DEF JobsAreAskedFor, AcknowledgedIsDone, StuckOnlyWhenLost, WorkerAt
<1>10. RemovalsAreNoted'
  BY <1>3, <1>8 DEF RemovalsAreNoted
<1>11. WorkHasItsObjects' /\ ReadyMeansStored'
  BY <1>8 DEF WorkHasItsObjects, ReadyMeansStored
<1> QED BY <1>7, <1>9, <1>10, <1>11

\* The queue's last attempt.
LEMMA DeadLetterInv == MediaInv /\ DeadLetterJob => MediaInv'
<1> SUFFICES ASSUME MediaInv, DeadLetterJob PROVE MediaInv'
  OBVIOUS
<1> USE DEF MediaInv
<1>1. /\ UNCHANGED <<asset, original, thumb, urlOpen, resizable, complete, work, removal,
                     deleting>>
      /\ queued' = FALSE /\ lost' = TRUE
  BY DEF DeadLetterJob, assetStore, mediaProcs
<1>2. MediaTypeOK'
  BY <1>1 DEF MediaTypeOK
<1>3. JobsAreAskedFor' /\ AcknowledgedIsDone' /\ RemovalsAreNoted' /\ WorkHasItsObjects'
  BY <1>1 DEF JobsAreAskedFor, AcknowledgedIsDone, RemovalsAreNoted, WorkHasItsObjects,
     WorkerAt, RemovalAt
<1>4. ReadyMeansStored' /\ StuckOnlyWhenLost'
  BY <1>1 DEF ReadyMeansStored, StuckOnlyWhenLost
<1> QED BY <1>2, <1>3, <1>4

-----------------------------------------------------------------------------
LEMMA MediaInitInv == MediaInit => MediaInv
<1> SUFFICES ASSUME MediaInit PROVE MediaInv
  OBVIOUS
<1>1. MediaTypeOK
  BY DEF MediaInit, MediaTypeOK, AssetStates, CompleteSteps, FreeWorker, WorkSteps,
     FreeDeleter, RemovalSteps
<1>2. /\ \A w \in Workers : work[w].step = "idle"
      /\ \A d \in Deleters : removal[d].step = "idle"
      /\ \A c \in Completers : complete[c] = "idle"
      /\ asset.status = "none" /\ queued = FALSE
  BY DEF MediaInit, FreeWorker, FreeDeleter
<1>3. JobsAreAskedFor /\ AcknowledgedIsDone /\ RemovalsAreNoted /\ WorkHasItsObjects
  BY <1>2 DEF JobsAreAskedFor, AcknowledgedIsDone, RemovalsAreNoted, WorkHasItsObjects,
     WorkerAt, RemovalAt
<1>4. ReadyMeansStored /\ StuckOnlyWhenLost
  BY <1>2 DEF ReadyMeansStored, StuckOnlyWhenLost
<1> QED BY <1>1, <1>3, <1>4 DEF MediaInv

LEMMA MediaNextInv == MediaInv /\ [MediaNext]_mediaVars => MediaInv'
<1> SUFFICES ASSUME MediaInv, [MediaNext]_mediaVars PROVE MediaInv'
  OBVIOUS
<1>1. CASE UNCHANGED mediaVars
  <2>1. UNCHANGED <<asset, original, thumb, urlOpen, resizable, queued, complete, work,
                    removal, deleting, lost>>
    BY <1>1 DEF mediaVars, assetStore, mediaProcs
  <2>2. MediaTypeOK'
    BY <2>1 DEF MediaInv, MediaTypeOK
  <2>3. JobsAreAskedFor' /\ AcknowledgedIsDone' /\ RemovalsAreNoted' /\ WorkHasItsObjects'
    BY <2>1 DEF MediaInv, JobsAreAskedFor, AcknowledgedIsDone, RemovalsAreNoted,
       WorkHasItsObjects, WorkerAt, RemovalAt
  <2>4. ReadyMeansStored' /\ StuckOnlyWhenLost'
    BY <2>1 DEF MediaInv, ReadyMeansStored, StuckOnlyWhenLost
  <2> QED BY <2>2, <2>3, <2>4 DEF MediaInv
<1> QED BY <1>1, ClientStep, CompleteStepInv, WorkStepInv, RemovalStepInv, DeadLetterInv
        DEF MediaNext

\* The inductive invariant of Media: what every job, worker and Delete in
\* flight says about the row and the objects.
THEOREM MediaSpecInv == MediaSpec => []MediaInv
BY MediaInitInv, MediaNextInv, PTL DEF MediaSpec

\* A ready asset's objects are there until a Delete begins, and an asset that
\* says processing is being processed unless something was lost.
THEOREM SpecAssetsAreAccountedFor == MediaSpec => []AssetsAreAccountedFor
<1>1. MediaInv => AssetsAreAccountedFor
  BY DEF MediaInv, AssetsAreAccountedFor
<1> QED BY <1>1, MediaSpecInv, PTL

\* The row, the objects, the job and those at work keep their types.
THEOREM MediaSpecTypeOK == MediaSpec => []MediaTypeOK
<1>1. MediaInv => MediaTypeOK
  BY DEF MediaInv
<1> QED BY <1>1, MediaSpecInv, PTL

-----------------------------------------------------------------------------
\* Inbox: the notifications and the unread counter cached beside them.

\* What nothing has made wrong is right: a fill has the number of unread rows, a
\* reset has read them all, and no correction is on its way.
CleanCallsAreRight ==
  \A c \in InboxCalls :
    inbox[c].clean =>
      /\ InboxAt(c, "fill") \/ InboxAt(c, "reset") => Corrections = {}
      /\ InboxAt(c, "fill") => inbox[c].n = Cardinality(Unread)
      /\ InboxAt(c, "reset") => Unread = {}

InboxInv == InboxTypeOK /\ CleanCallsAreRight /\ CountIsRightUnlessRaced

-----------------------------------------------------------------------------
\* The numbers the count is compared with.
LEMMA InboxNumbers ==
  /\ IsFiniteSet(Unread) /\ Cardinality(Unread) \in 0 .. Cardinality(Notes)
  /\ Cardinality(Notes) \in Nat
  /\ \A step : IsFiniteSet(InStep(step)) /\ Cardinality(InStep(step)) \in Nat
<1>1. Unread \subseteq Notes /\ \A step : InStep(step) \subseteq InboxCalls
  BY DEF Unread, InStep
<1>2. IsFiniteSet(Unread) /\ Cardinality(Unread) <= Cardinality(Notes)
  BY <1>1, InboxAssumption, FS_Subset
<1>3. \A step : IsFiniteSet(InStep(step))
  BY <1>1, InboxAssumption, FS_Subset
<1>4. Cardinality(Unread) \in Nat /\ Cardinality(Notes) \in Nat
      /\ \A step : Cardinality(InStep(step)) \in Nat
  BY <1>2, <1>3, InboxAssumption, FS_CardinalityType
<1> QED BY <1>2, <1>3, <1>4

\* A call goes from one step to another, the others stay at theirs.
LEMMA StepSets ==
  ASSUME NEW c \in InboxCalls, NEW step,
         inbox'[c].step = step,
         \A d \in InboxCalls \ {c} : inbox'[d].step = inbox[d].step
  PROVE  \A x : InStep(x)' = IF x = step THEN InStep(x) \cup {c} ELSE InStep(x) \ {c}
BY DEF InStep, InboxAt

\* One step more or less in a set of calls is one call more or less.
LEMMA StepCounts ==
  ASSUME NEW c \in InboxCalls, NEW from, NEW step, from # step,
         InboxAt(c, from),
         inbox'[c].step = step,
         \A d \in InboxCalls \ {c} : inbox'[d].step = inbox[d].step
  PROVE  \A x : Cardinality(InStep(x)') =
                  IF x = step THEN Cardinality(InStep(x)) + 1
                  ELSE IF x = from THEN Cardinality(InStep(x)) - 1
                  ELSE Cardinality(InStep(x))
<1> SUFFICES ASSUME NEW x
             PROVE  Cardinality(InStep(x)') =
                      IF x = step THEN Cardinality(InStep(x)) + 1
                      ELSE IF x = from THEN Cardinality(InStep(x)) - 1
                      ELSE Cardinality(InStep(x))
  OBVIOUS
<1>1. IsFiniteSet(InStep(x))
  BY InboxNumbers
<1>2. c \in InStep(x) <=> x = from
  BY DEF InStep, InboxAt
<1>3. InStep(x)' = IF x = step THEN InStep(x) \cup {c} ELSE InStep(x) \ {c}
  BY StepSets
<1>4. CASE x = step
  BY <1>1, <1>2, <1>3, <1>4, FS_AddElement
<1>5. CASE x = from
  BY <1>1, <1>2, <1>3, <1>5, FS_RemoveElement
<1>6. CASE x # step /\ x # from
  BY <1>2, <1>3, <1>6
<1> QED BY <1>4, <1>5, <1>6

\* A call comes to rest or goes on, and the rows stay.
LEMMA InboxMoves ==
  ASSUME InboxTypeOK, NEW c \in InboxCalls, NEW s \in InboxCall,
         inbox' = [inbox EXCEPT ![c] = s]
  PROVE  /\ inbox' \in [InboxCalls -> InboxCall]
         /\ inbox'[c] = s
         /\ \A d \in InboxCalls \ {c} : inbox'[d] = inbox[d]
BY DEF InboxTypeOK

LEMMA IdleInbox ==
  /\ IdleInboxCall \in InboxCall /\ IdleInboxCall.step = "idle" /\ ~IdleInboxCall.clean
<1>1. 0 \in 0 .. Cardinality(Notes)
  BY InboxNumbers
<1> QED BY <1>1 DEF IdleInboxCall, InboxCall, InboxSteps

\* What is clean stays so while no row changes and no correction is added.
LEMMA CleanStays ==
  ASSUME InboxInv, NEW c \in InboxCalls, UNCHANGED notes,
         \A d \in InboxCalls \ {c} : inbox'[d] = inbox[d],
         Corrections' \subseteq Corrections,
         inbox'[c].clean =>
           /\ inbox'[c].step \in {"fill", "reset"} => Corrections = {}
           /\ inbox'[c].step = "fill" => inbox'[c].n = Cardinality(Unread)
           /\ inbox'[c].step = "reset" => Unread = {}
  PROVE  CleanCallsAreRight'
<1>1. Unread' = Unread
  BY DEF Unread
<1> QED BY <1>1 DEF InboxInv, CleanCallsAreRight, InboxAt

-----------------------------------------------------------------------------
\* The effect of a step that changes rows on the calls.
LEMMA ChangesEffect ==
  ASSUME InboxTypeOK, NEW c \in InboxCalls, NEW step \in InboxSteps, NEW clean \in BOOLEAN,
         ChangesRows(c, step, clean)
  PROVE  /\ inbox' \in [InboxCalls -> InboxCall]
         /\ inbox'[c].step = step /\ inbox'[c].clean = clean
         /\ \A d \in InboxCalls \ {c} : inbox'[d].step = inbox[d].step /\ ~inbox'[d].clean
<1> DEFINE F(d) == IF d = c THEN [step |-> step, n |-> 0, clean |-> clean]
                   ELSE [inbox[d] EXCEPT !.clean = FALSE]
<1>1. inbox' = [d \in InboxCalls |-> F(d)]
  BY DEF ChangesRows
<1>2. 0 \in 0 .. Cardinality(Notes)
  BY InboxNumbers
<1>3. F(c) \in InboxCall /\ F(c).step = step /\ F(c).clean = clean
  BY <1>2 DEF InboxCall
<1>4. ASSUME NEW d \in InboxCalls, d # c
      PROVE  F(d) \in InboxCall /\ F(d).step = inbox[d].step /\ ~F(d).clean
  BY <1>4 DEF InboxTypeOK, InboxCall
<1> HIDE DEF F
<1>5. \A d \in InboxCalls : F(d) \in InboxCall /\ inbox'[d] = F(d)
  BY <1>1, <1>3, <1>4
<1>6. inbox' \in [InboxCalls -> InboxCall]
  BY <1>1, <1>5
<1> QED BY <1>3, <1>4, <1>5, <1>6

LEMMA ArriveStep ==
  ASSUME InboxInv, NEW c \in InboxCalls, NEW n \in Notes, Arrive(c, n)
  PROVE  InboxInv'
<1>1. /\ InboxAt(c, "idle") /\ notes[n] = "absent"
      /\ notes' = [notes EXCEPT ![n] = "unread"]
      /\ UNCHANGED <<count, expiring, raced>>
  BY DEF Arrive
<1>2. /\ inbox' \in [InboxCalls -> InboxCall]
      /\ inbox'[c].step = "increment" /\ inbox'[c].clean = FALSE
      /\ \A d \in InboxCalls \ {c} : inbox'[d].step = inbox[d].step /\ ~inbox'[d].clean
  BY ChangesEffect DEF Arrive, InboxInv, InboxSteps
<1>3. notes' \in [Notes -> {"absent", "unread", "read"}] /\ Unread' = Unread \cup {n}
      /\ n \notin Unread
  BY <1>1 DEF InboxInv, InboxTypeOK, Unread
<1>4. InboxTypeOK'
  BY <1>1, <1>2, <1>3 DEF InboxInv, InboxTypeOK
<1>5. CleanCallsAreRight'
  BY <1>2 DEF CleanCallsAreRight
<1>6. CountIsRightUnlessRaced'
  <2>1. Cardinality(Unread') = Cardinality(Unread) + 1
    BY <1>3, InboxNumbers, FS_AddElement
  <2>2. \A x : Cardinality(InStep(x)') =
                  IF x = "increment" THEN Cardinality(InStep(x)) + 1
                  ELSE IF x = "idle" THEN Cardinality(InStep(x)) - 1
                  ELSE Cardinality(InStep(x))
    BY <1>1, <1>2, StepCounts
  <2>3. InStep("reset") \subseteq InStep("reset")'
    BY <1>1, <1>2 DEF InStep, InboxAt
  <2> QED BY <1>1, <2>1, <2>2, <2>3, InboxNumbers DEF InboxInv, CountIsRightUnlessRaced
<1> QED BY <1>4, <1>5, <1>6 DEF InboxInv

LEMMA ReadOneStep ==
  ASSUME InboxInv, NEW c \in InboxCalls, NEW n \in Notes, ReadOne(c, n)
  PROVE  InboxInv'
<1>1. /\ InboxAt(c, "idle") /\ notes[n] = "unread"
      /\ notes' = [notes EXCEPT ![n] = "read"]
      /\ UNCHANGED <<count, expiring, raced>>
  BY DEF ReadOne
<1>2. /\ inbox' \in [InboxCalls -> InboxCall]
      /\ inbox'[c].step = "decrement" /\ inbox'[c].clean = FALSE
      /\ \A d \in InboxCalls \ {c} : inbox'[d].step = inbox[d].step /\ ~inbox'[d].clean
  BY ChangesEffect DEF ReadOne, InboxInv, InboxSteps
<1>3. notes' \in [Notes -> {"absent", "unread", "read"}] /\ Unread' = Unread \ {n}
      /\ n \in Unread
  BY <1>1 DEF InboxInv, InboxTypeOK, Unread
<1>4. InboxTypeOK'
  BY <1>1, <1>2, <1>3 DEF InboxInv, InboxTypeOK
<1>5. CleanCallsAreRight'
  BY <1>2 DEF CleanCallsAreRight
<1>6. CountIsRightUnlessRaced'
  <2>1. Cardinality(Unread') = Cardinality(Unread) - 1
    BY <1>3, InboxNumbers, FS_RemoveElement
  <2>2. \A x : Cardinality(InStep(x)') =
                  IF x = "decrement" THEN Cardinality(InStep(x)) + 1
                  ELSE IF x = "idle" THEN Cardinality(InStep(x)) - 1
                  ELSE Cardinality(InStep(x))
    BY <1>1, <1>2, StepCounts
  <2>3. InStep("reset") \subseteq InStep("reset")'
    BY <1>1, <1>2 DEF InStep, InboxAt
  <2> QED BY <1>1, <2>1, <2>2, <2>3, InboxNumbers DEF InboxInv, CountIsRightUnlessRaced
<1> QED BY <1>4, <1>5, <1>6 DEF InboxInv

LEMMA ReadAllStep ==
  ASSUME InboxInv, NEW c \in InboxCalls, ReadAll(c)
  PROVE  InboxInv'
<1> DEFINE clean == Corrections = {}
           s == [step |-> "reset", n |-> 0, clean |-> clean]
<1>1. /\ InboxAt(c, "idle") /\ UNCHANGED <<count, expiring, raced>>
      /\ notes' = [m \in Notes |-> IF notes[m] = "unread" THEN "read" ELSE notes[m]]
      /\ IF Unread = {} THEN inbox' = [inbox EXCEPT ![c] = s]
                        ELSE ChangesRows(c, "reset", clean)
  BY DEF ReadAll
<1>2. /\ s \in InboxCall /\ s.step = "reset" /\ s.clean = clean
      /\ clean \in BOOLEAN
  BY InboxNumbers DEF InboxCall, InboxSteps
<1>3. notes' \in [Notes -> {"absent", "unread", "read"}] /\ Unread' = {}
  BY <1>1 DEF InboxInv, InboxTypeOK, Unread
<1> HIDE DEF s
<1>4. /\ inbox' \in [InboxCalls -> InboxCall]
      /\ inbox'[c].step = "reset" /\ inbox'[c].clean = clean
      /\ \A d \in InboxCalls \ {c} :
           /\ inbox'[d].step = inbox[d].step
           /\ (inbox'[d].clean => Unread = {} /\ inbox'[d] = inbox[d])
  <2>1. CASE Unread = {}
    BY <1>1, <1>2, <2>1, InboxMoves DEF InboxInv
  <2>2. CASE Unread # {}
    <3>1. ChangesRows(c, "reset", clean)
      BY <1>1, <2>2
    <3>2. "reset" \in InboxSteps
      BY DEF InboxSteps
    <3> HIDE DEF clean
    <3> QED BY <1>2, <3>1, <3>2, ChangesEffect DEF InboxInv
  <2> QED BY <2>1, <2>2
<1>5. Corrections' = Corrections
  BY <1>1, <1>4 DEF Corrections, InStep, InboxAt
<1>6. InboxTypeOK'
  BY <1>1, <1>3, <1>4 DEF InboxInv, InboxTypeOK
<1>7. CleanCallsAreRight'
  <2>1. ASSUME NEW d \in InboxCalls, inbox'[d].clean
        PROVE  /\ InboxAt(d, "fill")' \/ InboxAt(d, "reset")' => Corrections = {}
               /\ InboxAt(d, "fill")' => inbox'[d].n = Cardinality({})
    <3>1. CASE d = c
      BY <1>4, <2>1, <3>1 DEF InboxAt
    <3>2. CASE d # c
      BY <1>4, <2>1, <3>2 DEF InboxInv, CleanCallsAreRight, InboxAt
    <3> QED BY <3>1, <3>2
  <2> QED BY <1>3, <1>5, <2>1 DEF CleanCallsAreRight
<1>8. CountIsRightUnlessRaced'
  <2>1. c \in InStep("reset")'
    BY <1>4 DEF InStep, InboxAt
  <2> QED BY <2>1 DEF CountIsRightUnlessRaced
<1> QED BY <1>6, <1>7, <1>8 DEF InboxInv

-----------------------------------------------------------------------------
\* The corrections.
LEMMA EndsEffect ==
  ASSUME InboxInv, NEW c \in InboxCalls, EndsInbox(c), UNCHANGED notes
  PROVE  /\ inbox' \in [InboxCalls -> InboxCall]
         /\ inbox'[c].step = "idle"
         /\ \A d \in InboxCalls \ {c} : inbox'[d] = inbox[d]
         /\ Unread' = Unread /\ Corrections' = Corrections \ {c}
         /\ CleanCallsAreRight'
<1>1. /\ inbox' \in [InboxCalls -> InboxCall]
      /\ inbox'[c] = IdleInboxCall
      /\ \A d \in InboxCalls \ {c} : inbox'[d] = inbox[d]
  BY IdleInbox, InboxMoves DEF EndsInbox, InboxInv
<1>2. Unread' = Unread
  BY DEF Unread
<1>3. Corrections' = Corrections \ {c}
  BY <1>1, IdleInbox DEF Corrections, InStep, InboxAt
<1>4. CleanCallsAreRight'
  BY <1>1, <1>3, IdleInbox, CleanStays
<1> QED BY <1>1, <1>2, <1>3, <1>4, IdleInbox

LEMMA IncrementStep ==
  ASSUME InboxInv, NEW c \in InboxCalls, Increment(c)
  PROVE  InboxInv'
<1>1. /\ InboxAt(c, "increment") /\ EndsInbox(c) /\ UNCHANGED <<notes, expiring, raced>>
      /\ count' = IF count = Uncached THEN Uncached ELSE count + 1
  BY DEF Increment
<1>2. /\ inbox' \in [InboxCalls -> InboxCall] /\ inbox'[c].step = "idle"
      /\ \A d \in InboxCalls \ {c} : inbox'[d].step = inbox[d].step
      /\ Unread' = Unread /\ CleanCallsAreRight'
  BY <1>1, EndsEffect
<1>3. InboxTypeOK'
  BY <1>1, <1>2 DEF InboxInv, InboxTypeOK, Uncached
<1>4. CountIsRightUnlessRaced'
  <2>1. \A x : Cardinality(InStep(x)') =
                  IF x = "idle" THEN Cardinality(InStep(x)) + 1
                  ELSE IF x = "increment" THEN Cardinality(InStep(x)) - 1
                  ELSE Cardinality(InStep(x))
    BY <1>1, <1>2, StepCounts
  <2>2. InStep("reset") \subseteq InStep("reset")'
    BY <1>1, <1>2 DEF InStep, InboxAt
  <2>3. count \in {Uncached} \cup Nat
    BY DEF InboxInv, InboxTypeOK
  <2> QED BY <1>1, <1>2, <2>1, <2>2, <2>3, InboxNumbers
          DEF InboxInv, CountIsRightUnlessRaced, Uncached
<1> QED BY <1>2, <1>3, <1>4 DEF InboxInv

LEMMA DecrementStep ==
  ASSUME InboxInv, NEW c \in InboxCalls, Decrement(c)
  PROVE  InboxInv'
<1>1. /\ InboxAt(c, "decrement") /\ EndsInbox(c) /\ UNCHANGED notes
      /\ count' = IF count <= 0 THEN count ELSE count - 1
      /\ expiring' = (expiring /\ count # 0)
      /\ raced' = (raced \/ count = 0)
  BY DEF Decrement
<1>2. /\ inbox' \in [InboxCalls -> InboxCall] /\ inbox'[c].step = "idle"
      /\ \A d \in InboxCalls \ {c} : inbox'[d].step = inbox[d].step
      /\ Unread' = Unread /\ CleanCallsAreRight'
  BY <1>1, EndsEffect
<1>3. count \in {Uncached} \cup Nat /\ count' \in {Uncached} \cup Nat
  BY <1>1 DEF InboxInv, InboxTypeOK, Uncached
<1>4. expiring' \in BOOLEAN /\ raced' \in BOOLEAN
  BY <1>1, Zenon DEF InboxInv, InboxTypeOK
<1>5. InboxTypeOK'
  BY <1>1, <1>2, <1>3, <1>4 DEF InboxInv, InboxTypeOK
<1>6. CountIsRightUnlessRaced'
  <2>1. \A x : Cardinality(InStep(x)') =
                  IF x = "idle" THEN Cardinality(InStep(x)) + 1
                  ELSE IF x = "decrement" THEN Cardinality(InStep(x)) - 1
                  ELSE Cardinality(InStep(x))
    BY <1>1, <1>2, StepCounts
  <2>2. InStep("reset") \subseteq InStep("reset")'
    BY <1>1, <1>2 DEF InStep, InboxAt
  <2>3. ~raced' => ~raced /\ count # 0
    BY <1>1, Zenon DEF InboxInv, InboxTypeOK
  <2>4. (count' # Uncached /\ ~raced') => count \in Nat \ {0} /\ count' = count - 1
    BY <1>1, <1>3, <2>3 DEF Uncached
  <2> QED BY <1>2, <1>3, <2>1, <2>2, <2>3, <2>4, InboxNumbers
          DEF InboxInv, CountIsRightUnlessRaced, Uncached
<1> QED BY <1>2, <1>5, <1>6 DEF InboxInv

\* A call writes the count it has worked out.
LEMMA ResetStep ==
  ASSUME InboxInv, NEW c \in InboxCalls, Reset(c)
  PROVE  InboxInv'
<1>1. /\ InboxAt(c, "reset") /\ EndsInbox(c) /\ UNCHANGED notes
      /\ count' = 0 /\ expiring' = TRUE /\ raced' = ~inbox[c].clean
  BY DEF Reset
<1>2. /\ inbox' \in [InboxCalls -> InboxCall]
      /\ Unread' = Unread /\ Corrections' = Corrections \ {c} /\ CleanCallsAreRight'
  BY <1>1, EndsEffect
<1>3. inbox[c].clean \in BOOLEAN
  BY DEF InboxInv, InboxTypeOK, InboxCall
<1>4. InboxTypeOK'
  BY <1>1, <1>2, <1>3 DEF InboxInv, InboxTypeOK
<1>5. CountIsRightUnlessRaced'
  <2> SUFFICES ASSUME ~raced'
               PROVE  0 = Cardinality(Unread') - Cardinality(InStep("increment")')
                            + Cardinality(InStep("decrement")')
    BY <1>1 DEF CountIsRightUnlessRaced
  <2>1. Unread' = {} /\ Corrections' = {}
    BY <1>1, <1>2 DEF InboxInv, CleanCallsAreRight
  <2>2. InStep("increment")' = {} /\ InStep("decrement")' = {}
    BY <2>1 DEF Corrections
  <2>3. Cardinality({}) = 0
    BY FS_EmptySet
  <2> QED BY <2>1, <2>2, <2>3
<1> QED BY <1>2, <1>4, <1>5 DEF InboxInv

LEMMA FillStep ==
  ASSUME InboxInv, NEW c \in InboxCalls, Fill(c)
  PROVE  InboxInv'
<1>1. /\ InboxAt(c, "fill") /\ EndsInbox(c) /\ UNCHANGED notes
      /\ count' = inbox[c].n /\ expiring' = TRUE /\ raced' = ~inbox[c].clean
  BY DEF Fill
<1>2. /\ inbox' \in [InboxCalls -> InboxCall]
      /\ Unread' = Unread /\ Corrections' = Corrections \ {c} /\ CleanCallsAreRight'
  BY <1>1, EndsEffect
<1>3. inbox[c].clean \in BOOLEAN /\ inbox[c].n \in Nat
  BY InboxNumbers DEF InboxInv, InboxTypeOK, InboxCall
<1>4. InboxTypeOK'
  BY <1>1, <1>2, <1>3 DEF InboxInv, InboxTypeOK
<1>5. CountIsRightUnlessRaced'
  <2> SUFFICES ASSUME ~raced'
               PROVE  inbox[c].n = Cardinality(Unread') - Cardinality(InStep("increment")')
                            + Cardinality(InStep("decrement")')
    BY <1>1 DEF CountIsRightUnlessRaced
  <2>1. inbox[c].n = Cardinality(Unread') /\ Corrections' = {}
    BY <1>1, <1>2 DEF InboxInv, CleanCallsAreRight
  <2>2. InStep("increment")' = {} /\ InStep("decrement")' = {}
    BY <2>1 DEF Corrections
  <2>3. Cardinality({}) = 0
    BY FS_EmptySet
  <2>4. Cardinality(InStep("increment")') = 0 /\ Cardinality(InStep("decrement")') = 0
    BY <2>2, <2>3
  <2> QED BY ONLY <1>3, <2>1, <2>4
<1> QED BY <1>2, <1>4, <1>5 DEF InboxInv

\* A call that asks for the count and misses it.
LEMMA MissStep ==
  ASSUME InboxInv, NEW c \in InboxCalls, Miss(c)
  PROVE  InboxInv'
<1> DEFINE s == [inbox[c] EXCEPT !.step = "miss"]
<1>1. /\ InboxAt(c, "idle") /\ UNCHANGED <<notes, count, expiring, raced>>
      /\ inbox' = [inbox EXCEPT ![c] = s]
  BY DEF Miss
<1>2. s \in InboxCall /\ s.step = "miss"
  BY DEF InboxInv, InboxTypeOK, InboxCall, InboxSteps
<1> HIDE DEF s
<1>3. /\ inbox' \in [InboxCalls -> InboxCall] /\ inbox'[c].step = "miss"
      /\ \A d \in InboxCalls \ {c} : inbox'[d] = inbox[d]
  BY <1>1, <1>2, InboxMoves DEF InboxInv
<1>4. Unread' = Unread /\ \A x \in {"increment", "decrement", "reset"} : InStep(x)' = InStep(x)
  BY <1>1, <1>3 DEF Unread, InStep, InboxAt
<1>5. InboxTypeOK'
  BY <1>1, <1>3 DEF InboxInv, InboxTypeOK
<1>6. CleanCallsAreRight'
  BY <1>1, <1>3, <1>4, CleanStays DEF Corrections
<1>7. CountIsRightUnlessRaced'
  BY <1>1, <1>4 DEF InboxInv, CountIsRightUnlessRaced
<1> QED BY <1>5, <1>6, <1>7 DEF InboxInv

LEMMA CountUnreadStep ==
  ASSUME InboxInv, NEW c \in InboxCalls, CountUnread(c)
  PROVE  InboxInv'
<1> DEFINE s == [step |-> "fill", n |-> Cardinality(Unread), clean |-> Corrections = {}]
<1>1. /\ InboxAt(c, "miss") /\ UNCHANGED <<notes, count, expiring, raced>>
      /\ inbox' = [inbox EXCEPT ![c] = s]
  BY DEF CountUnread
<1>2. /\ s \in InboxCall /\ s.step = "fill" /\ s.n = Cardinality(Unread)
      /\ s.clean => Corrections = {}
  BY InboxNumbers DEF InboxCall, InboxSteps
<1> HIDE DEF s
<1>3. /\ inbox' \in [InboxCalls -> InboxCall] /\ inbox'[c] = s
      /\ \A d \in InboxCalls \ {c} : inbox'[d] = inbox[d]
  BY <1>1, <1>2, InboxMoves DEF InboxInv
<1>4. Unread' = Unread /\ \A x \in {"increment", "decrement", "reset"} : InStep(x)' = InStep(x)
  BY <1>1, <1>2, <1>3 DEF Unread, InStep, InboxAt
<1>5. InboxTypeOK'
  BY <1>1, <1>3 DEF InboxInv, InboxTypeOK
<1>6. CleanCallsAreRight'
  BY <1>1, <1>2, <1>3, <1>4, CleanStays DEF Corrections
<1>7. CountIsRightUnlessRaced'
  BY <1>1, <1>4 DEF InboxInv, CountIsRightUnlessRaced
<1> QED BY <1>5, <1>6, <1>7 DEF InboxInv

LEMMA LosesCommandStep ==
  ASSUME InboxInv, NEW c \in InboxCalls, LosesCommand(c)
  PROVE  InboxInv'
<1>1. /\ EndsInbox(c) /\ UNCHANGED <<notes, count, expiring>>
      /\ raced' = (raced \/ ~(InboxAt(c, "miss") \/ InboxAt(c, "fill")))
      /\ ~InboxAt(c, "idle")
  BY DEF LosesCommand
<1>2. /\ inbox' \in [InboxCalls -> InboxCall] /\ inbox'[c].step = "idle"
      /\ \A d \in InboxCalls \ {c} : inbox'[d] = inbox[d]
      /\ Unread' = Unread /\ CleanCallsAreRight'
  BY <1>1, EndsEffect
<1>3. raced' \in BOOLEAN /\ (~raced' => ~raced /\ (InboxAt(c, "miss") \/ InboxAt(c, "fill")))
  BY <1>1, Zenon DEF InboxInv, InboxTypeOK
<1>4. InboxTypeOK'
  BY <1>1, <1>2, <1>3 DEF InboxInv, InboxTypeOK
<1>5. CountIsRightUnlessRaced'
  <2>1. ~raced' =>
          \A x \in {"increment", "decrement", "reset"} : InStep(x)' = InStep(x)
    BY <1>2, <1>3 DEF InStep, InboxAt
  <2> QED BY <1>1, <1>2, <1>3, <2>1 DEF InboxInv, CountIsRightUnlessRaced
<1> QED BY <1>2, <1>4, <1>5 DEF InboxInv

-----------------------------------------------------------------------------
LEMMA InboxInitInv == InboxInit => InboxInv
<1> SUFFICES ASSUME InboxInit PROVE InboxInv
  OBVIOUS
<1>1. InboxTypeOK
  BY IdleInbox DEF InboxInit, InboxTypeOK
<1>2. CleanCallsAreRight
  BY IdleInbox DEF InboxInit, CleanCallsAreRight
<1>3. CountIsRightUnlessRaced
  BY DEF InboxInit, CountIsRightUnlessRaced
<1> QED BY <1>1, <1>2, <1>3 DEF InboxInv

LEMMA InboxNextInv == InboxInv /\ [InboxNext]_inboxVars => InboxInv'
<1> SUFFICES ASSUME InboxInv, [InboxNext]_inboxVars PROVE InboxInv'
  OBVIOUS
<1>1. CASE Expire
  <2>1. count' = Uncached /\ expiring' = FALSE /\ raced' = FALSE /\ UNCHANGED <<notes, inbox>>
    BY <1>1 DEF Expire
  <2> QED BY <2>1 DEF InboxInv, InboxTypeOK, CleanCallsAreRight, CountIsRightUnlessRaced,
          InboxAt, Corrections, InStep, Unread
<1>2. ASSUME NEW c \in InboxCalls, InboxStep(c)
      PROVE  InboxInv'
  BY <1>2, ArriveStep, ReadOneStep, IncrementStep, DecrementStep, ReadAllStep, ResetStep,
     MissStep, CountUnreadStep, FillStep, LosesCommandStep DEF InboxStep
<1>3. CASE UNCHANGED inboxVars
  BY <1>3 DEF inboxVars, InboxInv, InboxTypeOK, CleanCallsAreRight, CountIsRightUnlessRaced,
     InboxAt, Corrections, InStep, Unread
<1> QED BY <1>1, <1>2, <1>3 DEF InboxNext
=============================================================================
