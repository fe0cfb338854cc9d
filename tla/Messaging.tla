----------------------------- MODULE Messaging -----------------------------
(***************************************************************************)
(* internal/messaging for one pair of users: their conversation, its       *)
(* messages, and the deprecated /api/conversations shims.                  *)
(*                                                                         *)
(* A call authorises itself first and does its work afterwards, in         *)
(* statements of its own, so that a block, another call or a crash can     *)
(* come in between.  Refused calls (and with them callers who are not one  *)
(* of the two) change nothing and are left out, as are previews and read   *)
(* marks; paging is in Keyset.                                             *)
(***************************************************************************)
EXTENDS Integers, FiniteSets, Sequences

CONSTANTS Members,       \* the two of the conversation
          Calls,         \* server goroutines, each serving one call at a time
          ClientIds,     \* client_msg_id
          NoClientId,
          MaxMessages    \* bound: messages ever stored

ASSUME MessagingAssumption ==
  /\ NoClientId \notin ClientIds
  /\ MaxMessages \in Nat

VARIABLES conversation,  \* its row: "none", "plain", or "matched" with a match_id
          messages,      \* committed rows
          blocked,       \* a block in either direction; kept by matching
          calls,         \* what each call is doing
          created,       \* history: 201 answers for each message
          replayed,      \* history: the messages answered with 200
          announced      \* history: message.created published for each message

threadRows == <<conversation, messages>>
threadHistory == <<created, replayed, announced>>
messagingVars == <<threadRows, blocked, calls, threadHistory>>

MessageIds == 1 .. MaxMessages
MessageKeys == ClientIds \cup {NoClientId}

MessageRows == [id: MessageIds, sender: Members, key: MessageKeys]

CallSteps == {"idle", "opening", "authorised", "begun", "inserted", "touched",
              "stored", "published"}

\* A call that does nothing.  early (history) marks one that was let in before
\* the block that is in force.
IdleCall == [step |-> "idle", user |-> NoClientId, key |-> NoClientId, id |-> 0,
             early |-> FALSE]

CallStates == [step: CallSteps, user: Members \cup {NoClientId}, key: MessageKeys,
               id: 0 .. MaxMessages, early: BOOLEAN]

MessagingTypeOK ==
  /\ conversation \in {"none", "plain", "matched"}
  /\ messages \subseteq MessageRows
  /\ blocked \in BOOLEAN
  /\ calls \in [Calls -> CallStates]
  /\ created \in [MessageIds -> Nat]
  /\ replayed \subseteq MessageRows
  /\ announced \in [MessageIds -> Nat]

MessagingInit ==
  /\ conversation = "none"
  /\ messages = {}
  /\ blocked = FALSE
  /\ calls = [c \in Calls |-> IdleCall]
  /\ created = [i \in MessageIds |-> 0]
  /\ replayed = {}
  /\ announced = [i \in MessageIds |-> 0]

-----------------------------------------------------------------------------
CallBecomes(c, state) == calls' = [calls EXCEPT ![c] = state]
CallAt(c, step) == calls[c].step = step
CallGoesTo(c, step) == CallBecomes(c, [calls[c] EXCEPT !.step = step])
CallReturns(c) == CallBecomes(c, IdleCall)

\* The messages that are committed, and those that are inserted and not yet
\* committed: an index entry of the latter makes an insert of the same key wait.
OpenInserts == {c \in Calls : calls[c].step \in {"inserted", "touched"}}
UsedIds == {m.id : m \in messages} \cup {calls[c].id : c \in OpenInserts}

SameKey(x, y) ==
  x.user = y.user /\ x.key = y.key /\ x.key # NoClientId

StoredFor(x) ==
  {m \in messages : m.sender = x.user /\ m.key = x.key /\ x.key # NoClientId}

\* Somebody of the pair blocks the other, or the last block is lifted.
BlockOrUnblock ==
  /\ blocked' = ~blocked
  /\ calls' = [c \in Calls |->
                 [calls[c] EXCEPT !.early = ~blocked /\ ~CallAt(c, "idle")]]
  /\ UNCHANGED <<threadRows, threadHistory>>

-----------------------------------------------------------------------------
\* OpenByMatch: the match names the two, and neither has blocked the other.
OpenByMatch(c, u) ==
  /\ CallAt(c, "idle")
  /\ ~blocked
  /\ CallBecomes(c, [IdleCall EXCEPT !.step = "opening", !.user = u])
  /\ UNCHANGED <<threadRows, blocked, threadHistory>>

\* createOrGet: one row for the pair, which gets its match_id if it had none.
CreateOrGet(c) ==
  /\ CallAt(c, "opening")
  /\ conversation' = "matched"
  /\ CallReturns(c)
  /\ UNCHANGED <<messages, blocked, threadHistory>>

\* ConversationRepo.CreateOrGet: a row that is there stays as it is.
LegacyRow == IF conversation = "none" THEN "plain" ELSE conversation

\* The shim opens it without match and block checks.
LegacyStart ==
  /\ conversation' = LegacyRow
  /\ UNCHANGED <<messages, blocked, calls, threadHistory>>

\* Fault: a block only keeps new conversations from being opened.
OpenThreadsStayOpen == TRUE

Reachable == ~blocked

\* authorise: the conversation exists, and neither has blocked the other.
Authorise(c, u, k) ==
  /\ CallAt(c, "idle")
  /\ conversation # "none"
  /\ Reachable
  /\ CallBecomes(c, [IdleCall EXCEPT !.step = "authorised", !.user = u, !.key = k])
  /\ UNCHANGED <<threadRows, blocked, threadHistory>>

-----------------------------------------------------------------------------
\* insertMessage opens its transaction.
BeginInsert(c) ==
  /\ CallAt(c, "authorised")
  /\ CallGoesTo(c, "begun")
  /\ UNCHANGED <<threadRows, blocked, threadHistory>>

\* Fault: no unique index on (conversation_id, sender_id, client_msg_id).
NeverConflicts(c) == FALSE

\* ON CONFLICT: a committed message, or one being inserted, has the same key.
Conflicts(c) ==
  \/ StoredFor(calls[c]) # {}
  \/ \E d \in OpenInserts : SameKey(calls[c], calls[d])

\* INSERT .. RETURNING: the row is there for this transaction alone.
Insert(c) ==
  /\ CallAt(c, "begun")
  /\ ~Conflicts(c)
  /\ \E i \in MessageIds \ UsedIds :
       CallBecomes(c, [calls[c] EXCEPT !.step = "inserted", !.id = i])
  /\ UNCHANGED <<threadRows, blocked, threadHistory>>

\* DO NOTHING once the other insert has committed: the first attempt's message
\* is read and answered with 200, and nothing is published.
AnswerExisting(c) ==
  /\ CallAt(c, "begun")
  /\ \E m \in StoredFor(calls[c]) :
       replayed' = replayed \cup {m}
  /\ CallReturns(c)
  /\ UNCHANGED <<threadRows, blocked, created, announced>>

\* The UPDATE of the conversation waits for whoever holds its row.
Touch(c) ==
  /\ CallAt(c, "inserted")
  /\ \A d \in Calls : ~CallAt(d, "touched")
  /\ CallGoesTo(c, "touched")
  /\ UNCHANGED <<threadRows, blocked, threadHistory>>

CommitInsert(c) ==
  /\ CallAt(c, "touched")
  /\ messages' = messages \cup {[id |-> calls[c].id, sender |-> calls[c].user,
                                 key |-> calls[c].key]}
  /\ CallGoesTo(c, "stored")
  /\ UNCHANGED <<conversation, blocked, threadHistory>>

\* publishMessageCreated and broadcast are best effort.
PublishCreated(c) ==
  /\ CallAt(c, "stored")
  /\ announced' \in {announced, [announced EXCEPT ![calls[c].id] = @ + 1]}
  /\ CallGoesTo(c, "published")
  /\ UNCHANGED <<threadRows, blocked, created, replayed>>

AnswerCreated(c) ==
  /\ CallAt(c, "published")
  /\ created' = [created EXCEPT ![calls[c].id] = @ + 1]
  /\ CallReturns(c)
  /\ UNCHANGED <<threadRows, blocked, replayed, announced>>

\* An error, a lost connection or the end of the process: an open transaction
\* rolls back, a committed one stands, and the client has no answer.
CallFails(c) ==
  /\ ~CallAt(c, "idle")
  /\ CallReturns(c)
  /\ UNCHANGED <<threadRows, blocked, threadHistory>>

\* ConversationRepo.SendMessage: without a client id.
LegacyInsert(u) ==
  \E i \in MessageIds \ UsedIds :
    messages' = messages \cup {[id |-> i, sender |-> u, key |-> NoClientId]}

\* The shim inserts and touches nothing else.
LegacySend(u) ==
  /\ conversation # "none"
  /\ LegacyInsert(u)
  /\ UNCHANGED <<conversation, blocked, calls, threadHistory>>

-----------------------------------------------------------------------------
\* POST /conversations with a match_id; the gate refuses a user_id.
CreateConversation(c) == \E u \in Members : OpenByMatch(c, u)

SendStep(c) ==
  \/ BeginInsert(c) \/ Insert(c) \/ AnswerExisting(c) \/ Touch(c)
  \/ CommitInsert(c) \/ PublishCreated(c) \/ AnswerCreated(c)

MessagingNext ==
  \/ BlockOrUnblock \/ LegacyStart
  \/ \E u \in Members : LegacySend(u)
  \/ \E c \in Calls :
       \/ CreateConversation(c)
       \/ \E u \in Members, k \in MessageKeys : Authorise(c, u, k)
       \/ SendStep(c)
       \/ CreateOrGet(c) \/ CallFails(c)

MessagingSpec == MessagingInit /\ [][MessagingNext]_messagingVars

-----------------------------------------------------------------------------
\* Sending is idempotent on client_msg_id across retries, concurrent copies and
\* crashes: one message, one 201, every other answer names that message, and at
\* most one message.created ("a retry with the same id returns the message
\* stored by the first attempt instead of duplicating it", store.go:192-193).
Promise == INSTANCE Thread
  WITH stored <- messages, Ids <- MessageIds, Keys <- ClientIds
ThreadSpec == Promise!Spec

\* While a block is in force only calls that had passed authorise before it
\* still store a message, each its own: "a block closes an existing thread
\* rather than only preventing new ones" (service.go:256-258), but for the sends
\* already on their way.  The shims do not look for blocks.
BlockClosesThread ==
  [][\A c \in Calls : (CallAt(c, "touched") /\ calls'[c].step = "stored" /\ blocked)
       => calls[c].early]_messagingVars
=============================================================================
