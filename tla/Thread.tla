------------------------------- MODULE Thread -------------------------------
(***************************************************************************)
(* What a conversation promises those who write to it: a message that      *)
(* carries a client id is stored once, one request is told that it created *)
(* it, every other is told of the message that was stored then, and a      *)
(* message is announced at most once.                                      *)
(***************************************************************************)
EXTENDS Naturals

CONSTANTS Ids, Keys

VARIABLES stored,     \* the messages: [id, sender, key]
          created,    \* created[i]: how many requests were told they created i
          replayed,   \* the messages whose creation was reported as a replay
          announced   \* announced[i]: how often message.created was published

vars == <<stored, created, replayed, announced>>

Init ==
  /\ stored = {}
  /\ created = [i \in Ids |-> 0]
  /\ replayed = {}
  /\ announced = [i \in Ids |-> 0]

StoredIds == {m.id : m \in stored}

Store(m) ==
  /\ m.id \in Ids \ StoredIds
  /\ m.key \in Keys => \A n \in stored : n.sender = m.sender => n.key # m.key
  /\ stored' = stored \cup {m}
  /\ UNCHANGED <<created, replayed, announced>>

TellCreated(i) ==
  /\ i \in StoredIds
  /\ created[i] = 0
  /\ created' = [created EXCEPT ![i] = 1]
  /\ UNCHANGED <<stored, replayed, announced>>

\* Only a client id can be replayed, and the answer is the message it stored.
TellReplayed(m) ==
  /\ m \in stored
  /\ m.key \in Keys
  /\ replayed' = replayed \cup {m}
  /\ UNCHANGED <<stored, created, announced>>

Announce(i) ==
  /\ i \in StoredIds
  /\ announced[i] = 0
  /\ announced' = [announced EXCEPT ![i] = 1]
  /\ UNCHANGED <<stored, created, replayed>>

\* Which messages the step stores is read off the step itself.
Next ==
  \/ \E m \in stored' \ stored : Store(m)
  \/ \E i \in Ids : TellCreated(i) \/ Announce(i)
  \/ \E m \in stored : TellReplayed(m)

Spec == Init /\ [][Next]_vars
=============================================================================
