----------------------------- MODULE HubProofs -----------------------------
(***************************************************************************)
(* For any number of clients, rooms and failing commands: a client that is *)
(* gone is in no room, and the rooms and the subscriptions differ for the  *)
(* reasons named only.                                                     *)
(***************************************************************************)
EXTENDS Hub, TLAPS

Readers == {"off", "read", "handle", "subscribe", "undo", "unsubscribe", "reply",
            "deliver", "leave", "close", "gone"}
Nexts == {"read", "reply", "leave"}
TellingSteps == {"subscribe", "undo", "unsubscribe"}

RoomTypes ==
  /\ pubsub \in BOOLEAN
  /\ rooms \in [Rooms -> SUBSET Clients]
  /\ subscribed \subseteq Rooms
  /\ reader \in [Clients -> Readers]
  /\ conv \in [Clients -> Rooms \cup {none}]
  /\ next \in [Clients -> Nexts]
  /\ leaving \in [Clients -> SUBSET Rooms]
  /\ faults \in 0 .. MaxFaults
  /\ lost \subseteq Rooms
  /\ stray \subseteq Rooms

SocketTypes ==
  /\ writer \in [Clients -> BOOLEAN]
  /\ buffer \in [Clients -> 0 .. Buffer]
  /\ closed \in [Clients -> BOOLEAN]
  /\ targets \in [Goroutines -> SUBSET Clients]
  /\ panicked \in Goroutines \cup {none}

\* Where a client stands to the rooms: with a command for Redis it has a
\* conversation, which it is still in before it has left; once its socket has
\* failed it is in those only that are left to leave.
StandsRight(c) ==
  /\ reader[c] \in TellingSteps => conv[c] \in Rooms /\ pubsub
  /\ reader[c] \in {"subscribe", "undo"} => c \in rooms[conv[c]]
  /\ (reader[c] = "leave" \/ (reader[c] = "unsubscribe" /\ next[c] = "leave")) =>
       \A r \in Rooms : c \in rooms[r] => r \in leaving[c]
  /\ reader[c] \in {"gone", "off"} => \A r \in Rooms : c \notin rooms[r]

\* Somebody is about to subscribe to r.
Asking(r) == \E c \in Clients : conv[c] = r /\ reader[c] = "subscribe"

\* A watched conversation is being asked for, subscribed, or lost.
Heard(r) == rooms[r] # {} => Asking(r) \/ r \in subscribed \cup lost

RoomInv ==
  /\ RoomTypes
  /\ \A c \in Clients : StandsRight(c)
  /\ subscribed # {} => pubsub
  /\ NoStraySubscription
  /\ \A r \in Rooms : Heard(r)

HubInv == RoomInv /\ SocketTypes

-----------------------------------------------------------------------------
\* One read loop moves on.
OthersRead(c) ==
  \A d \in Clients \ {c} :
    reader'[d] = reader[d] /\ conv'[d] = conv[d] /\ next'[d] = next[d] /\ leaving'[d] = leaving[d]

\* A client that has nothing to tell Redis, and goes where it has nothing to tell.
LEMMA ReaderMoves ==
  ASSUME RoomInv, NEW c \in Clients, NEW step \in Readers \ TellingSteps,
         reader' = [reader EXCEPT ![c] = step], reader[c] \notin TellingSteps,
         UNCHANGED <<rooms, pubsub, subscribed, lost, stray>>,
         faults' \in 0 .. MaxFaults,
         conv' \in [Clients -> Rooms \cup {none}], next' \in [Clients -> Nexts],
         leaving' \in [Clients -> SUBSET Rooms],
         \A d \in Clients \ {c} :
           conv'[d] = conv[d] /\ next'[d] = next[d] /\ leaving'[d] = leaving[d],
         step = "leave" => \A r \in Rooms : c \in rooms[r] => r \in leaving'[c],
         step \in {"gone", "off"} => \A r \in Rooms : c \notin rooms[r]
  PROVE  RoomInv'
<1>1. /\ reader' \in [Clients -> Readers] /\ reader'[c] = step
      /\ \A d \in Clients \ {c} : reader'[d] = reader[d]
  BY DEF RoomInv, RoomTypes
<1>2. RoomTypes'
  BY <1>1 DEF RoomInv, RoomTypes
<1>3. ASSUME NEW d \in Clients
      PROVE  StandsRight(d)'
  <2>1. CASE d = c
    BY <1>1, <2>1 DEF StandsRight, TellingSteps
  <2>2. CASE d # c
    BY <1>1, <2>2 DEF RoomInv, StandsRight
  <2> QED BY <2>1, <2>2
<1>4. \A r \in Rooms : (Telling(r) => Telling(r)') /\ (Asking(r) => Asking(r)')
  BY <1>1 DEF Telling, Asking, TellingSteps
<1>5. NoStraySubscription'
  BY <1>2, <1>4 DEF RoomInv, NoStraySubscription, RoomTypes
<1>6. \A r \in Rooms : Heard(r)'
  BY <1>4 DEF RoomInv, Heard
<1> QED BY <1>2, <1>3, <1>5, <1>6 DEF RoomInv

\* Rooms and subscriptions are not touched.
LEMMA RoomsKept ==
  ASSUME RoomInv, UNCHANGED <<clientVars, subscribed, faults, lost, stray, rooms>>,
         pubsub' \in BOOLEAN, pubsub => pubsub'
  PROVE  RoomInv'
BY DEF RoomInv, RoomTypes, clientVars, StandsRight, NoStraySubscription, Telling, Heard, Asking

-----------------------------------------------------------------------------
\* Frames, and the beginning and the end of a connection.
LEMMA QuietInv ==
  ASSUME RoomInv, NEW c \in Clients,
         \/ Connect(c) \/ Receive(c) \/ Answer(c) \/ Reply(c)
         \/ \E r \in CanAccess[c] : Typing(c, r)
         \/ DeliverLocally(c) \/ ReadFails(c) \/ CloseAfterLeaving(c) \/ Forget(c)
  PROVE  RoomInv'
<1> USE DEF Goto, redisVars
<1>0. /\ RoomTypes /\ conv \in [Clients -> Rooms \cup {none}] /\ next \in [Clients -> Nexts]
      /\ leaving \in [Clients -> SUBSET Rooms] /\ faults \in 0 .. MaxFaults
      /\ reader \in [Clients -> Readers] /\ StandsRight(c)
  BY DEF RoomInv, RoomTypes
<1>1. CASE Connect(c)
  <2>1. "read" \in Readers \ TellingSteps /\ reader[c] \notin TellingSteps
    BY <1>1 DEF Connect, At, Readers, TellingSteps
  <2> QED BY <1>0, <1>1, <2>1, ReaderMoves DEF Connect
<1>2. CASE Receive(c)
  <2>1. "handle" \in Readers \ TellingSteps /\ reader[c] \notin TellingSteps
    BY <1>2 DEF Receive, At, Readers, TellingSteps
  <2> QED BY <1>0, <1>2, <2>1, ReaderMoves DEF Receive
<1>3. CASE Answer(c)
  <2>1. "reply" \in Readers \ TellingSteps /\ reader[c] \notin TellingSteps
    BY <1>3 DEF Answer, At, Readers, TellingSteps
  <2> QED BY <1>0, <1>3, <2>1, ReaderMoves DEF Answer
<1>4. CASE Reply(c)
  <2>1. "read" \in Readers \ TellingSteps /\ reader[c] \notin TellingSteps
    BY <1>4 DEF Reply, At, Readers, TellingSteps
  <2>2. /\ conv' \in [Clients -> Rooms \cup {none}] /\ next' \in [Clients -> Nexts]
        /\ \A d \in Clients \ {c} : conv'[d] = conv[d] /\ next'[d] = next[d]
        /\ UNCHANGED <<leaving, rooms, pubsub, subscribed, lost, stray, faults>>
        /\ reader' = [reader EXCEPT ![c] = "read"]
    BY <1>0, <1>4 DEF Reply, GoOn, Nexts
  <2> QED BY <1>0, <2>1, <2>2, ReaderMoves
<1>5. ASSUME NEW r \in CanAccess[c], Typing(c, r)
      PROVE  RoomInv'
  <2>1. PICK step \in {"read", "deliver"} : reader' = [reader EXCEPT ![c] = step]
    BY <1>5 DEF Typing
  <2>2. step \in Readers \ TellingSteps /\ reader[c] \notin TellingSteps
    BY <1>5 DEF Typing, At, Readers, TellingSteps
  <2>3. /\ faults' \in 0 .. MaxFaults
        /\ UNCHANGED <<conv, next, leaving, rooms, pubsub, subscribed, lost, stray>>
    BY <1>0, <1>5, HubAssumption DEF Typing
  <2> QED BY <1>0, <2>1, <2>2, <2>3, ReaderMoves
<1>6. CASE DeliverLocally(c)
  <2>1. CASE UNCHANGED reader
    BY <1>6, <2>1, RoomsKept DEF DeliverLocally, clientVars, RoomInv, RoomTypes
  <2>2. CASE reader' = [reader EXCEPT ![c] = "read"]
    <3>1. "read" \in Readers \ TellingSteps /\ reader[c] \notin TellingSteps
      BY <1>6 DEF DeliverLocally, At, Readers, TellingSteps
    <3> QED BY <1>0, <1>6, <2>2, <3>1, ReaderMoves DEF DeliverLocally
  <2> QED BY <1>6, <2>1, <2>2 DEF DeliverLocally
<1>7. CASE ReadFails(c)
  <2>1. "leave" \in Readers \ TellingSteps /\ reader[c] \notin TellingSteps
    BY <1>7 DEF ReadFails, At, Readers, TellingSteps
  <2>2. /\ leaving' \in [Clients -> SUBSET Rooms] /\ leaving'[c] = Watches(c)
        /\ \A d \in Clients \ {c} : leaving'[d] = leaving[d]
    BY <1>0, <1>7 DEF ReadFails, Watches
  <2> QED BY <1>0, <1>7, <2>1, <2>2, ReaderMoves DEF ReadFails, Watches
<1>8. CASE CloseAfterLeaving(c)
  <2>1. "gone" \in Readers \ TellingSteps /\ reader[c] \notin TellingSteps
    BY <1>8 DEF CloseAfterLeaving, At, Readers, TellingSteps
  <2>2. \A r \in Rooms : c \notin rooms[r]
    BY <1>0, <1>8 DEF CloseAfterLeaving, At, StandsRight
  <2> QED BY <1>0, <1>8, <2>1, <2>2, ReaderMoves DEF CloseAfterLeaving
<1>9. CASE Forget(c)
  <2>1. "off" \in Readers \ TellingSteps /\ reader[c] \notin TellingSteps
    BY <1>9 DEF Forget, At, Readers, TellingSteps
  <2>2. \A r \in Rooms : c \notin rooms[r]
    BY <1>0, <1>9 DEF Forget, At, StandsRight
  <2> QED BY <1>0, <1>9, <2>1, <2>2, ReaderMoves DEF Forget
<1> QED BY <1>1, <1>2, <1>3, <1>4, <1>5, <1>6, <1>7, <1>8, <1>9

\* The first to join asks for the subscription, or loses it.
LEMMA JoinInv ==
  ASSUME RoomInv, NEW c \in Clients, NEW r \in CanAccess[c], Join(c, r)
  PROVE  RoomInv'
<1>0. r \in Rooms /\ RoomTypes /\ reader[c] = "handle"
  BY HubAssumption DEF RoomInv, Join, At
<1>1. /\ rooms' \in [Rooms -> SUBSET Clients] /\ rooms'[r] = rooms[r] \cup {c}
      /\ \A q \in Rooms \ {r} : rooms'[q] = rooms[q]
  BY <1>0 DEF Join, RoomTypes
<1>2. UNCHANGED <<next, leaving, pubsub, subscribed, faults, stray>>
  BY DEF Join
<1>3. /\ reader' \in [Clients -> Readers] /\ conv' \in [Clients -> Rooms \cup {none}]
      /\ \A d \in Clients \ {c} : reader'[d] = reader[d] /\ conv'[d] = conv[d]
      /\ \/ First(c, r) /\ pubsub /\ reader'[c] = "subscribe" /\ conv'[c] = r
         \/ ~(First(c, r) /\ pubsub) /\ reader'[c] = "reply"
  BY <1>0 DEF Join, Goto, RoomTypes, Readers
<1>4. lost' = IF First(c, r) /\ ~pubsub THEN lost \cup {r} ELSE lost
  BY DEF Join
<1>5. RoomTypes'
  BY <1>0, <1>1, <1>2, <1>3, <1>4 DEF RoomTypes
<1>6. ASSUME NEW d \in Clients
      PROVE  StandsRight(d)'
  <2>1. CASE d = c
    BY <1>0, <1>1, <1>2, <1>3, <2>1 DEF StandsRight, TellingSteps
  <2>2. CASE d # c
    <3>1. \A q \in Rooms : d \in rooms'[q] <=> d \in rooms[q]
      BY <1>0, <1>1, <2>2
    <3>2. StandsRight(d) /\ conv[d] \in Rooms \cup {none}
      BY DEF RoomInv, RoomTypes
    <3> QED BY <1>2, <1>3, <2>2, <3>1, <3>2 DEF StandsRight, TellingSteps
  <2> QED BY <2>1, <2>2
<1>7. \A q \in Rooms : (Telling(q) => Telling(q)') /\ (Asking(q) => Asking(q)')
  BY <1>0, <1>3 DEF Telling, Asking
<1>8. NoStraySubscription'
  BY <1>0, <1>1, <1>2, <1>7 DEF RoomInv, NoStraySubscription, RoomTypes
<1>9. ASSUME NEW q \in Rooms
      PROVE  Heard(q)'
  <2>1. CASE q # r
    BY <1>1, <1>2, <1>4, <1>7, <2>1 DEF RoomInv, Heard
  <2>2. CASE q = r /\ First(c, r) /\ pubsub
    BY <1>3, <2>2 DEF Heard, Asking
  <2>3. CASE q = r /\ First(c, r) /\ ~pubsub
    BY <1>4, <2>3 DEF Heard
  <2>4. CASE q = r /\ ~First(c, r)
    BY <1>2, <1>4, <1>7, <2>4 DEF RoomInv, Heard, First
  <2> QED BY <2>1, <2>2, <2>3, <2>4
<1> QED BY <1>2, <1>5, <1>6, <1>8, <1>9 DEF RoomInv

LEMMA SubscribeInv ==
  ASSUME RoomInv, NEW c \in Clients, Subscribe(c)
  PROVE  RoomInv'
<1> DEFINE r == conv[c]
<1>0. /\ RoomTypes /\ reader[c] = "subscribe" /\ r \in Rooms /\ pubsub /\ c \in rooms[r]
      /\ StandsRight(c)
  BY DEF RoomInv, Subscribe, At, StandsRight, TellingSteps
<1>1. UNCHANGED <<rooms, pubsub, leaving>>
  BY DEF Subscribe, GoOn
<1>2. /\ reader' \in [Clients -> Readers] /\ conv' \in [Clients -> Rooms \cup {none}]
      /\ next' \in [Clients -> Nexts] /\ OthersRead(c)
      /\ reader'[c] = "reply" \/ (reader'[c] = "undo" /\ conv'[c] = r)
  BY <1>0, <1>1 DEF Subscribe, GoOn, Goto, RoomTypes, OthersRead, Readers, Nexts
<1>3. /\ subscribed \subseteq subscribed' /\ subscribed' \subseteq Rooms
      /\ lost' \subseteq Rooms /\ stray' \subseteq Rooms
      /\ r \in subscribed' \cup lost' /\ lost \subseteq lost' \cup {r}
      /\ subscribed' \subseteq subscribed \cup {r}
      /\ stray \subseteq stray' \cup {r}
      /\ faults' \in 0 .. MaxFaults
  BY <1>0, HubAssumption DEF Subscribe, RoomTypes
<1>4. RoomTypes'
  BY <1>0, <1>1, <1>2, <1>3 DEF RoomTypes
<1>5. ASSUME NEW d \in Clients
      PROVE  StandsRight(d)'
  <2>1. CASE d = c
    BY <1>0, <1>1, <1>2, <2>1 DEF StandsRight, TellingSteps
  <2>2. CASE d # c
    BY <1>1, <1>2, <2>2 DEF RoomInv, StandsRight, OthersRead
  <2> QED BY <2>1, <2>2
<1>6. \A q \in Rooms \ {r} : (Telling(q) => Telling(q)') /\ (Asking(q) => Asking(q)')
  BY <1>2 DEF Telling, Asking, OthersRead
<1>7. NoStraySubscription'
  BY <1>0, <1>1, <1>3, <1>6 DEF RoomInv, NoStraySubscription
<1>8. \A q \in Rooms : Heard(q)'
  BY <1>1, <1>3, <1>6 DEF RoomInv, Heard
<1> QED BY <1>0, <1>1, <1>4, <1>5, <1>7, <1>8 DEF RoomInv

\* Leave, of the watcher or of the end of its connection.
LEMMA LeaveThenInv ==
  ASSUME RoomInv, NEW c \in Clients, NEW r \in Rooms,
         NEW step \in {"read", "reply", "leave"}, LeaveThen(c, r, step),
         reader[c] \in {"handle", "leave"} \/ (reader[c] = "undo" /\ conv[c] = r),
         leaving' \in [Clients -> SUBSET Rooms],
         \A d \in Clients \ {c} : leaving'[d] = leaving[d],
         step = "leave" => \A q \in Rooms : c \in rooms[q] => q \in leaving'[c] \cup {r}
  PROVE  RoomInv'
<1>0. RoomTypes
  BY DEF RoomInv
<1>1. /\ rooms' \in [Rooms -> SUBSET Clients] /\ rooms'[r] = rooms[r] \ {c}
      /\ \A q \in Rooms \ {r} : rooms'[q] = rooms[q]
  BY <1>0 DEF LeaveThen, RoomTypes
<1>2. UNCHANGED <<pubsub, subscribed, faults, stray>>
  BY DEF LeaveThen
<1>3. /\ reader' \in [Clients -> Readers] /\ conv' \in [Clients -> Rooms \cup {none}]
      /\ next' \in [Clients -> Nexts] /\ OthersRead(c)
      /\ \/ /\ Empties(c, r) /\ pubsub /\ reader'[c] = "unsubscribe"
            /\ conv'[c] = r /\ next'[c] = step
         \/ ~(Empties(c, r) /\ pubsub) /\ reader'[c] = step
  BY <1>0 DEF LeaveThen, Goto, RoomTypes, OthersRead, Readers, Nexts
<1>4. lost' = IF Empties(c, r) THEN lost \ {r} ELSE lost
  BY DEF LeaveThen
<1>5. RoomTypes'
  BY <1>0, <1>1, <1>2, <1>3, <1>4 DEF RoomTypes
<1>6. ASSUME NEW d \in Clients
      PROVE  StandsRight(d)'
  <2>1. CASE d = c
    BY <1>1, <1>2, <1>3, <2>1 DEF StandsRight, TellingSteps
  <2>2. CASE d # c
    <3>1. \A q \in Rooms : d \in rooms'[q] <=> d \in rooms[q]
      BY <1>1, <2>2
    <3>2. StandsRight(d)
      BY DEF RoomInv
    <3> QED BY <1>2, <1>3, <2>2, <3>1, <3>2 DEF StandsRight, TellingSteps, OthersRead
  <2> QED BY <2>1, <2>2
<1>7. /\ \A q \in Rooms \ {r} : Telling(q) => Telling(q)'
      /\ \A q \in Rooms : Asking(q) => Asking(q)'
  BY <1>3 DEF Telling, Asking, OthersRead
<1>8. ASSUME r \in subscribed, rooms'[r] = {}
      PROVE  Telling(r)' \/ r \in stray
  <2>1. pubsub
    BY <1>8 DEF RoomInv
  <2>2. CASE c \in rooms[r]
    <3>1. Empties(c, r)
      BY <1>1, <1>8, <2>2 DEF Empties
    <3> QED BY <1>3, <2>1, <3>1 DEF Telling
  <2>3. CASE c \notin rooms[r]
    <3>1. rooms[r] = {} /\ reader[c] \notin TellingSteps
      BY <1>1, <1>8, <2>3 DEF RoomInv, StandsRight, TellingSteps
    <3>2. Telling(r) => Telling(r)'
      BY <1>3, <3>1 DEF Telling, OthersRead, TellingSteps
    <3> QED BY <1>8, <3>1, <3>2 DEF RoomInv, NoStraySubscription
  <2> QED BY <2>2, <2>3
<1>9. NoStraySubscription'
  BY <1>0, <1>1, <1>2, <1>7, <1>8 DEF RoomInv, NoStraySubscription, RoomTypes
<1>10. ASSUME NEW q \in Rooms
       PROVE  Heard(q)'
  <2>1. CASE q # r
    BY <1>1, <1>2, <1>4, <1>7, <2>1 DEF RoomInv, Heard
  <2>2. CASE q = r /\ Empties(c, r)
    BY <1>1, <2>2 DEF Heard, Empties
  <2>3. CASE q = r /\ ~Empties(c, r)
    BY <1>1, <1>2, <1>4, <1>7, <2>3 DEF RoomInv, Heard
  <2> QED BY <2>1, <2>2, <2>3
<1> QED BY <1>2, <1>5, <1>6, <1>9, <1>10 DEF RoomInv

LEMMA LeavesInv ==
  ASSUME RoomInv, NEW c \in Clients,
         Undo(c) \/ LeaveNext(c) \/ \E r \in Rooms : Leave(c, r)
  PROVE  RoomInv'
<1>0. RoomTypes /\ StandsRight(c) /\ leaving \in [Clients -> SUBSET Rooms]
  BY DEF RoomInv, RoomTypes
<1>1. CASE Undo(c)
  <2>1. reader[c] = "undo" /\ conv[c] \in Rooms /\ LeaveThen(c, conv[c], "reply")
        /\ UNCHANGED leaving
    BY <1>0, <1>1 DEF Undo, At, StandsRight, TellingSteps
  <2> QED BY <1>0, <2>1, LeaveThenInv
<1>2. CASE \E r \in Rooms : Leave(c, r)
  <2>1. PICK r \in Rooms : Leave(c, r)
    BY <1>2
  <2>2. reader[c] = "handle" /\ LeaveThen(c, r, "read") /\ UNCHANGED leaving
    BY <2>1 DEF Leave, At
  <2> QED BY <1>0, <2>2, LeaveThenInv
<1>3. CASE LeaveNext(c)
  <2>1. PICK r \in leaving[c] : leaving' = [leaving EXCEPT ![c] = @ \ {r}] /\ LeaveThen(c, r, "leave")
    BY <1>3 DEF LeaveNext
  <2>2. /\ r \in Rooms /\ leaving' \in [Clients -> SUBSET Rooms]
        /\ leaving'[c] = leaving[c] \ {r}
        /\ \A d \in Clients \ {c} : leaving'[d] = leaving[d]
    BY <1>0, <2>1
  <2>3. reader[c] = "leave" /\ \A q \in Rooms : c \in rooms[q] => q \in leaving'[c] \cup {r}
    BY <1>0, <1>3, <2>2 DEF LeaveNext, At, StandsRight
  <2> QED BY <2>1, <2>2, <2>3, LeaveThenInv
<1> QED BY <1>1, <1>2, <1>3

LEMMA UnsubscribeInv ==
  ASSUME RoomInv, NEW c \in Clients, Unsubscribe(c)
  PROVE  RoomInv'
<1> DEFINE r == conv[c]
<1>0. /\ RoomTypes /\ reader[c] = "unsubscribe" /\ r \in Rooms /\ pubsub
      /\ StandsRight(c) /\ next[c] \in Nexts
  BY DEF RoomInv, Unsubscribe, At, StandsRight, TellingSteps, RoomTypes
<1>1. UNCHANGED <<rooms, pubsub, leaving>>
  BY DEF Unsubscribe, GoOn
<1>2. /\ reader' \in [Clients -> Readers] /\ conv' \in [Clients -> Rooms \cup {none}]
      /\ next' \in [Clients -> Nexts] /\ OthersRead(c) /\ reader'[c] = next[c]
  BY <1>0, <1>1 DEF Unsubscribe, GoOn, Goto, RoomTypes, OthersRead, Readers, Nexts
<1>3. /\ subscribed' \subseteq subscribed /\ subscribed \subseteq subscribed' \cup {r}
      /\ lost' \subseteq Rooms /\ lost \subseteq lost'
      /\ stray' \subseteq Rooms /\ stray \subseteq stray' \cup {r}
      /\ r \in subscribed' => r \in stray' /\ r \in subscribed
      /\ rooms[r] # {} /\ r \in subscribed => r \in subscribed' \cup lost'
      /\ faults' \in 0 .. MaxFaults
  BY <1>0, HubAssumption DEF Unsubscribe, RoomTypes
<1>4. RoomTypes'
  BY <1>0, <1>1, <1>2, <1>3 DEF RoomTypes
<1>5. ASSUME NEW d \in Clients
      PROVE  StandsRight(d)'
  <2>1. CASE d = c
    BY <1>0, <1>1, <1>2, <2>1 DEF StandsRight, TellingSteps, Nexts
  <2>2. CASE d # c
    BY <1>1, <1>2, <2>2 DEF RoomInv, StandsRight, OthersRead
  <2> QED BY <2>1, <2>2
<1>6. /\ \A q \in Rooms \ {r} : Telling(q) => Telling(q)'
      /\ \A q \in Rooms : Asking(q) => Asking(q)'
  BY <1>0, <1>2 DEF Telling, Asking, OthersRead
<1>7. NoStraySubscription'
  BY <1>0, <1>1, <1>3, <1>6 DEF RoomInv, NoStraySubscription, RoomTypes
<1>8. \A q \in Rooms : Heard(q)'
  BY <1>1, <1>3, <1>6 DEF RoomInv, Heard
<1> QED BY <1>0, <1>1, <1>4, <1>5, <1>7, <1>8 DEF RoomInv

-----------------------------------------------------------------------------
LEMMA RoomNextInv ==
  ASSUME RoomInv, [Next]_vars
  PROVE  RoomInv'
<1>1. CASE UNCHANGED vars
  BY <1>1, RoomsKept DEF vars, redisVars, RoomInv, RoomTypes
<1>2. CASE Run \/ Deliver \/ (\E r \in Rooms : Relay(r))
  BY <1>2, RoomsKept DEF Run, Deliver, Relay, redisVars, RoomInv, RoomTypes
<1>3. CASE \E c \in Clients : Write(c) \/ WriterStops(c)
  BY <1>3, RoomsKept DEF Write, WriterStops, redisVars, RoomInv, RoomTypes
<1>4. CASE \E c \in Clients : Connect(c) \/ ReadLoop(c) \/ Forget(c)
  BY <1>4, QuietInv, JoinInv, SubscribeInv, LeavesInv, UnsubscribeInv DEF ReadLoop, Frame
<1> QED BY <1>1, <1>2, <1>3, <1>4 DEF Next

\* What an enqueue does to the channels.
LEMMA EnqueueTypes ==
  ASSUME SocketTypes, NEW g \in Goroutines, NEW c \in Clients, Enqueue(g, c)
  PROVE  buffer' \in [Clients -> 0 .. Buffer] /\ panicked' \in Goroutines \cup {none}
<1>1. buffer[c] \in 0 .. Buffer
  BY DEF SocketTypes
<1>2. HasRoom(c) => buffer[c] + 1 \in 0 .. Buffer
  BY <1>1, HubAssumption DEF HasRoom
<1> QED BY <1>2 DEF SocketTypes, Enqueue

LEMMA DeliverTypes ==
  ASSUME SocketTypes, NEW g \in Goroutines, NEW c \in targets[g], DeliverTo(g, c)
  PROVE  SocketTypes'
<1>1. c \in Clients
  BY DEF SocketTypes
<1>2. buffer' \in [Clients -> 0 .. Buffer] /\ panicked' \in Goroutines \cup {none}
  BY <1>1, EnqueueTypes DEF DeliverTo
<1> QED BY <1>1, <1>2 DEF DeliverTo, Close, SocketTypes

LEMMA SocketNextTypes ==
  ASSUME RoomInv, SocketTypes, [Next]_vars
  PROVE  SocketTypes'
<1>0. hub \in Goroutines /\ Clients \subseteq Goroutines /\ rooms \in [Rooms -> SUBSET Clients]
      /\ \A c \in Clients : CanAccess[c] \subseteq Rooms
  BY HubAssumption DEF Goroutines, RoomInv, RoomTypes
<1>1. CASE UNCHANGED <<socketVars, targets>>
  BY <1>1 DEF SocketTypes, socketVars
<1>2. CASE UNCHANGED vars
  BY <1>1, <1>2 DEF vars
<1>3. CASE Deliver
  BY <1>0, <1>3, DeliverTypes DEF Deliver
<1>4. CASE \E r \in Rooms : Relay(r)
  BY <1>0, <1>4 DEF Relay, SocketTypes, socketVars
<1>5. ASSUME NEW c \in Clients, Connect(c)
      PROVE  SocketTypes'
  <2>1. 1 \in 0 .. Buffer
    BY HubAssumption
  <2> QED BY <1>5, <2>1 DEF Connect, SocketTypes
<1>6. ASSUME NEW c \in Clients, Reply(c)
      PROVE  SocketTypes'
  BY <1>0, <1>6, EnqueueTypes DEF Reply, SocketTypes
<1>7. ASSUME NEW c \in Clients, NEW r \in CanAccess[c], Typing(c, r)
      PROVE  SocketTypes'
  <2>1. rooms[r] \in SUBSET Clients /\ c \in Goroutines
    BY <1>0
  <2> QED BY <1>7, <2>1 DEF Typing, SocketTypes, socketVars
<1>8. ASSUME NEW c \in Clients, DeliverLocally(c)
      PROVE  SocketTypes'
  BY <1>0, <1>1, <1>8, DeliverTypes DEF DeliverLocally
<1>9. ASSUME NEW c \in Clients, CloseAfterLeaving(c)
      PROVE  SocketTypes'
  BY <1>9 DEF CloseAfterLeaving, Close, SocketTypes
<1>10. ASSUME NEW c \in Clients, Write(c)
       PROVE  SocketTypes'
  <2>1. buffer[c] \in 0 .. Buffer /\ buffer[c] > 0
    BY <1>10 DEF Write, SocketTypes
  <2>2. buffer[c] - 1 \in 0 .. Buffer
    BY <2>1, HubAssumption
  <2> QED BY <1>10, <2>2 DEF Write, SocketTypes
<1>11. ASSUME NEW c \in Clients, WriterStops(c)
       PROVE  SocketTypes'
  <2>1. 0 \in 0 .. Buffer
    BY HubAssumption
  <2> QED BY <1>11, <2>1 DEF WriterStops, Close, SocketTypes
<1>12. ASSUME NEW c \in Clients,
              \/ Receive(c) \/ Answer(c) \/ (\E r \in CanAccess[c] : Join(c, r))
              \/ (\E r \in Rooms : Leave(c, r)) \/ Subscribe(c) \/ Undo(c) \/ Unsubscribe(c)
              \/ ReadFails(c) \/ LeaveNext(c) \/ Forget(c)
       PROVE  UNCHANGED <<socketVars, targets>>
  BY <1>12 DEF Receive, Answer, Join, Leave, LeaveThen, Subscribe, Undo, Unsubscribe,
     ReadFails, LeaveNext, Forget
<1>13. CASE Run
  BY <1>1, <1>13 DEF Run
<1>14. ASSUME NEW c \in Clients, ReadLoop(c)
       PROVE  SocketTypes'
  BY <1>1, <1>6, <1>7, <1>8, <1>9, <1>12, <1>14 DEF ReadLoop, Frame
<1> QED BY <1>1, <1>2, <1>3, <1>4, <1>5, <1>10, <1>11, <1>12, <1>13, <1>14 DEF Next

-----------------------------------------------------------------------------
LEMMA HubInitInv == Init => HubInv
<1> SUFFICES ASSUME Init PROVE HubInv
  OBVIOUS
<1>1. RoomTypes
  <2>1. 0 \in 0 .. MaxFaults
    BY HubAssumption
  <2>2. pubsub \in BOOLEAN
    BY Zenon DEF Init
  <2>3. /\ rooms \in [Rooms -> SUBSET Clients]
        /\ subscribed \subseteq Rooms
        /\ leaving \in [Clients -> SUBSET Rooms]
    BY DEF Init
  <2>4. /\ reader \in [Clients -> Readers]
        /\ conv \in [Clients -> Rooms \cup {none}]
        /\ next \in [Clients -> Nexts]
    BY DEF Init, Readers, Nexts
  <2> QED BY <2>1, <2>2, <2>3, <2>4 DEF Init, RoomTypes
<1>2. SocketTypes
  BY HubAssumption DEF Init, SocketTypes
<1>3. \A c \in Clients : StandsRight(c)
  BY DEF Init, StandsRight, TellingSteps
<1>4. NoStraySubscription /\ (\A r \in Rooms : Heard(r)) /\ subscribed = {}
  BY DEF Init, NoStraySubscription, Heard
<1> QED BY <1>1, <1>2, <1>3, <1>4 DEF HubInv, RoomInv

LEMMA HubNextInv == HubInv /\ [Next]_vars => HubInv'
BY RoomNextInv, SocketNextTypes DEF HubInv

\* The inductive invariant of the hub.
THEOREM HubSpecInv == Spec => []HubInv
BY HubInitInv, HubNextInv, PTL DEF Spec

\* Every variable keeps its type; no channel holds more than its buffer.
THEOREM HubSpecTypeOK == Spec => []TypeOK
<1>1. HubInv => TypeOK
  BY DEF HubInv, RoomInv, RoomTypes, SocketTypes, TypeOK, Readers, Nexts
<1> QED BY <1>1, HubSpecInv, PTL

\* A channel without a watcher is about to be dropped, or Redis refused to
\* (hub.go:89-110).
THEOREM SpecNoStraySubscription == Spec => []NoStraySubscription
<1>1. HubInv => NoStraySubscription
  BY DEF HubInv, RoomInv
<1> QED BY <1>1, HubSpecInv, PTL

\* A client whose read loop has ended is in no room (hub.go:112-125,
\* client.go:44-47).
THEOREM SpecGoneClientsWatchNothing == Spec => []GoneClientsWatchNothing
<1>1. HubInv => GoneClientsWatchNothing
  BY DEF HubInv, RoomInv, StandsRight, GoneClientsWatchNothing
<1> QED BY <1>1, HubSpecInv, PTL

\* A watched conversation goes unheard only when it was lost (hub.go:67-110).
THEOREM SpecUnheardOnlyWhenLost == Spec => []UnheardOnlyWhenLost
<1>1. HubInv => UnheardOnlyWhenLost
  BY DEF HubInv, RoomInv, Heard, Asking, Telling, UnheardOnlyWhenLost
<1> QED BY <1>1, HubSpecInv, PTL
=============================================================================
