-------------------------------- MODULE Hub ---------------------------------
(***************************************************************************)
(* internal/realtime: the hub of one replica, with Redis configured.       *)
(*                                                                         *)
(* A client is one websocket.  Its read loop handles frames one at a time, *)
(* joins and leaves conversations, and leaves them all when the socket     *)
(* fails; its write loop empties the send channel; the hub's own goroutine *)
(* relays what Redis delivers.  Rooms are changed under the hub's mutex    *)
(* and Redis is told after the mutex is released.  Close (sync.Once over   *)
(* close(send) and conn.Close) may be called by any of them, and a send on *)
(* a closed channel is a panic no goroutine here recovers from: the whole  *)
(* process ends.                                                           *)
(***************************************************************************)
EXTENDS Naturals, FiniteSets

CONSTANTS Clients, Rooms,
          CanAccess,    \* CanAccess[c]: the conversations c may watch
          Buffer,       \* sendBuffer
          EarlyJoins,   \* a client may join before Run has made the pubsub
          MaxFaults,    \* bound: failing Redis commands
          hub, none

ASSUME HubAssumption ==
  /\ CanAccess \in [Clients -> SUBSET Rooms]
  /\ Buffer \in Nat \ {0}
  /\ EarlyJoins \in BOOLEAN
  /\ MaxFaults \in Nat
  /\ hub \notin Clients /\ none \notin Clients \cup Rooms /\ hub # none

Goroutines == Clients \cup {hub}

VARIABLES pubsub,      \* Run has created the subscription object
          rooms,       \* Hub.rooms: who watches a conversation
          subscribed,  \* the channels Redis delivers to this process
          reader,      \* reader[c]: where the read loop of c is ..
          conv,        \* .. with the conversation of its frame
          next,        \* .. and what it goes on with after leaving it
          leaving,     \* leaveAll: the conversations left to leave
          writer,      \* the write loop of c is running
          buffer,      \* frames in the send channel of c
          closed,      \* close() of c has been called
          targets,     \* deliver: the clients left to enqueue to
          panicked,    \* the goroutine that has ended the process
          faults,
          lost,        \* history: how a watched conversation goes unheard
          stray        \* history: conversations whose Unsubscribe failed

clientVars == <<reader, conv, next, leaving>>
socketVars == <<writer, buffer, closed, panicked>>
redisVars == <<pubsub, subscribed, faults, lost, stray>>
vars == <<clientVars, socketVars, redisVars, rooms, targets>>

TypeOK ==
  /\ pubsub \in BOOLEAN
  /\ rooms \in [Rooms -> SUBSET Clients]
  /\ subscribed \subseteq Rooms
  /\ reader \in [Clients -> {"off", "read", "handle", "subscribe", "undo",
                            "unsubscribe", "reply", "deliver", "leave",
                            "close", "gone"}]
  /\ conv \in [Clients -> Rooms \cup {none}]
  /\ next \in [Clients -> {"read", "reply", "leave"}]
  /\ leaving \in [Clients -> SUBSET Rooms]
  /\ writer \in [Clients -> BOOLEAN]
  /\ buffer \in [Clients -> 0 .. Buffer]
  /\ closed \in [Clients -> BOOLEAN]
  /\ targets \in [Goroutines -> SUBSET Clients]
  /\ panicked \in Goroutines \cup {none}
  /\ faults \in 0 .. MaxFaults
  /\ lost \subseteq Rooms
  /\ stray \subseteq Rooms

Init ==
  /\ pubsub = FALSE
  /\ rooms = [r \in Rooms |-> {}]
  /\ subscribed = {}
  /\ reader = [c \in Clients |-> "off"]
  /\ conv = [c \in Clients |-> none]
  /\ next = [c \in Clients |-> "read"]
  /\ leaving = [c \in Clients |-> {}]
  /\ writer = [c \in Clients |-> FALSE]
  /\ buffer = [c \in Clients |-> 0]
  /\ closed = [c \in Clients |-> FALSE]
  /\ targets = [g \in Goroutines |-> {}]
  /\ panicked = none
  /\ faults = 0
  /\ lost = {}
  /\ stray = {}

-----------------------------------------------------------------------------
\* Nothing happens after a panic.
Up == panicked = none

At(c, step) == Up /\ reader[c] = step

(* The send channel. *)

\* Fault: one frame too many.
HasRoomOffByOne(c) == buffer[c] <= Buffer

HasRoom(c) == buffer[c] < Buffer

\* The select with a default: a full channel takes nothing, a closed one panics.
Enqueue(g, c) ==
  IF closed[c]
  THEN panicked' = g /\ UNCHANGED buffer
  ELSE /\ buffer' = IF HasRoom(c) THEN [buffer EXCEPT ![c] = @ + 1] ELSE buffer
       /\ UNCHANGED panicked

Close(c) == closed' = [closed EXCEPT ![c] = TRUE]

\* One target of deliver, which closes a client that is too slow.
DeliverTo(g, c) ==
  /\ c \in targets[g]
  /\ targets' = [targets EXCEPT ![g] = @ \ {c}]
  /\ Enqueue(g, c)
  /\ IF closed[c] \/ HasRoom(c) THEN UNCHANGED closed ELSE Close(c)
  /\ UNCHANGED writer

-----------------------------------------------------------------------------
(* The read loop. *)

Goto(c, step) == reader' = [reader EXCEPT ![c] = step]

\* The end of a frame, or of a step of leaveAll.
GoOn(c, step) ==
  /\ Goto(c, step)
  /\ conv' = [conv EXCEPT ![c] = none]
  /\ next' = [next EXCEPT ![c] = "read"]
  /\ UNCHANGED leaving

Connect(c) ==
  /\ At(c, "off")
  /\ EarlyJoins \/ pubsub
  /\ Goto(c, "read")
  /\ writer' = [writer EXCEPT ![c] = TRUE]
  /\ buffer' = [buffer EXCEPT ![c] = 1]
  /\ closed' = [closed EXCEPT ![c] = FALSE]
  /\ UNCHANGED <<conv, next, leaving, panicked, redisVars, rooms, targets>>

\* Fault: close() leaves the connection open.
CanReadAnyhow(c) == TRUE

CanRead(c) == ~closed[c]

Receive(c) ==
  /\ At(c, "read")
  /\ CanRead(c)
  /\ Goto(c, "handle")
  /\ UNCHANGED <<conv, next, leaving, socketVars, redisVars, rooms, targets>>

\* A frame answered with one frame: ping, message.send, whatever is refused.
Answer(c) ==
  /\ At(c, "handle")
  /\ Goto(c, "reply")
  /\ UNCHANGED <<conv, next, leaving, socketVars, redisVars, rooms, targets>>

Reply(c) ==
  /\ At(c, "reply")
  /\ Enqueue(c, c)
  /\ GoOn(c, "read")
  /\ UNCHANGED <<writer, closed, redisVars, rooms, targets>>

\* A typing frame: published, or delivered to local clients when that fails.
Typing(c, r) ==
  /\ At(c, "handle")
  /\ \/ Goto(c, "read") /\ UNCHANGED <<targets, faults>>
     \/ /\ faults < MaxFaults /\ faults' = faults + 1
        /\ Goto(c, "deliver")
        /\ targets' = [targets EXCEPT ![c] = rooms[r]]
  /\ UNCHANGED <<conv, next, leaving, socketVars, pubsub, subscribed, lost, stray, rooms>>

DeliverLocally(c) ==
  /\ At(c, "deliver")
  /\ IF targets[c] = {}
     THEN Goto(c, "read") /\ UNCHANGED <<socketVars, targets>>
     ELSE (\E d \in targets[c] : DeliverTo(c, d)) /\ UNCHANGED reader
  /\ UNCHANGED <<conv, next, leaving, redisVars, rooms>>

-----------------------------------------------------------------------------
(* Join and Leave. *)

\* Fault: first is computed after the client has been added.
FirstOfMany(c, r) == rooms[r] # {}

First(c, r) == rooms[r] = {}

Join(c, r) ==
  /\ At(c, "handle")
  /\ rooms' = [rooms EXCEPT ![r] = @ \cup {c}]
  /\ IF First(c, r) /\ pubsub
     THEN Goto(c, "subscribe") /\ conv' = [conv EXCEPT ![c] = r]
     ELSE Goto(c, "reply") /\ UNCHANGED conv
  /\ lost' = IF First(c, r) /\ ~pubsub THEN lost \cup {r} ELSE lost
  /\ UNCHANGED <<next, leaving, socketVars, pubsub, subscribed, faults, stray, targets>>

\* A failing command may have reached Redis all the same.
Subscribe(c) ==
  /\ At(c, "subscribe")
  /\ \/ /\ subscribed' = subscribed \cup {conv[c]}
        /\ lost' = lost \ {conv[c]}
        /\ stray' = stray \ {conv[c]}
        /\ GoOn(c, "reply")
        /\ UNCHANGED faults
     \/ /\ faults < MaxFaults /\ faults' = faults + 1
        /\ subscribed' \in {subscribed, subscribed \cup {conv[c]}}
        /\ lost' = lost \cup {conv[c]}
        /\ Goto(c, "undo")
        /\ UNCHANGED <<conv, next, leaving, stray>>
  /\ UNCHANGED <<socketVars, pubsub, rooms, targets>>

\* Fault: the room is looked at before the client is taken out of it.
EmptyAlready(c, r) == rooms[r] = {}

Empties(c, r) == c \in rooms[r] /\ rooms[r] = {c}

\* The part of Leave under the mutex; then Redis is told, or the loop goes on.
LeaveThen(c, r, step) ==
  /\ rooms' = [rooms EXCEPT ![r] = @ \ {c}]
  /\ IF Empties(c, r) /\ pubsub
     THEN /\ Goto(c, "unsubscribe")
          /\ conv' = [conv EXCEPT ![c] = r]
          /\ next' = [next EXCEPT ![c] = step]
     ELSE /\ Goto(c, step)
          /\ conv' = [conv EXCEPT ![c] = none]
          /\ UNCHANGED next
  /\ lost' = IF Empties(c, r) THEN lost \ {r} ELSE lost
  /\ UNCHANGED <<socketVars, pubsub, subscribed, faults, stray, targets>>

Undo(c) == At(c, "undo") /\ LeaveThen(c, conv[c], "reply") /\ UNCHANGED leaving

Leave(c, r) == At(c, "handle") /\ LeaveThen(c, r, "read") /\ UNCHANGED leaving

Unsubscribe(c) ==
  /\ At(c, "unsubscribe")
  /\ GoOn(c, next[c])
  /\ \/ /\ subscribed' = subscribed \ {conv[c]}
        /\ lost' = IF rooms[conv[c]] = {} THEN lost ELSE lost \cup {conv[c]}
        /\ stray' = stray \ {conv[c]}
        /\ UNCHANGED faults
     \/ /\ faults < MaxFaults /\ faults' = faults + 1
        /\ stray' = stray \cup {conv[c]}
        /\ UNCHANGED <<subscribed, lost>>
  /\ UNCHANGED <<socketVars, pubsub, rooms, targets>>

-----------------------------------------------------------------------------
(* The end of a client. *)

\* Fault: only one of the conversations is left.
WatchesOne(c) ==
  LET all == {r \in Rooms : c \in rooms[r]}
  IN  IF all = {} THEN {} ELSE {CHOOSE r \in all : TRUE}

Watches(c) == {r \in Rooms : c \in rooms[r]}

\* ReadMessage fails: the peer is gone or silent, or the socket was closed.
ReadFails(c) ==
  /\ At(c, "read")
  /\ Goto(c, "leave")
  /\ leaving' = [leaving EXCEPT ![c] = Watches(c)]
  /\ UNCHANGED <<conv, next, socketVars, redisVars, rooms, targets>>

LeaveNext(c) ==
  /\ At(c, "leave")
  /\ \E r \in leaving[c] :
       /\ leaving' = [leaving EXCEPT ![c] = @ \ {r}]
       /\ LeaveThen(c, r, "leave")

CloseAfterLeaving(c) ==
  /\ At(c, "leave")
  /\ leaving[c] = {}
  /\ Close(c)
  /\ Goto(c, "gone")
  /\ UNCHANGED <<conv, next, leaving, writer, buffer, panicked, redisVars, rooms, targets>>

\* The name of a client nobody holds any more is free for another connection.
Forget(c) ==
  /\ At(c, "gone")
  /\ ~writer[c]
  /\ \A g \in Goroutines : c \notin targets[g]
  /\ Goto(c, "off")
  /\ UNCHANGED <<conv, next, leaving, socketVars, redisVars, rooms, targets>>

-----------------------------------------------------------------------------
(* The write loop and the hub. *)

Write(c) ==
  /\ Up
  /\ writer[c]
  /\ buffer[c] > 0
  /\ buffer' = [buffer EXCEPT ![c] = @ - 1]
  /\ UNCHANGED <<clientVars, writer, closed, panicked, redisVars, rooms, targets>>

\* A write or a ping fails, or the closed channel has been emptied; what is left
\* in the channel is never sent.
WriterStops(c) ==
  /\ Up
  /\ writer[c]
  /\ writer' = [writer EXCEPT ![c] = FALSE]
  /\ buffer' = [buffer EXCEPT ![c] = 0]
  /\ Close(c)
  /\ UNCHANGED <<clientVars, panicked, redisVars, rooms, targets>>

Run ==
  /\ Up
  /\ ~pubsub
  /\ pubsub' = TRUE
  /\ UNCHANGED <<clientVars, socketVars, subscribed, faults, lost, stray, rooms, targets>>

\* Some replica has published to a channel this process is subscribed to.
Relay(r) ==
  /\ Up
  /\ pubsub
  /\ r \in subscribed
  /\ targets[hub] = {}
  /\ targets' = [targets EXCEPT ![hub] = rooms[r]]
  /\ UNCHANGED <<clientVars, socketVars, redisVars, rooms>>

Deliver ==
  /\ Up
  /\ \E c \in targets[hub] : DeliverTo(hub, c)
  /\ UNCHANGED <<clientVars, redisVars, rooms>>

-----------------------------------------------------------------------------
Frame(c) ==
  \/ Answer(c)
  \/ \E r \in CanAccess[c] : Typing(c, r) \/ Join(c, r)
  \/ \E r \in Rooms : Leave(c, r)

ReadLoop(c) ==
  \/ Receive(c) \/ Frame(c) \/ Reply(c) \/ DeliverLocally(c)
  \/ Subscribe(c) \/ Undo(c) \/ Unsubscribe(c)
  \/ ReadFails(c) \/ LeaveNext(c) \/ CloseAfterLeaving(c)

Next ==
  \/ Run \/ Deliver
  \/ \E r \in Rooms : Relay(r)
  \/ \E c \in Clients :
       Connect(c) \/ ReadLoop(c) \/ Write(c) \/ WriterStops(c) \/ Forget(c)

Spec == Init /\ [][Next]_vars

\* The read loop of every client is a goroutine that keeps running: Redis
\* commands and reads of a closed socket return.
FairSpec == Spec /\ \A c \in Clients : WF_vars(ReadLoop(c))

-----------------------------------------------------------------------------
\* Somebody is about to tell Redis about r.
Telling(r) == \E c \in Clients :
  conv[c] = r /\ reader[c] \in {"subscribe", "undo", "unsubscribe"}

\* A channel nobody watches any more is not kept: it is still subscribed only
\* while its last watcher is about to drop it, or where Redis refused to
\* (hub.go:89-110).
NoStraySubscription ==
  \A r \in subscribed : rooms[r] = {} => Telling(r) \/ r \in stray

\* A client whose read loop has ended is in no room, whatever it was doing and
\* whoever closed it: leaveAll misses nothing that was joined (hub.go:112-125,
\* client.go:44-47).
GoneClientsWatchNothing ==
  \A c \in Clients : reader[c] \in {"gone", "off"} => \A r \in Rooms : c \notin rooms[r]

\* A watched conversation goes unheard for three reasons only: it was joined
\* before Run, its Subscribe failed, or the Unsubscribe of an earlier watcher
\* came after it (hub.go:67-110).
UnheardOnlyWhenLost ==
  \A r \in Rooms :
    rooms[r] # {} /\ ~Telling(r) => r \in subscribed \cup lost

\* A client that has been closed, by the hub for being slow or by its writer,
\* leaves every room in the end, so that a dead socket does not stay a target
\* (hub.go:127-144, client.go:43-47).
ClosedClientsLeave ==
  \A c \in Clients :
    closed[c] ~> (~Up \/ \A r \in Rooms : c \notin rooms[r])

\* What hub.go:13-15 says of the hub: the set of watched conversations is
\* mirrored onto Redis subscriptions.
WatchersAreSubscribed ==
  \A r \in Rooms : rooms[r] # {} /\ ~Telling(r) => r \in subscribed

\* What hub.go:127-128 says of deliver: a slow client is disconnected rather
\* than allowed to block the hub; disconnecting it must not end the hub either.
SlowClientsDoNotStopTheHub == panicked # hub
=============================================================================
