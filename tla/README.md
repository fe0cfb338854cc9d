# A TLA+ development of the dating platform's back end

The repository is a Go back end (`src/backend`) with a React front end
(`src/frontend`). The back end keeps its truth in Postgres, uses Redis for
streams, pub/sub, counters and caches, runs as several API replicas
(`cmd/server`) and a worker (`cmd/worker`), and is written by several owners
who meet at events and tables. What is hard about it is what happens *between*
statements: requests that interleave, processes that die between two writes,
deliveries that are repeated. Those are what this directory models.

Contents: [inventory](#1-inventory), [modules](#2-modules),
[runs](#3-runs-and-what-they-show), [fairness](#4-fairness),
[proofs](#5-proofs), [findings](#6-findings), [what is not
modelled](#7-what-is-not-modelled), [plan](#8-plan).

Paths below are relative to `src/backend/internal` unless they say otherwise.

## 1. Inventory

| Component | State it keeps | Operations | Interacts with | What is hard | What makes it correct |
|---|---|---|---|---|---|
| matching (`matching/`) | `swipes`, `matches`, `blocks`, `reports` | Swipe, Block, Unblock, Report, feeds | writes `outbox_events` in its transactions; messaging reads matches and blocks | two likes at once; retries after an unknown commit; blocks that commit in between | a match exactly for mutual likes, one event per match, decisions never flip |
| auth (`auth/`) | `users.password_hash`, `auth_sessions`, reset and verification tokens | Register, Login, Refresh, Logout, Forgot, Reset, verify, sweep | outbox for mails | rotation against replay, reset against refresh and sign-in, lock order | a token is redeemed once, a closed session stays closed, a reset signs everybody out |
| outbox (`outbox/`) | `outbox_events`; claimed batch in memory | Enqueue, claim, publish, mark, fail | matching and auth write it; publishes to the queue | several drainers, leases that run out, crash between publish and mark | published only if delivered, never forgotten |
| queue (`platform/queue`) | Redis stream, group, dedupe keys, attempt counters, dead letters | Publish, read, reclaim, process, dead-letter, ack | outbox and services publish, worker consumes | reclaim while the first worker is still busy, failing commands | nothing leaves unhandled, everything leaves |
| notifications (`notifications/`) | `notifications` rows, cached unread count | handlers of events; inbox API | consumes the queue, pushes to devices | redelivery in the middle of a fan-out | one row and one push per recipient and event |
| realtime (`realtime/`) | rooms, send channels, Redis subscriptions | connect, subscribe, unsubscribe, send, typing, deliver | messaging publishes frames; Redis pub/sub between replicas | three goroutines per socket plus the hub; Redis told outside the mutex | watched conversations are subscribed, dead clients leave |
| messaging (`messaging/`, shims in `handlers/`, `repository/`) | `conversations`, `messages`, `conversation_reads` | open, send, list, mark read | gate on matches and blocks; queue; realtime | authorise-then-insert, clocks, best-effort events | a retried send is stored once, a block closes the thread |
| media (`media/`) | `media_assets`, objects in storage | presign, complete, process, delete | queue both ways; profile gallery | duplicate complete, crash between mark and publish | what is ready is in the bucket, nothing is stuck unless something was lost |
| personality (`personality/`, `cache/`, `domain/traits.go`) | assessments, cached trait vectors | Submit, Traits, Score, Compatibility | discovery reads the cache | read-through against invalidation | no old vector after a retake, sound scores, spaced retakes |
| profile, preferences | the caller's row | read, update | discovery, media | two transactions of one form, two definitions of a finished form, constraints behind the validation | the three photo columns agree, nothing valid is refused by the table |
| rate limiting (`platform/ratelimit`, `platform/middleware`) | Redis counters with a time to live | count, decide | in front of every handler | INCR and EXPIRE are two commands, Redis may not answer | a window's bound, no counter without an end |
| migrations (`migrate/`) | ledger, advisory lock | boot, apply | every replica that boots | the lock belongs to one connection of a pool | every file once, in order |
| other platform (`app`, `router`, `httpx`, `config`, `db`) | – | plumbing | all | – | – |
| seed, front end, deployment | – | – | – | – | – |

How they interact. A request changes tables and inserts its event in the *same*
transaction (matching, auth); the drainer of any replica moves the event to a
Redis stream; the worker's consumer group handles it and writes inbox rows.
Messaging publishes to the queue directly, after its commit. Live frames go
from messaging to Redis pub/sub and from there to the hub of every replica.

`PROJECT.json` lists the components with their status, every hazard found at its
line, and for each definition of a module the source lines it stands for.

## 2. Modules

| Module | Role |
|---|---|
| `Matching` | the service of swipes, matches and blocks, one action per SQL statement |
| `MutualMatch` | abstract: decisions, matches and announcements with no transactions |
| `Sessions` | sessions, refresh tokens, password reset of one account |
| `TokenFamily` | abstract: a session as a family of single-use tokens |
| `Outbox` | the event table and its drainers |
| `StreamQueue` | one Redis stream and one consumer group, for any handler |
| `Notifications` | extends `StreamQueue` with the notification handlers |
| `Delivery` | composes `Outbox` (as an instance) with `Notifications` |
| `Hub` | the websocket hub of one replica |
| `Messaging` | the conversation of two users and its messages, with the old shims |
| `Thread` | abstract: every client message once, announced at most once |
| `Keyset` | a client's walk through any of the five paged lists |
| `Media` | the life of one upload |
| `Inbox` | one user's notifications and the cached unread count |
| `Traits` | one user's trait vector and the cache in front of it |
| `Compatibility` | how two vectors are scored, in Go and in SQL |
| `Questionnaire` | how a sheet of answers is scored |
| `RateLimit` | the fixed-window limiter and the middleware around it |
| `Migrations` | processes that migrate one database |
| `Profile` | the three ways of writing a profile and its gallery |
| `Preferences` | validation, upsert and constraints of the settings |
| `Accounts` | registration and e-mail verification |
| `Access` | access tokens against the sessions they came from |
| `MatchingProofs`, `SessionsProofs`, `OutboxProofs`, `HubProofs` | the theorems about the module of that name |
| `NotificationsProofs` | `StreamQueue` with `Notifications`, and `Delivery` |
| `TalkProofs` | `Messaging`, `Keyset`, `Media`, `Inbox` |
| `MemberProofs` | lemmas about folds and sums; `Traits`, `Compatibility`, `Questionnaire`, `Profile`, `Preferences`, `Accounts`, `Access` |
| `ServicesProofs` | `Migrations`, `RateLimit`, and all the services side by side |
| `MC…` | constants of the instances TLC checks; `MCServices` puts the modules from `Messaging` to `Access` side by side |

Definitions headed by a comment `Fault:` are deliberately wrong variants of the
definition after them. They are used by nothing; substituted for the right one
they make a property fail, which shows that the property looks at the code.

### Matching

`swipes`, `matches`, `blocks` are the *committed* rows of the tables;
`matchEvents` and `blockEvents` count rows of `outbox_events`. A request `r` is a
process: `pc[r]` is the SQL statement it runs next, `call[r]` its arguments,
`wrote[r]` the tables its open transaction has written, `answer[r]` what it tells
the caller. `BeginSwipe → LockPair → AssertReachable → InsertSwipe → (GetSwipe →
FindMatch | HasLiked → InsertMatch → Enqueue) → Commit` follows
`service.go:214-315`, `BeginBlock → InsertBlock → Enqueue → Commit`
`service.go:388-423`; `Unblock` is one statement. `Rollback` may end any
transaction, and a commit whose reply is lost installs the writes and answers an
error.

READ COMMITTED is modelled by writes that become visible at `Commit` only and
reads of committed rows. `INSERT … ON CONFLICT DO NOTHING` waits while another
open transaction has inserted the same key (`Waits`). The advisory lock is held
from its statement to the end of the transaction, and is per *key*: `LockKey`
may map two pairs to one key. The kick of the drainer after a commit only
shortens a wait and is left to `Outbox`.

### Sessions

The n-th refresh token of session `s` is `<<s, n>>`; the row stores the hashes of
the current and the previous one, so `sess[s].rotation` stands for both columns.
`rowLock` and `burned` are row locks of open transactions. Refresh is
`FindSession` (`SELECT … FOR UPDATE`) and `RotateSession`, or `revoke` after a
rolled-back transaction when the previous token is presented; Login reads the
password, compares, and inserts the session in a *separate* statement; Reset is
claim, update, revoke, commit in one transaction; Forgot invalidates and creates.
Expiry, the sweeper (`app/app.go:240-260`) and a failure of any statement are
actions. `sess[s].password` is a history of the password the session was opened
with. Registration and e-mail links are in `Accounts`, access tokens in `Access`.

### Outbox

`stage`, `attempts` and `leased` are the columns of an event (`leased`:
`available_at` lies ahead). `Claim` is the single `UPDATE … FOR UPDATE SKIP
LOCKED`; `batch` and `marking` are what a drainer holds in memory. Publishing
may fail after the transport has taken the event; marking may fail; `Stop` is a
crash or a shutdown between events; `LeaseExpires` may come at any time, while
the holder is still busy too.

### StreamQueue and Notifications

An entry is `new`, `pending` or `acked`; `done` are the dedupe keys, `tries` the
attempt counters, `dead` the dead-letter stream. A worker goes
`exists → count → handle → (remember → ack | deadLetter → ack | idle)`, the
statements of `Queue.process`, and any Redis command or the worker itself may
fail as long as `MaxFaults` allows. `Reclaim` hands out a pending entry whether
or not somebody is busy with it: `RetryDelay` is time, and a handler may take
longer. XADD trims *approximately*, hence a choice. The fetching goroutines and
their channels are folded into the workers: an entry waiting in a channel is an
entry taken by a worker that has not moved yet. A crash takes one worker; a
process that dies takes several in turn.

`Notifications` adds the handler: insert the row of a recipient (`ON CONFLICT
(user_id, event_id) DO NOTHING`), then increment and push if the row was
created, then the next recipient.

### Delivery

The drainer's publish *is* the queue's XADD. `redisOutboxPublisher.Publish`
(`src/backend/cmd/server/main.go:151-165`) hands over type and payload only, so
the entry's identity is its place in the stream and not the event's id.

### Hub

`rooms` is `Hub.rooms`, changed in one step under the mutex (`Join`, `LeaveThen`);
`Subscribe` and `Unsubscribe` come later, as in the code. `reader[c]` is the read
loop's place, `writer[c]` whether the write loop runs, `buffer[c]` the length of
the send channel, `closed[c]` that `close()` has been called, `targets[g]` the
snapshot a `deliver` in goroutine `g` still has to work through. A send on a
closed channel sets `panicked` and nothing happens any more. `Run` makes `pubsub`
visible at some moment; the code assigns it without the mutex. The model has
Redis configured. In that mode only typing frames fall back to local delivery
(`hub.go:146-155`); a failed publish of a message does not (`publisher.go:43-50`).
A full buffer found by `deliver` and the `close()` that follows are one step.

### Messaging and Thread

A call first authorises itself (`Authorise`: conversation, participant, block)
and works afterwards, in statements of its own: `BeginInsert → Insert | Conflicts
→ AnswerExisting → Touch → CommitInsert → PublishCreated → AnswerCreated`. An
index entry of an open transaction makes an insert of the same `client_msg_id`
wait (`OpenInserts`, `SameKey`). A block may be committed at any point, and a call
may fail or die at every statement. The deprecated `/api/conversations` shims
(`LegacyStart`, `LegacySend`) have no client id and look for no block. `Thread` is
what is promised: a client id is stored once, one request is told it created the
message, every other gets the message stored then.

### Keyset

`place[r]` is the first part of a row's sort key, `r` its id; `FetchPage` reads
one row more than the page, and the cursor is the last row shown. Rows appear,
possibly with a time older than rows that are there (`created_at` is the start
of a transaction), move (a conversation is touched, a candidate is scored anew)
and leave (blocks, swipes), each in the lists where the code allows it. The
feed's order is score down, id up; the others are time down, id down.

### Media

One asset, because assets share nothing. `asset` is the row, `original` and
`thumb` the objects, `queued` the job in the stream. `Complete` is `ReadPending →
CheckUpload → MarkProcessing → PublishJob | FailAfterPublish`; a worker goes
through `ReadAsset → Download → MakeThumbnail → PutThumbnail → MarkReady →
Acknowledge`, or gives up on a corrupt image; `Delete` removes the objects before
the row. The queue hands one job to several workers (`TakeJob`) and gives up in
the end (`DeadLetterJob`). The client may PUT again as long as the URL is open.
`lost` records what the code has no remedy for: a process that ends or a write
that fails where nobody looks, and the queue's last attempt.

### Inbox and Traits

Both are a table and a Redis key that follows it, written in two steps. `Inbox`:
arrivals increment, `ReadOne` decrements (below zero the key is set to zero and
loses its time to live), `ReadAll` resets, a miss counts the rows and stores the count.
`Traits`: Submit checks the retake window, upserts, invalidates; discovery gets,
misses, reads the row, sets. Caches may lose commands and drop entries, entries
expire. The history variables `raced` and `stale` mark the values written by a
call that overlapped another one: both caches are *not* guarded against these
races, and the properties say that there is no other way for them to be wrong.

### Compatibility and Questionnaire

Pure functions, with scores as fractions. `Score` is `domain.Compatibility`,
`SqlScore` the expression of the discovery query, `PairScore` and `LegacyScore`
what two lists show. Vectors and weights include keys that are missing and
values out of range. `ScoreSheet` is the single pass of `personality.Score` over
a sheet that may repeat, omit or invent questions.

### RateLimit

`Count` is the transaction of INCR and TTL, `SetExpiry` the command after it when
there is no time to live; a request counts under each of its keys in turn. In
fail-open mode an error of Redis lets the request in, in fail-closed mode it
refuses.

### Migrations

`holder` is the connection that has the session-level lock; `Unlock` may be sent
on another one of the pool, and `ConnectionCloses` takes the lock away. A process
loads the ledger once, applies the first file it does not know in a transaction
of its own, and the ledger's primary key refuses a second one.

### Profile, Preferences

`PUT /api/v1/profile` merges, `PUT …/photos` replaces (from URLs or from ready
assets), the old form is two transactions with a read in between
(`saving[c].promoted` is the photo to be put first). `Preferences` sends every
combination of ages, distances and genders at the boundaries through the
validation (`IsValid`) and then against the constraints (`RowIsAllowed`).

### Accounts and Access

Registration writes the account with its first link in one transaction and is
visible at its commit; a second insert of an address waits for the first. A
resend retires the open links it can see and issues one, a verification claims
one; rows locked by either make the other wait. `Access`: a token is signed after
the session's row was written, and is accepted until it expires with no look at
the session.

## 3. Runs and what they show

| Run | Kind | Instance | States | Shows |
|---|---|---|---|---|
| `matching` | pass | 2 users, 3 requests | 78 thousand | all invariants, refinement of `MutualMatch`, every request answered |
| `matching_block_race` | violation | same | – | a match recorded across a block |
| `sessions` | pass | 2 requests, 2 sessions, 2 rotations, 2 links, request symmetry | 762 thousand | single-use tokens and links, reset signs out, refinement of `TokenFamily`, no circular wait |
| `sessions_reset_race` | violation | 1 link, 2 passwords | – | a sign-in with the old password outlives a reset |
| `outbox` | pass | 2 events, 2 drainers, batch 2, 3 attempts | 82 thousand | deliveries bounded by attempts, no event forgotten |
| `outbox_dropped` | violation | same | – | an event lost in its last attempt, unreported |
| `notifications` | pass | 2 workers, 2 entries, MaxLen 1, 2 attempts, 1 fault | 431 thousand | nothing leaves unhandled, one push per row, every entry leaves |
| `delivery_duplicate` | violation | 1 event, 1 drainer, 1 worker | – | two notifications of one event |
| `hub` | pass | 2 clients, 2 conversations, buffer 1, 1 fault | 666 thousand | rooms without dead clients, subscriptions follow rooms, closed clients leave |
| `hub_unheard` | violation | 2 clients, 1 conversation, no fault | – | a watched conversation without a subscription |
| `hub_panic` | violation | same | – | the hub sends to a closed client |
| `services` | pass | thirteen components, one of them moving in each behaviour | 1.68 million | each component's properties, refinement of `Thread` |

**Properties.** *matching*: `MutualLikesAreMatches`, `OneEventPerMatch`,
`BlocksAreAnnounced`, `DecisionsStand` and `AnswersAreTrue` (action properties),
`PromiseSpec` (refinement), `RequestsAreAnswered` (liveness). *sessions*:
`RotateNeverLoses` (the rotation's own guard never fires, which the row lock must
guarantee), `TokensAreSingleUse`, `ResetLinksAreSingleUse`,
`ResetSignsOutExisting`, `FamilySpec`, `SomebodyProceeds`. *outbox*:
`DeliveriesArePaidFor`, `PublishedWasDelivered`, `EventsAreSettled` (liveness).
*notifications*: `NothingLeavesUnhandled`, `RowsArePushedOnce`,
`HandledNotifiesAll`, `EntriesLeave` (liveness). *hub*: `NoStraySubscription`,
`GoneClientsWatchNothing`, `UnheardOnlyWhenLost` (the *complete* list of how a
watched conversation loses its subscription), `ClosedClientsLeave` (liveness).
*services*: `ThreadSpec` (refinement), `BlockClosesThread` (after a block only
calls that had passed `authorise` store a message), `WalksAreComplete` (a row that
stays is shown exactly once), `AssetsAreAccountedFor`,
`CachesAreCurrentUnlessRaced`, `QuotasHold` (windows and retakes),
`ScoresAreSound`, `MembersSettingsAreSound`, `MigrationsRunOnce`,
`IdentitiesAreSound`.
Each pass run has one type invariant, which also bounds what the code must bound
(attempts, buffers).

**Bounds and why they are enough.**
*matching* – everything happens within one pair, so two users; the races need two
likes and a third request (replay, block, unblock). That pairs which share a
lock key do not disturb each other is proved, for any hash. *sessions* – two
concurrent calls are the races described in the code; two rotations give a
current, a previous and a forgotten token; two links let one retire the other.
Password values are compared by the violation run only, so the pass run has one.
*outbox* – two drainers with one lease between them, an attempt in the middle and
a last one. *notifications* – two workers on one entry are the reclaim race, two
entries let the first be trimmed, two recipients give the handler a middle, and
two attempts a retry before the dead letter. The one fault may be any Redis command or a
crash. *hub* – leaving and joining one room takes two clients; leaving all takes
two rooms; a buffer of one is full after one frame. Ann may watch both
conversations and the other client the common one (`CanAccess`). The names of
gone clients are used again, so that the number of connections is not bounded.

*services* – the components share no variable, so one of them (`world`) moves in
each behaviour and the state space is the sum of theirs; the others stand still in
one fixed initial state. *Messaging*: two calls with one client id and a second
message, a block at any moment. *Keyset*: three rows at two times, so two share
one, and pages of one row. *Media*: two workers on one job, two Complete calls and
a Delete. *Inbox*: three rows, two calls. *Traits*: three calls, as the stale fill
takes a reader, a submitter and somebody else's read; a window of two ticks.
*Compatibility*: two traits with values 0, ½ and 1 and everything just outside.
*Questionnaire*: three questions, one of them reversed, sheets of up to four
answers, hence one too many. *RateLimit*: a limit of one, requests under one or
two keys. *Migrations*: two processes, two connections each, builds of at most two
files with two checksums. *Profile*: three photos fill the gallery, and one URL
that is refused. *Preferences*: the values on both sides of every boundary.
*Accounts*: two addresses, three links, three calls (a claim between two resends).
*Access*: a life of two ticks, within three.

Deadlock checking is off where a system may rightly stop: all requests answered,
the stream empty, every event settled, the process ended by a panic, every
bounded supply of messages, notifications or ticks used up.

## 4. Fairness

*Matching* – weak fairness of `Proceed(r)`: Postgres answers a statement that can
run, and grants a lock to a waiter. Nothing obliges a client to send requests,
and rollbacks are never fair. *Outbox* – weak fairness of each drainer's steps:
`Drainer.Run` is a loop on a ticker. Within it the choice between success and
failure is free, so the transport may fail every time. And of `LeaseExpires`:
time passes. *Notifications* – weak fairness of what a worker does with its entry
or a new one; *strong* fairness of handing out each pending entry, because the
workers may be busy, with other entries, whenever the reclaimer looks:
`reclaimStale` starts at the oldest entry on every tick, and a reclaimed entry
goes to the end of the wait (its idle time starts anew), so that each of a
bounded number is reached again and again. *Hub* – weak fairness of each read
loop: a blocked read of a closed socket returns, and Redis commands return with a
result or an error. Write loops, peers and Redis traffic owe nothing. *services* –
safety only: what should eventually happen there (a job, a retry) depends on the
queue, which `notifications` checks for any handler, or on the client's retry.

## 5. Proofs

Eight modules of proofs, each for every value of the component's constants: any
users, requests, sessions, drainers, workers, rows, traits, calls and limits.
Every invariant, action property and refinement of a passing run is a theorem;
what is left to TLC is liveness.

The assumptions are named in the modules and evaluated by TLC: bounds are natural
numbers, distinguished values are distinct from ordinary ones. Sets that are
counted or summed over are finite: the drainers (`OutboxAssumption`: deliveries
are compared with the *number* of drainers that hold an event), workers, limited
calls, notifications, rows, traits and questions. `AnswerScale` is at least 2 (5
in the code), and `One`, the 1 of a fixed-point trait value, is not 0. The
theorems about `Delivery` state the assumption of the outbox themselves.

| Module | Theorems |
|---|---|
| `MatchingProofs` | `SpecConsistent` (the inductive invariant), `SpecTypeOK`, `SpecMutualLikesAreMatches`, `SpecOneEventPerMatch`, `SpecBlocksAreAnnounced`, `SpecDecisionsStand`, `SpecAnswersAreTrue`, `SpecImplementsPromise` (refinement of `MutualMatch`) |
| `SessionsProofs` | `SessionsSpecInv`, `SessionsSpecTypeOK`, `SpecRotateNeverLoses`, `SpecTokensAreSingleUse`, `SpecResetLinksAreSingleUse`, `SpecSomebodyProceeds`, `SpecResetSignsOutExisting`, `SpecImplementsFamily` (refinement of `TokenFamily`) |
| `OutboxProofs` | `OutboxSpecInv`, `OutboxSpecTypeOK`, `SpecDeliveriesArePaidFor`, `SpecPublishedWasDelivered` |
| `NotificationsProofs` | `NotificationsSpecInv`, `NotificationsSpecTypeOK`, `SpecNothingLeavesUnhandled`, `SpecRowsArePushedOnce`, `SpecHandledNotifiesAll`; `DeliverySpecInv`, `SpecDeliversFromTheOutbox` and `SpecDeliversToTheInboxes` (refinement of each part), `SpecNotificationsAreBounded` |
| `HubProofs` | `HubSpecInv`, `HubSpecTypeOK`, `SpecNoStraySubscription`, `SpecGoneClientsWatchNothing`, `SpecUnheardOnlyWhenLost` |
| `TalkProofs` | `MessagingSpecInv`, `MessagingSpecTypeOK`, `SpecBlockClosesThread`, `SpecImplementsThread` (refinement of `Thread`); `KeysetSpecInv`, `SpecWalksAreComplete`; `MediaSpecInv`, `MediaSpecTypeOK`, `SpecAssetsAreAccountedFor` |
| `ServicesProofs` | `MigrationsSpecInv`, `SpecMigrationsRunOnce`; `ServicesSpecInv`, `SpecServicesTypeOK`, `SpecScoresAreSound`, `SpecMembersSettingsAreSound`, `SpecIdentitiesAreSound`, `SpecCachesAreCurrentUnlessRaced`, `SpecQuotasHold` |

`MemberProofs` holds lemmas only: what each component's initial states and steps
keep, and what follows from it. `ServicesProofs` makes theorems of them.

### Matching

For any set of users, any set of requests and any function `LockKey` (collisions
included), with no assumption on the constants.

*The argument.* `MutualLikesAreMatches` is not inductive: that a commit keeps it
depends on what the request has read several statements earlier. `Consistent`
says, per statement, what a request may rely on: that its own direction is still
undecided if it has inserted it, that the other person's like is (or is not) on
record as `HasLiked` found it, and that what it has written is exactly what the
statements before have. Those facts speak about both directions of one pair. A
commit by another request could falsify them only by writing to the same pair,
and `PairLockExclusive` excludes that: two requests past `LockPair` with one key
are the same request, and a direction and its reverse are one pair (`SamePair`).
`LocalStep` and `TypeOKStep` deal with steps that touch only their own request,
`CommitEffect` says what a commit writes, `CommitSparesOthers` that it leaves
the facts of the others alone, `CommitTables` that it restores the tables' own
invariants. Refinement then needs `OnlyCommitDecides`: every step other than a
commit with a swipe stutters, and that commit is one `Decide`. `AnswersAreTrue`
is about the step of a commit as well: what the request has read and written by
then, and so its answer, is what `Consistent` ties to the tables.

The proof shows that the pair lock *suffices*; the fault `PairLockIgnored` shows
in TLC that it is *needed*.

### Sessions

`RotateNeverLoses` says that the row a refresh has read is unchanged when it is
rotated. `SessionsInv` adds what makes it so: a request between `FindSession` and
its rotation holds the row lock of the session it has read, and reads its current
token (`HoldsItsRow`); only a rotation or the one reset past the user's row
(`OneReset`) holds a lock, on a live session (`LockOK`); a session's current token
has not been redeemed and every older one at most once (`RedeemedOK`); a link
marked used by an open transaction is still open for others and marked by that one
alone (`LinksInv`). `ResetSignsOutExisting` follows
because a reset about to commit holds the lock of every session that was on record
when it took its link and is still live (`HoldsExisting`), and closes it. `SpecImplementsFamily` maps every step to opening,
redeeming or closing one family, or to a stutter.

`SomebodyProceeds` says that requests never wait in a circle, nor for a lock whose
transaction has ended. `Waits` is, statement by statement, the guard that another
transaction's lock negates. Whoever rotates, stores a link or commits a reset does
not wait. If nobody is there, no session row is locked (`LockOK`); then nobody
waits for one; then nobody is past the row of the user, so nobody waits for that;
then no link is marked (`MarksAreHeld`) and nobody waits at all. The order in which
the proof goes through the locks is the order in which the code takes them,
backwards.

### Outbox

That deliveries are paid for is a statement about *all* holders of an event:
attempts count the deliveries made and the holders that may still make one. It is
inductive once a batch is known to have an event only once (`ClaimedOnce`: one
statement claimed it) and what is about to be marked to have been delivered
(`MarkedWasDelivered`). The lemmas `HoldersAreFew` to the steps bound the set of
holders before and after each step.

### StreamQueue and Notifications

`NotificationsInv` says what a worker at each statement of `process` may rely on:
one at `remember` has served the whole list of recipients, one at `ack` holds an
entry that was handled or given up; the recipients before
its place have their rows, and of two workers on one entry the unique
index lets one create a row, so that one pushes it (`OneCreator`).

`TypeOK` bounds the attempts, and that bound is not in the code: `tries` goes beyond
`HandlerAttempts - 1` only by workers that have the entry in hand at their last
attempt or past the handler (`Spent`), or after a fault (`AttemptsRunOut`).

### Delivery

The composition is made of steps of its parts: each step is one of `Outbox` or a
stutter, and one of `Notifications` or a stutter, so the theorems about either hold
of it. Their common invariant adds what neither can say alone: an event has exactly
as many entries as the outbox handed it over (`EntriesAreDeliveries`), and a row
belongs to an entry. With `DeliveriesArePaidFor` a person is then notified of an
event at most once for each attempt (`NotificationsAreBounded`): finding 4 shows
that it may be twice, the theorem that it is at most `MaxAttempts` times, whatever
is reclaimed, trimmed or lost. The lemmas of `OutboxProofs` are used through an
instance of that module (`BoxP`).

### Hub

`HubInv` ties each read loop's place to the rooms and to Redis: a loop with a
command for Redis has a conversation, which it is in until it has left; once its
socket has failed it is only in the rooms it is still to leave (`StandsRight`); and
a watched room is being asked for, subscribed or lost (`Heard`).

### Messaging

`ThreadInv`: whoever writes has been let in, before any block in force
(`CallersAreLetIn`); a row nobody can read yet has an id and a client id that no
committed row and no other open insert has (`InsertsAreNew`), which is what the
unique index and its wait provide; and 201 answers and announcements are bounded
by the one call that inserted (`HistoryFits`). `Thread` is then implemented
under the identity mapping of the messages: a commit is a `Store`.

### Keyset

`PageFetched` is the heart: the page that the query returns is the first part, in
the order of the list, of the rows behind the cursor. `InOrder` is a sorted
sequence of these rows, and `InOrderSorts` is about any such sequence, so that no
sorting algorithm has to be trusted. Two rows with one time are told apart by their
id, hence the order is total and positions are too (`RanksAreOrdered`). `KeysetInv`
then needs one more thing than the property: a row that never moved and was shown
lies at or before the cursor, so that no later page shows it again.

### Media

`MediaInv`: nobody is at a job before the asset was marked processing, which
happens once (`JobsAreAskedFor`); a job is acknowledged only when the asset is
done (`AcknowledgedIsDone`); a worker past the download has an original behind it
until a Delete begins (`WorkHasItsObjects`).

### Migrations

`MigrationsInv`: the ledger is a prefix of the files, what a process loaded is
still there, and the file it is at is the first that it does not know. The lock
does not occur in the argument: that files are taken in order and the ledger's
primary key suffice, whichever connection is unlocked or lost. What the lock buys
is that a second process waits instead of failing.

### Inbox and Traits

`InboxInv` compares the cached count with the unread rows *and* the steps under
way: a call that nobody overlapped and that has changed the rows, or counted them,
knows exactly by how much the cache is off (`CleanCallsAreRight`). `TraitsInv` ties
what a call has read to the versions of the row: a call that was not overlapped has
read the present one, and a submission about to upsert has seen the assessment that
it replaces (`TakingsFitRow`). `RetakesAreSpaced` follows from the latter.

### Sums, scores and sheets

What a fold computes for every input cannot be proved by an induction theorem of
the library (its operator parameter cannot be instantiated), but a fold over a
*given* finite sequence or set can: `FoldsExist` says that the fold is the end of a
chain of values, one step of the operator each, and a fact about the chain is proved
by `UpTo`: a set of numbers that contains 0 and with each number below n the next
contains 0 .. n. On these rest the lemmas that a sum over a finite set exists, is a
natural number, is additive and is changed at one point by a difference there
(`SumsExist`, `SumOfNaturals`, `SumsAdd`, `OnePoint`).

`ScoresFollowTypes` and `SheetsFollowTypes` show the properties of *every* pair of
vectors, weighting and sheet of the right type. For the scores: the ordered weights
never sum to zero, each trait contributes at most its weight, and the Go loop and
the SQL expression are the same sum, whatever keys are missing. For the sheets: the
single pass counts each question's answer once, stops at a repetition, an unknown
question or a mark off the scale, and what it has accepted at the end is one answer
to each question exactly when the number of answers says so (a surjection between
sets of one size is a bijection), in whatever order.

### RateLimit, Profile, Preferences, Accounts, Access

`RateLimitInv`: what a window has served and the calls that have been counted and may
still pass are together no more than the limit (`CountersCover`), which is what makes
INCR before the decision safe. `ProfileInv`: a form that has been read and not yet
stored asks for the gallery of the row with its photo in front, if nobody has written
since (`FormFits`); `DropValue` and `WithoutRepeats` are folds, whose effect on a
list without repetitions is proved by the chains above (`DropsOne`, `PhotoComesFirst`,
`EachOnce`). `PreferencesInv`: the row satisfies the constraints of the table;
the genders are a fold again. `AccountsInv`: an uncommitted registration has its
address alone, the links a call has locked are open and its own, and of the open links
of an account all but one were issued by overlapping calls (`OneLinkIsOpen`).
`AccessInv`: a token that was not signed late was signed before the revocation
(`TokensAreDated`).

### Side by side

`ServicesInv` is the conjunction of `In(world, Inv)` for the thirteen components;
`WorldsStep` splits a step of `ServicesNext` into the component's own step and the
variables that stay.

### What stays with TLC

Liveness, which needs fairness and thereby ENABLED: `RequestsAreAnswered`,
`EventsAreSettled`, `EntriesLeave`, `ClosedClientsLeave`. And the violations, whose
traces TLC gives.

## 6. Findings

Each is the counterexample of a violation run; `PROJECT.json` quotes the lines.

1. *A match across a block* (`matching/service.go:388`). Block does not take the
   pair lock; it commits between the check for blocks and the swipe's commit.
2. *A reset that misses a sign-in* (`auth/service.go:323`). Login compares the
   password and inserts the session outside a transaction.
3. *A lost event* (`outbox/drainer.go:42`). A process that dies during the last
   attempt leaves a row that is not claimable and was never reported.
4. *Duplicate notifications* (`platform/queue/queue.go:61`). A redelivered outbox
   event gets a new `event_id`, so neither the dedupe key nor the unique index
   recognises it.
5. *An unheard conversation* (`realtime/hub.go:106`). Unsubscribe of a leaver
   after Subscribe of a joiner.
6. *A panic in the hub* (`realtime/hub.go:139`). A closed client stays a target
   until its read loop has left; the next frame is a send on a closed channel.

Beside the findings the models record, in history variables, behaviour that no
document denies but a maintainer should know of; the properties carve it out
explicitly:

- a reader that took the old vector before a retake stores it after the
  invalidation, and discovery ranks with it until the TTL (`Traits.stale`;
  `personality/service.go:109-110` promises the next request);
- the unread count is filled or reset across a concurrent arrival
  (`Inbox.raced`), and stays wrong until it expires; after a decrement that met
  the floor it has no time to live and stays wrong until the next reset or fill;
- two overlapping resends or forgotten-password requests leave two links open
  (`Accounts.overlapped`; `auth/repo.go:342-348` describes it);
- a send that passed `authorise` before a block is stored after it
  (`calls[c].early`);
- a message is committed and its announcement lost with the process: the retry
  is answered with the stored message and announces nothing;
- an unlock sent on another connection leaves the migration lock held until its
  connection closes;
- an asset stuck in `processing` after a crash between mark and publish
  (`Media.lost`);
- only the last retired refresh token is recognised as a replay; an older one is
  merely unknown (`auth/repo.go:217`), so that it does not close the family.

## 7. What is not modelled

Hashing, signing, the formats of names, dates and text; image scaling; HTTP,
routing, configuration, logging, metrics and start-up; read marks, previews and
unread counts of a list of conversations; reports (one insert nothing else
reads); the feed's filters (rows that come and go in `Keyset`); reading somebody
else's profile; the handlers that send one mail; the seed tool, which alone
deletes users; the front end. Floats are fractions, and rounding to six decimals
is left out of `Compatibility`.

Known limits: one account in `Sessions`, one conversation in `Messaging`, one
asset in `Media`, one user in `Inbox`, `Traits`, `Profile` and `Preferences`, one
consumer group in `StreamQueue`, one replica in `Hub`; XACK and DEL of one `ack`
are one step with independent failures; a crash loop of a poison entry is outside
`MaxFaults`; trimming is tied to XADD. Entries that were trimmed are excused by
`EntriesLeave`, as `queue.go:53-54` excuses them. Services are checked apart from
one another: the block that `Messaging` sees is a choice there, and `Matching`
decides about it elsewhere.

## 8. Plan

1. A composition of `Messaging` with `Notifications` and `Hub`, from a stored
   message to the frame and the inbox row of its recipient, with the lost
   announcement of a retry; each part refined as in `Delivery`.
2. What safety can say about progress: that a commit of `Matching` never waits for
   its own pair, as `SomebodyProceeds` says of `Sessions`.
3. `markRead` and the unread counts of conversations; the hub without Redis.
