------------------------------ MODULE Matching ------------------------------
(***************************************************************************)
(* internal/matching: swipes, mutual matches and blocks.                   *)
(*                                                                         *)
(* Every HTTP request is a process that runs one call of the service and   *)
(* talks to Postgres one statement at a time.  Transactions are READ       *)
(* COMMITTED: a statement sees what was committed before it began, plus    *)
(* its own writes, which stay in wrote[r] until the commit installs them.  *)
(* An INSERT .. ON CONFLICT DO NOTHING waits for another transaction that  *)
(* has inserted the same key and not ended yet.                            *)
(***************************************************************************)
EXTENDS Naturals

CONSTANTS Users,      \* accounts
          Requests,   \* HTTP requests, each of which makes one call
          LockKey     \* LockKey[p]: the advisory lock key a pair hashes to

\* (a pair of one never gets a row: nobody can swipe on themselves)
Pairs == {{u, v} : u, v \in Users}
Directions == Users \X Users
Actions == {"like", "pass"}

VARIABLES swipes,       \* committed rows of swipes; "none" is no row
          matches,      \* committed rows of matches
          blocks,       \* committed rows of blocks, <<blocker, blocked>>
          matchEvents,  \* match.created rows of outbox_events, per pair
          blockEvents,  \* user.blocked rows of outbox_events, per direction
          pc,           \* the statement each request runs next
          call,         \* the call it is making
          wrote,        \* the tables it has written and not committed
          answer        \* what it tells its caller

tables == <<swipes, matches, blocks, matchEvents, blockEvents>>
vars == <<tables, pc, call, wrote, answer>>

\* The statements of Swipe, in the order the code runs them; Block shares the
\* last two.
SwipeTx == {"assertReachable", "insertSwipe", "getSwipe", "findMatch",
            "hasLiked", "insertMatch", "enqueue", "commit"}
BlockTx == {"insertBlock", "enqueue", "commit"}
Statements == SwipeTx \cup BlockTx \cup {"lockPair"}

Calls == [op: {"swipe", "block"}, from: Users, to: Users,
          action: Actions \cup {"none"}]
NoCall == [op |-> "none"]

Answers == [status: {"pending", "ok", "refused", "error"}, duplicate: BOOLEAN,
            action: Actions \cup {"none"}, matched: BOOLEAN]
NoAnswer == [status |-> "pending", duplicate |-> FALSE, action |-> "none",
             matched |-> FALSE]

TypeOK ==
  /\ swipes \in [Directions -> Actions \cup {"none"}]
  /\ matches \in SUBSET Pairs
  /\ blocks \in SUBSET Directions
  /\ matchEvents \in [Pairs -> Nat]
  /\ blockEvents \in [Directions -> Nat]
  /\ pc \in [Requests -> Statements \cup {"idle", "done"}]
  /\ call \in [Requests -> Calls \cup {NoCall}]
  /\ wrote \in [Requests -> SUBSET {"swipe", "match", "block", "event"}]
  /\ answer \in [Requests -> Answers]

-----------------------------------------------------------------------------
From(r) == call[r].from
To(r) == call[r].to
Pair(r) == {From(r), To(r)}
Direction(r) == <<From(r), To(r)>>
Reverse(r) == <<To(r), From(r)>>

\* Fault: a session lock instead of a transaction lock is never released.
HoldsSessionLock(r) == call[r].op = "swipe" /\ pc[r] \in SwipeTx \cup {"done"}

\* The pair-scoped advisory lock is held from LockPair to the end of the
\* transaction.
HoldsPairLock(r) == call[r].op = "swipe" /\ pc[r] \in SwipeTx

\* matches has one row for an unordered pair, swipes and blocks one for each
\* direction.
RowKey(r, table) == IF table = "match" THEN Pair(r) ELSE Direction(r)

\* Another open transaction has inserted the row that r wants to insert.
Waits(r, table) ==
  \E s \in Requests \ {r} :
    table \in wrote[s] /\ RowKey(s, table) = RowKey(r, table)

Goto(r, label) == pc' = [pc EXCEPT ![r] = label]

Write(r, t) == wrote' = [wrote EXCEPT ![r] = @ \cup {t}]

Init ==
  /\ swipes = [d \in Directions |-> "none"]
  /\ matches = {}
  /\ blocks = {}
  /\ matchEvents = [p \in Pairs |-> 0]
  /\ blockEvents = [d \in Directions |-> 0]
  /\ pc = [r \in Requests |-> "idle"]
  /\ call = [r \in Requests |-> NoCall]
  /\ wrote = [r \in Requests |-> {}]
  /\ answer = [r \in Requests |-> NoAnswer]

-----------------------------------------------------------------------------
\* POST /likes.  The action and the self check have been passed.
BeginSwipe(r, from, to, action) ==
  /\ pc[r] = "idle"
  /\ from # to
  /\ call' = [call EXCEPT ![r] = [op |-> "swipe", from |-> from, to |-> to,
                                  action |-> action]]
  /\ answer' = [answer EXCEPT ![r].action = action]
  /\ Goto(r, "lockPair")
  /\ UNCHANGED <<tables, wrote>>

\* Fault: no lock at all.
PairLockIgnored(r) == TRUE

PairLockFree(r) ==
  \A s \in Requests \ {r} :
    HoldsPairLock(s) => LockKey[Pair(s)] # LockKey[Pair(r)]

\* pg_advisory_xact_lock on the hash of the unordered pair.
LockPair(r) ==
  /\ pc[r] = "lockPair"
  /\ PairLockFree(r)
  /\ Goto(r, "assertReachable")
  /\ UNCHANGED <<tables, call, wrote, answer>>

\* Fault: the refusal tells the caller who has been blocked.
AssertReachableLeaks(r) ==
  /\ pc[r] = "assertReachable"
  /\ IF {Direction(r), Reverse(r)} \cap blocks = {}
     THEN Goto(r, "insertSwipe") /\ UNCHANGED answer
     ELSE Goto(r, "done") /\ answer' = [answer EXCEPT ![r].status = "blocked"]
  /\ UNCHANGED <<tables, call, wrote>>

\* Both directions of blocks; a block either way ends the transaction.
AssertReachable(r) ==
  /\ pc[r] = "assertReachable"
  /\ IF {Direction(r), Reverse(r)} \cap blocks = {}
     THEN Goto(r, "insertSwipe") /\ UNCHANGED answer
     ELSE Goto(r, "done") /\ answer' = [answer EXCEPT ![r].status = "refused"]
  /\ UNCHANGED <<tables, call, wrote>>

\* Fault: ON CONFLICT DO UPDATE.
InsertSwipeUpserts(r) ==
  /\ pc[r] = "insertSwipe"
  /\ ~Waits(r, "swipe")
  /\ Write(r, "swipe")
  /\ Goto(r, IF call[r].action = "like" THEN "hasLiked" ELSE "commit")
  /\ UNCHANGED <<tables, call, answer>>

\* A row already there makes the request a replay of an earlier decision; a
\* pass needs nothing but its row.
InsertSwipe(r) ==
  /\ pc[r] = "insertSwipe"
  /\ ~Waits(r, "swipe")
  /\ IF swipes[Direction(r)] # "none"
     THEN Goto(r, "getSwipe") /\ UNCHANGED wrote
     ELSE /\ Write(r, "swipe")
          /\ Goto(r, IF call[r].action = "like" THEN "hasLiked" ELSE "commit")
  /\ UNCHANGED <<tables, call, answer>>

\* Fault: the replay echoes the action it carries.
GetSwipeEchoes(r) ==
  /\ pc[r] = "getSwipe"
  /\ answer' = [answer EXCEPT ![r].duplicate = TRUE]
  /\ Goto(r, "findMatch")
  /\ UNCHANGED <<tables, call, wrote>>

\* A replay reports the decision on record, not the one it carries ..
GetSwipe(r) ==
  /\ pc[r] = "getSwipe"
  /\ answer' = [answer EXCEPT ![r].duplicate = TRUE,
                              ![r].action = swipes[Direction(r)]]
  /\ Goto(r, "findMatch")
  /\ UNCHANGED <<tables, call, wrote>>

\* .. and whether the pair has matched.
FindMatch(r) ==
  /\ pc[r] = "findMatch"
  /\ answer' = [answer EXCEPT ![r].matched = Pair(r) \in matches]
  /\ Goto(r, "commit")
  /\ UNCHANGED <<tables, call, wrote>>

\* Fault: a probe for any swipe, without its action = 'like'.
HasSwiped(r) ==
  /\ pc[r] = "hasLiked"
  /\ Goto(r, IF swipes[Reverse(r)] # "none" THEN "insertMatch" ELSE "commit")
  /\ UNCHANGED <<tables, call, wrote, answer>>

\* The reciprocal-like probe.
HasLiked(r) ==
  /\ pc[r] = "hasLiked"
  /\ Goto(r, IF swipes[Reverse(r)] = "like" THEN "insertMatch" ELSE "commit")
  /\ UNCHANGED <<tables, call, wrote, answer>>

\* Only the request that creates the row goes on to emit the event.
InsertMatch(r) ==
  /\ pc[r] = "insertMatch"
  /\ ~Waits(r, "match")
  /\ answer' = [answer EXCEPT ![r].matched = TRUE]
  /\ IF Pair(r) \in matches
     THEN Goto(r, "commit") /\ UNCHANGED wrote
     ELSE Goto(r, "enqueue") /\ Write(r, "match")
  /\ UNCHANGED <<tables, call>>

-----------------------------------------------------------------------------
\* POST /blocks.  Block takes no pair lock.
BeginBlock(r, from, to) ==
  /\ pc[r] = "idle"
  /\ from # to
  /\ call' = [call EXCEPT ![r] = [op |-> "block", from |-> from, to |-> to,
                                  action |-> "none"]]
  /\ Goto(r, "insertBlock")
  /\ UNCHANGED <<tables, wrote, answer>>

\* Fault: the test of created is inverted.
InsertBlockSilently(r) ==
  /\ pc[r] = "insertBlock"
  /\ ~Waits(r, "block")
  /\ IF Direction(r) \in blocks
     THEN Goto(r, "enqueue") /\ UNCHANGED wrote
     ELSE Goto(r, "commit") /\ Write(r, "block")
  /\ UNCHANGED <<tables, call, answer>>

\* A second block by the same person inserts nothing and emits nothing.
InsertBlock(r) ==
  /\ pc[r] = "insertBlock"
  /\ ~Waits(r, "block")
  /\ IF Direction(r) \in blocks
     THEN Goto(r, "commit") /\ UNCHANGED wrote
     ELSE Goto(r, "enqueue") /\ Write(r, "block")
  /\ UNCHANGED <<tables, call, answer>>

\* DELETE /blocks/{id}: a single statement, which commits by itself and emits
\* no event.
Unblock(r, from, to) ==
  /\ pc[r] = "idle"
  /\ Goto(r, "done")
  /\ blocks' = blocks \ {<<from, to>>}
  /\ answer' = [answer EXCEPT ![r].status = "ok"]
  /\ UNCHANGED <<swipes, matches, matchEvents, blockEvents, call, wrote>>

-----------------------------------------------------------------------------
\* Fault: the event is written through the pool, outside the transaction.
EnqueueOutsideTx(r) ==
  /\ pc[r] = "enqueue"
  /\ IF call[r].op = "swipe"
     THEN /\ matchEvents' = [matchEvents EXCEPT ![Pair(r)] = @ + 1]
          /\ UNCHANGED blockEvents
     ELSE /\ blockEvents' = [blockEvents EXCEPT ![Direction(r)] = @ + 1]
          /\ UNCHANGED matchEvents
  /\ Goto(r, "commit")
  /\ UNCHANGED <<swipes, matches, blocks, call, wrote, answer>>

\* The outbox row goes into the transaction of the change it announces.
Enqueue(r) ==
  /\ pc[r] = "enqueue"
  /\ Write(r, "event")
  /\ Goto(r, "commit")
  /\ UNCHANGED <<tables, call, answer>>

\* The writes of the transaction become visible together.  The reply to the
\* commit may be lost: the caller is then told of an error although the
\* change has been made.
Commit(r) ==
  /\ pc[r] = "commit"
  /\ swipes' = IF "swipe" \in wrote[r]
               THEN [swipes EXCEPT ![Direction(r)] = call[r].action] ELSE swipes
  /\ matches' = matches \cup (IF "match" \in wrote[r] THEN {Pair(r)} ELSE {})
  /\ blocks' = blocks \cup (IF "block" \in wrote[r] THEN {Direction(r)} ELSE {})
  /\ matchEvents' = IF "event" \in wrote[r] /\ call[r].op = "swipe"
                    THEN [matchEvents EXCEPT ![Pair(r)] = @ + 1]
                    ELSE matchEvents
  /\ blockEvents' = IF "event" \in wrote[r] /\ call[r].op = "block"
                    THEN [blockEvents EXCEPT ![Direction(r)] = @ + 1]
                    ELSE blockEvents
  /\ wrote' = [wrote EXCEPT ![r] = {}]
  /\ \E status \in {"ok", "error"} :
       answer' = [answer EXCEPT ![r].status = status]
  /\ Goto(r, "done")
  /\ UNCHANGED call

\* A statement fails, the client goes away or the process dies: the
\* transaction leaves nothing behind and its lock is released.
Rollback(r) ==
  /\ pc[r] \in Statements
  /\ wrote' = [wrote EXCEPT ![r] = {}]
  /\ answer' = [answer EXCEPT ![r].status = "error"]
  /\ Goto(r, "done")
  /\ UNCHANGED <<tables, call>>

-----------------------------------------------------------------------------
Arrive(r) ==
  \E from, to \in Users :
    \/ \E action \in Actions : BeginSwipe(r, from, to, action)
    \/ BeginBlock(r, from, to)
    \/ Unblock(r, from, to)

\* A request that has begun goes on by itself.
Proceed(r) ==
  \/ LockPair(r)
  \/ AssertReachable(r)
  \/ InsertSwipe(r)
  \/ GetSwipe(r)
  \/ FindMatch(r)
  \/ HasLiked(r)
  \/ InsertMatch(r)
  \/ InsertBlock(r)
  \/ Enqueue(r)
  \/ Commit(r)

Next == \E r \in Requests : Arrive(r) \/ Proceed(r) \/ Rollback(r)

Spec == Init /\ [][Next]_vars

\* The database answers, and grants a free lock to a waiter in the end; nobody
\* has to send a request, and nothing has to fail.
FairSpec == Spec /\ \A r \in Requests : WF_vars(Proceed(r))

-----------------------------------------------------------------------------
Liked(u, v) == swipes[<<u, v>>] = "like"

\* Two people are matched exactly when each has liked the other: no
\* interleaving of two likes leaves a mutual pair without its match
\* (service.go:220-225, repo.go:226-234), and no match is without its likes.
MutualLikesAreMatches ==
  \A u, v \in Users :
    u # v => ((Liked(u, v) /\ Liked(v, u)) <=> {u, v} \in matches)

\* A match has exactly one match.created event and a pair that is not matched
\* has none: the event is neither lost, doubled, nor emitted for a match that
\* was rolled back (docs/PERSON_B_API.md:409-410 and 467-469).
OneEventPerMatch ==
  \A p \in Pairs : matchEvents[p] = IF p \in matches THEN 1 ELSE 0

\* Nobody is blocked in silence: each block on record had a user.blocked event
\* in its own transaction, whatever was blocked and unblocked before it.
BlocksAreAnnounced ==
  \A d \in blocks : blockEvents[d] >= 1

\* A decision stands and a match stays: no retry, replay or concurrent
\* duplicate flips a pass into a like (docs/PERSON_B_API.md:407-409).
DecisionsStand ==
  [][ /\ \A d \in Directions : swipes[d] # "none" => swipes'[d] = swipes[d]
      /\ matches \subseteq matches' ]_vars

\* A swipe that is answered with success is answered with the decision on
\* record and, at that moment, with the truth about the match: of two people
\* who like each other at once one is told of it (service.go:256-288).
AnswersAreTrue ==
  [][ \A r \in Requests :
        (pc[r] # "done" /\ answer'[r].status = "ok" /\ call[r].op = "swipe")
          => /\ answer'[r].action = swipes'[Direction(r)]
             /\ answer'[r].matched = (Pair(r) \in matches') ]_vars

\* A match is never recorded between people one of whom has blocked the other:
\* assertReachable "rejects interactions with a missing or blocked account"
\* (service.go:488).
NoMatchAcrossABlock ==
  [][ \A u, v \in Users :
        {u, v} \in matches' \ matches => <<u, v>> \notin blocks ]_vars

\* Whoever waits for a pair lock or for another transaction's row gets it in
\* the end: every request is answered.
RequestsAreAnswered ==
  \A r \in Requests : pc[r] # "idle" ~> pc[r] = "done"

\* The decisions, matches and events on record change exactly as the promise
\* of the service says they do.
Promise == INSTANCE MutualMatch WITH
             decision <- swipes, matched <- matches, announced <- matchEvents
PromiseSpec == Promise!Spec
-----------------------------------------------------------------------------
\* The inductive invariant: what each request may rely on at each statement.

\* Two transactions never hold the lock of the same pair.
PairLockExclusive ==
  \A r, s \in Requests :
    (HoldsPairLock(r) /\ HoldsPairLock(s)
       /\ LockKey[Pair(r)] = LockKey[Pair(s)]) => r = s

InSwipe(r) == call[r].op = "swipe" /\ pc[r] \in SwipeTx \cup {"lockPair"}
InBlock(r) == call[r].op = "block" /\ pc[r] \in BlockTx

\* A request between its first statement and its answer is in one of the two
\* calls; outside, it has written nothing.
CallInv(r) ==
  /\ pc[r] \in Statements =>
       /\ InSwipe(r) \/ InBlock(r)
       /\ call[r] \in Calls
       /\ From(r) # To(r)
       /\ answer[r].status = "pending"
  /\ pc[r] \notin {"hasLiked", "insertMatch", "enqueue", "commit"} =>
       wrote[r] = {}
  /\ pc[r] = "idle" => answer[r] = NoAnswer /\ call[r] = NoCall

\* What Swipe has written and read so far is still true: nobody else can have
\* changed either direction of the pair.
SwipeInv(r) ==
  /\ call[r].action \in Actions
  /\ "swipe" \in wrote[r] => swipes[Direction(r)] = "none"
  /\ pc[r] \in {"insertMatch", "enqueue"} => swipes[Reverse(r)] = "like"
  /\ pc[r] \in {"hasLiked", "insertMatch", "enqueue"} =>
       call[r].action = "like"
  /\ pc[r] \in {"hasLiked", "insertMatch"} => wrote[r] = {"swipe"}
  /\ pc[r] = "enqueue" => wrote[r] = {"swipe", "match"}
  /\ pc[r] = "commit" =>
       \/ /\ wrote[r] = {}
          /\ swipes[Direction(r)] # "none"
          /\ answer[r].action = swipes[Direction(r)]
          /\ answer[r].matched = (Pair(r) \in matches)
       \/ /\ wrote[r] = {"swipe"}
          /\ call[r].action = "pass" \/ swipes[Reverse(r)] # "like"
          /\ ~answer[r].matched
       \/ /\ wrote[r] = {"swipe", "match", "event"}
          /\ call[r].action = "like"
          /\ swipes[Reverse(r)] = "like"
          /\ answer[r].matched
  /\ pc[r] \in {"getSwipe", "findMatch"} => swipes[Direction(r)] # "none"
  /\ pc[r] = "findMatch" => answer[r].action = swipes[Direction(r)]
  /\ pc[r] \notin {"findMatch", "commit"} \/ wrote[r] # {} =>
       answer[r].action = call[r].action
  /\ pc[r] \notin {"enqueue", "commit"} => ~answer[r].matched
  /\ pc[r] = "enqueue" => answer[r].matched

BlockInv(r) ==
  /\ pc[r] = "enqueue" => wrote[r] = {"block"}
  /\ pc[r] = "commit" => wrote[r] \in {{}, {"block", "event"}}

\* Together with the tables' own invariants they are inductive: each request
\* relies only on what its pair lock protects.
Consistent ==
  /\ TypeOK
  /\ PairLockExclusive
  /\ \A r \in Requests :
       /\ CallInv(r)
       /\ InSwipe(r) => SwipeInv(r)
       /\ InBlock(r) => BlockInv(r)
  /\ MutualLikesAreMatches
  /\ OneEventPerMatch
  /\ BlocksAreAnnounced
=============================================================================
