--------------------------- MODULE MatchingProofs ---------------------------
(***************************************************************************)
(* The invariants of Matching hold for any set of users, any set of        *)
(* requests and any hash of pairs to lock keys, and Matching implements    *)
(* the promise of MutualMatch.                                             *)
(***************************************************************************)
EXTENDS Matching, TLAPS

\* Two directions of the same pair hash to the same key: orderPair makes the
\* lock direction-agnostic.
LEMMA SamePair ==
  ASSUME NEW a, NEW b, NEW c, NEW d
  PROVE  /\ <<c, d>> \in {<<a, b>>, <<b, a>>} => {c, d} = {a, b}
         /\ {c, d} = {a, b} => (c = a /\ d = b) \/ (c = b /\ d = a)
<1>1. <<c, d>> \in {<<a, b>>, <<b, a>>} => {c, d} = {a, b}
  OBVIOUS
<1>2. ASSUME {c, d} = {a, b}
      PROVE  (c = a \/ c = b) /\ (d = a \/ d = b) /\ (a = c \/ a = d)
               /\ (b = c \/ b = d)
  <2>1. c \in {a, b} /\ d \in {a, b} /\ a \in {c, d} /\ b \in {c, d}
    BY <1>2
  <2> QED BY <2>1
<1> QED BY <1>1, <1>2

\* The initial tables are empty and no request has begun.
LEMMA InitConsistent == Init => Consistent
<1> SUFFICES ASSUME Init PROVE Consistent
  OBVIOUS
<1>1. TypeOK
  BY DEF Init, TypeOK, NoCall, NoAnswer, Answers, Actions, Statements
<1>2. \A r \in Requests : /\ pc[r] = "idle" /\ wrote[r] = {} /\ answer[r] = NoAnswer
                           /\ call[r] = NoCall
  BY DEF Init
<1>3. \A r \in Requests : CallInv(r) /\ ~InSwipe(r) /\ ~InBlock(r) /\ ~HoldsPairLock(r)
  BY <1>2 DEF CallInv, InSwipe, InBlock, HoldsPairLock, Statements, SwipeTx, BlockTx
<1>4. PairLockExclusive
  BY <1>3 DEF PairLockExclusive
<1>5. MutualLikesAreMatches
  <2>1. \A u, v \in Users : <<u, v>> \in Directions
    BY DEF Directions
  <2>2. \A d \in Directions : swipes[d] # "like"
    BY DEF Init
  <2>3. matches = {}
    BY DEF Init
  <2> QED BY <2>1, <2>2, <2>3, Zenon DEF MutualLikesAreMatches, Liked
<1>6. OneEventPerMatch /\ BlocksAreAnnounced
  BY DEF Init, OneEventPerMatch, BlocksAreAnnounced
<1> QED BY <1>1, <1>3, <1>4, <1>5, <1>6 DEF Consistent

\* A step of one request that changes no table disturbs no other request; it
\* takes the pair lock only if that is free.
LEMMA LocalStep ==
  ASSUME Consistent, NEW r \in Requests, UNCHANGED tables, TypeOK',
         \A s \in Requests \ {r} :
           /\ pc'[s] = pc[s] /\ call'[s] = call[s]
           /\ wrote'[s] = wrote[s] /\ answer'[s] = answer[s],
         HoldsPairLock(r)' => /\ HoldsPairLock(r) \/ PairLockFree(r)
                              /\ call'[r] = call[r],
         CallInv(r)', (InSwipe(r) => SwipeInv(r))', (InBlock(r) => BlockInv(r))'
  PROVE  Consistent'
<1>1. PairLockExclusive'
  BY DEF Consistent, PairLockExclusive, PairLockFree, HoldsPairLock, Pair, From, To
<1>2. ASSUME NEW s \in Requests \ {r}
      PROVE  (CallInv(s) /\ (InSwipe(s) => SwipeInv(s)) /\ (InBlock(s) => BlockInv(s)))'
  <2>1. s # r /\ s \in Requests
    BY <1>2
  <2>2. CallInv(s) /\ (InSwipe(s) => SwipeInv(s)) /\ (InBlock(s) => BlockInv(s))
    BY <2>1 DEF Consistent
  <2>3. /\ pc'[s] = pc[s] /\ call'[s] = call[s]
        /\ wrote'[s] = wrote[s] /\ answer'[s] = answer[s]
    BY <2>1
  <2>4. swipes' = swipes /\ matches' = matches
    BY DEF tables
  <2>5. From(s)' = From(s) /\ To(s)' = To(s) /\ Pair(s)' = Pair(s)
          /\ Direction(s)' = Direction(s) /\ Reverse(s)' = Reverse(s)
    BY <2>3 DEF From, To, Pair, Direction, Reverse
  <2>6. CallInv(s)' /\ InSwipe(s)' = InSwipe(s) /\ InBlock(s)' = InBlock(s)
    BY <2>2, <2>3, <2>5 DEF CallInv, InSwipe, InBlock
  <2>7. InSwipe(s) => SwipeInv(s)'
    BY <2>2, <2>3, <2>4, <2>5 DEF SwipeInv
  <2>8. InBlock(s) => BlockInv(s)'
    BY <2>2, <2>3 DEF BlockInv
  <2> QED BY <2>6, <2>7, <2>8
<1>3. (MutualLikesAreMatches /\ OneEventPerMatch /\ BlocksAreAnnounced)'
  BY DEF Consistent, tables, MutualLikesAreMatches, OneEventPerMatch,
         BlocksAreAnnounced, Liked
<1> QED BY <1>1, <1>2, <1>3 DEF Consistent
\* Changing one field of one answer gives answers again.
LEMMA AnswerTypes ==
  ASSUME TypeOK, NEW r \in Requests
  PROVE  /\ \A m \in BOOLEAN : [answer EXCEPT ![r].matched = m] \in [Requests -> Answers]
         /\ \A t \in {"ok", "refused", "error"} :
              [answer EXCEPT ![r].status = t] \in [Requests -> Answers]
         /\ \A a \in Actions :
              [answer EXCEPT ![r].action = a] \in [Requests -> Answers]
<1> answer \in [Requests -> Answers]
  BY DEF TypeOK
<1>1. ASSUME NEW m \in BOOLEAN
      PROVE  [answer EXCEPT ![r].matched = m] \in [Requests -> Answers]
  BY DEF Answers
<1>2. ASSUME NEW t \in {"ok", "refused", "error"}
      PROVE  [answer EXCEPT ![r].status = t] \in [Requests -> Answers]
  BY DEF Answers
<1>3. ASSUME NEW a \in Actions
      PROVE  [answer EXCEPT ![r].action = a] \in [Requests -> Answers]
  BY DEF Answers
<1> QED BY <1>1, <1>2, <1>3

\* Every statement leaves rows, labels and answers of the kinds they are.
LEMMA TypeOKStep ==
  ASSUME Consistent, NEW r \in Requests, Arrive(r) \/ Proceed(r) \/ Rollback(r)
  PROVE  TypeOK'
<1> TypeOK
  BY DEF Consistent
<1> USE DEF TypeOK, Goto, Write, tables, Statements, SwipeTx, BlockTx
<1>0. pc[r] \in Statements => /\ call[r] \in Calls
                              /\ Direction(r) \in Directions
                              /\ Pair(r) \in Pairs
  <2> SUFFICES ASSUME pc[r] \in Statements
               PROVE  /\ call[r] \in Calls /\ Direction(r) \in Directions
                      /\ Pair(r) \in Pairs
    OBVIOUS
  <2>1. call[r] \in Calls
    BY DEF Consistent, CallInv
  <2>2. From(r) \in Users /\ To(r) \in Users
    BY <2>1 DEF Calls, From, To
  <2> QED BY <2>1, <2>2 DEF Direction, Directions, Pair, Pairs
<1>1. ASSUME NEW from \in Users, NEW to \in Users, NEW action \in Actions,
             BeginSwipe(r, from, to, action)
      PROVE  TypeOK'
  BY <1>1 DEF BeginSwipe, Calls, Answers
<1>2. ASSUME NEW from \in Users, NEW to \in Users, BeginBlock(r, from, to)
      PROVE  TypeOK'
  BY <1>2 DEF BeginBlock, Calls
<1>3. ASSUME NEW from \in Users, NEW to \in Users, Unblock(r, from, to)
      PROVE  TypeOK'
  BY <1>3 DEF Unblock, Answers
<1>4. CASE LockPair(r)
  BY <1>4 DEF LockPair
<1>5. CASE AssertReachable(r)
  <2>1. answer' = answer \/ answer' = [answer EXCEPT ![r].status = "refused"]
    BY <1>5 DEF AssertReachable
  <2>2. answer' \in [Requests -> Answers]
    BY <2>1, AnswerTypes
  <2>3. pc' = [pc EXCEPT ![r] = "insertSwipe"] \/ pc' = [pc EXCEPT ![r] = "done"]
    BY <1>5 DEF AssertReachable
  <2>4. pc' \in [Requests -> Statements \cup {"idle", "done"}]
    BY <2>3
  <2>5. UNCHANGED <<tables, call, wrote>>
    BY <1>5 DEF AssertReachable
  <2> QED BY <2>2, <2>4, <2>5
<1>6. CASE InsertSwipe(r)
  BY <1>6 DEF InsertSwipe
<1>7. CASE GetSwipe(r)
  <2>1. swipes[Direction(r)] \in Actions \cup {"none"}
    BY <1>0, <1>7 DEF GetSwipe
  <2> QED BY <1>7, <2>1 DEF GetSwipe, Answers
<1>8. CASE FindMatch(r)
  <2>1. (Pair(r) \in matches) \in BOOLEAN
    OBVIOUS
  <2>2. answer' \in [Requests -> Answers]
    BY <1>8, <2>1, AnswerTypes DEF FindMatch
  <2>3. pc' = [pc EXCEPT ![r] = "commit"] /\ UNCHANGED <<tables, call, wrote>>
    BY <1>8 DEF FindMatch
  <2> QED BY <2>2, <2>3
<1>9. CASE HasLiked(r)
  BY <1>9 DEF HasLiked
<1>10. CASE InsertMatch(r)
  <2>1. answer' \in [Requests -> Answers]
    BY <1>10, AnswerTypes DEF InsertMatch
  <2>2. /\ pc' = [pc EXCEPT ![r] = "commit"] \/ pc' = [pc EXCEPT ![r] = "enqueue"]
        /\ wrote' = wrote \/ wrote' = [wrote EXCEPT ![r] = @ \cup {"match"}]
        /\ UNCHANGED <<tables, call>>
    BY <1>10 DEF InsertMatch
  <2> QED BY <2>1, <2>2
<1>11. CASE InsertBlock(r)
  BY <1>11 DEF InsertBlock
<1>12. CASE Enqueue(r)
  BY <1>12 DEF Enqueue
<1>13. CASE Commit(r)
  <2>1. Direction(r) \in Directions /\ Pair(r) \in Pairs /\ call[r] \in Calls
    BY <1>0, <1>13 DEF Commit
  <2>2. call[r].action \in Actions \cup {"none"}
    BY <2>1 DEF Calls
  <2>3. swipes' \in [Directions -> Actions \cup {"none"}]
    BY <1>13, <2>1, <2>2 DEF Commit
  <2>4. matches' \in SUBSET Pairs /\ blocks' \in SUBSET Directions
    <3>1. matches' \subseteq matches \cup {Pair(r)}
      BY <1>13 DEF Commit
    <3>2. blocks' \subseteq blocks \cup {Direction(r)}
      BY <1>13 DEF Commit
    <3> QED BY <3>1, <3>2, <2>1
  <2>5. matchEvents' \in [Pairs -> Nat]
    BY <1>13, <2>1 DEF Commit
  <2>6. blockEvents' \in [Directions -> Nat]
    BY <1>13, <2>1 DEF Commit
  <2>7. answer' \in [Requests -> Answers]
    <3>1. PICK t \in {"ok", "error"} : answer' = [answer EXCEPT ![r].status = t]
      BY <1>13 DEF Commit
    <3> QED BY <3>1, AnswerTypes
  <2>8. /\ pc' = [pc EXCEPT ![r] = "done"] /\ call' = call
        /\ wrote' = [wrote EXCEPT ![r] = {}]
    BY <1>13 DEF Commit
  <2> QED BY <2>3, <2>4, <2>5, <2>6, <2>7, <2>8
<1>14. CASE Rollback(r)
  BY <1>14 DEF Rollback, Answers
<1> QED BY <1>1, <1>2, <1>3, <1>4, <1>5, <1>6, <1>7, <1>8, <1>9, <1>10, <1>11,
           <1>12, <1>13, <1>14 DEF Arrive, Proceed
\* A request starts with nothing read and nothing written.
LEMMA ArriveConsistent ==
  ASSUME Consistent, NEW r \in Requests, Arrive(r)
  PROVE  Consistent'
<1>0. TypeOK /\ TypeOK'
  BY TypeOKStep DEF Consistent
<1>1. CallInv(r) /\ PairLockExclusive
  BY DEF Consistent
<1>2. ASSUME NEW from \in Users, NEW to \in Users, NEW action \in Actions,
             BeginSwipe(r, from, to, action)
      PROVE  Consistent'
  <2>1. /\ UNCHANGED tables
        /\ \A s \in Requests \ {r} :
             /\ pc'[s] = pc[s] /\ call'[s] = call[s]
             /\ wrote'[s] = wrote[s] /\ answer'[s] = answer[s]
    BY <1>0, <1>2 DEF BeginSwipe, Goto, TypeOK
  <2>2. /\ pc[r] = "idle" /\ pc'[r] = "lockPair" /\ wrote'[r] = {}
        /\ call'[r] = [op |-> "swipe", from |-> from, to |-> to, action |-> action]
        /\ answer'[r] = [NoAnswer EXCEPT !.action = action]
        /\ from # to
    BY <1>0, <1>1, <1>2 DEF BeginSwipe, Goto, TypeOK, CallInv
  <2>3. ~HoldsPairLock(r)'
    BY <2>2 DEF HoldsPairLock, SwipeTx
  <2>4. CallInv(r)' /\ SwipeInv(r)' /\ ~InBlock(r)'
    BY <2>2 DEF CallInv, SwipeInv, InSwipe, InBlock, Calls, NoAnswer, SwipeTx,
                BlockTx, Statements, From, To, Actions
  <2> QED BY <1>0, <2>1, <2>3, <2>4, LocalStep
<1>3. ASSUME NEW from \in Users, NEW to \in Users, BeginBlock(r, from, to)
      PROVE  Consistent'
  <2>1. /\ UNCHANGED tables
        /\ \A s \in Requests \ {r} :
             /\ pc'[s] = pc[s] /\ call'[s] = call[s]
             /\ wrote'[s] = wrote[s] /\ answer'[s] = answer[s]
    BY <1>0, <1>3 DEF BeginBlock, Goto, TypeOK
  <2>2. /\ pc[r] = "idle" /\ pc'[r] = "insertBlock" /\ wrote'[r] = {}
        /\ call'[r] = [op |-> "block", from |-> from, to |-> to, action |-> "none"]
        /\ answer'[r] = NoAnswer
        /\ from # to
    BY <1>0, <1>1, <1>3 DEF BeginBlock, Goto, TypeOK, CallInv
  <2>3. ~HoldsPairLock(r)'
    BY <2>2 DEF HoldsPairLock, SwipeTx
  <2>4. CallInv(r)' /\ ~InSwipe(r)' /\ BlockInv(r)'
    BY <2>2 DEF CallInv, BlockInv, InSwipe, InBlock, Calls, NoAnswer, SwipeTx,
                BlockTx, Statements, From, To, Actions
  <2> QED BY <1>0, <2>1, <2>3, <2>4, LocalStep
<1>4. ASSUME NEW from \in Users, NEW to \in Users, Unblock(r, from, to)
      PROVE  Consistent'
  <2>1. /\ \A s \in Requests : /\ call'[s] = call[s] /\ wrote'[s] = wrote[s]
        /\ \A s \in Requests \ {r} : pc'[s] = pc[s] /\ answer'[s] = answer[s]
        /\ pc[r] = "idle" /\ pc'[r] = "done" /\ wrote[r] = {}
        /\ swipes' = swipes /\ matches' = matches
        /\ matchEvents' = matchEvents /\ blockEvents' = blockEvents
        /\ blocks' \subseteq blocks
    BY <1>0, <1>1, <1>4 DEF Unblock, Goto, TypeOK, CallInv
  <2>2. PairLockExclusive'
    BY <1>1, <2>1 DEF PairLockExclusive, HoldsPairLock, Pair, From, To, SwipeTx
  <2>3. (CallInv(r) /\ ~InSwipe(r) /\ ~InBlock(r))'
    BY <2>1 DEF CallInv, InSwipe, InBlock, SwipeTx, BlockTx, Statements
  <2>4. ASSUME NEW s \in Requests \ {r}
        PROVE  (CallInv(s) /\ (InSwipe(s) => SwipeInv(s)) /\ (InBlock(s) => BlockInv(s)))'
    <3>1. CallInv(s) /\ (InSwipe(s) => SwipeInv(s)) /\ (InBlock(s) => BlockInv(s))
      BY DEF Consistent
    <3>2. CallInv(s)' /\ InSwipe(s)' = InSwipe(s) /\ InBlock(s)' = InBlock(s)
      BY <2>1, <3>1 DEF CallInv, InSwipe, InBlock, From, To
    <3>3. InSwipe(s) => SwipeInv(s)'
      BY <2>1, <3>1 DEF SwipeInv, From, To, Pair, Direction, Reverse
    <3>4. InBlock(s) => BlockInv(s)'
      BY <2>1, <3>1 DEF BlockInv
    <3> QED BY <3>2, <3>3, <3>4
  <2>5. (MutualLikesAreMatches /\ OneEventPerMatch /\ BlocksAreAnnounced)'
    BY <2>1 DEF Consistent, MutualLikesAreMatches, OneEventPerMatch,
                BlocksAreAnnounced, Liked
  <2> QED BY <1>0, <2>2, <2>3, <2>4, <2>5 DEF Consistent
<1> QED BY <1>2, <1>3, <1>4 DEF Arrive
\* A statement of Swipe before the commit relies on the pair lock, which it
\* keeps, and adds to what the request knows.
LEMMA SwipeStatementConsistent ==
  ASSUME Consistent, NEW r \in Requests,
         \/ LockPair(r) \/ AssertReachable(r) \/ InsertSwipe(r) \/ GetSwipe(r)
         \/ FindMatch(r) \/ HasLiked(r) \/ InsertMatch(r)
  PROVE  Consistent'
<1>0. TypeOK /\ TypeOK'
  BY TypeOKStep DEF Consistent, Proceed
<1>1. /\ CallInv(r) /\ (InSwipe(r) => SwipeInv(r)) /\ (InBlock(r) => BlockInv(r))
      /\ call' = call /\ answer[r] \in Answers
  BY <1>0 DEF Consistent, TypeOK, LockPair, AssertReachable, InsertSwipe, GetSwipe,
         FindMatch, HasLiked, InsertMatch
<1>2. /\ InSwipe(r) /\ SwipeInv(r) /\ ~InBlock(r)
      /\ From(r)' = From(r) /\ To(r)' = To(r) /\ Pair(r)' = Pair(r)
      /\ Direction(r)' = Direction(r) /\ Reverse(r)' = Reverse(r)
      /\ swipes' = swipes /\ matches' = matches
  BY <1>1 DEF LockPair, AssertReachable, InsertSwipe, GetSwipe, FindMatch,
     HasLiked, InsertMatch, CallInv, InSwipe, InBlock, Statements, SwipeTx,
     BlockTx, From, To, Pair, Direction, Reverse, tables
<1>3. CASE LockPair(r)
  <2>1. /\ UNCHANGED tables
        /\ \A s \in Requests \ {r} :
             /\ pc'[s] = pc[s] /\ call'[s] = call[s]
             /\ wrote'[s] = wrote[s] /\ answer'[s] = answer[s]
    BY <1>0, <1>3 DEF LockPair, Goto, Write, TypeOK
  <2>2. /\ pc[r] = "lockPair" /\ pc'[r] = "assertReachable"
        /\ wrote'[r] = wrote[r] /\ answer'[r] = answer[r]
        /\ PairLockFree(r)
    BY <1>0, <1>1, <1>3 DEF LockPair, Goto, Write, TypeOK, Answers
  <2>3. HoldsPairLock(r)' => /\ HoldsPairLock(r) \/ PairLockFree(r)
                             /\ call'[r] = call[r]
    BY <1>1, <1>2, <2>2 DEF HoldsPairLock, InSwipe, SwipeTx
  <2>4. CallInv(r)' /\ (InSwipe(r) => SwipeInv(r))' /\ ~InBlock(r)'
    BY <1>1, <1>2, <2>2 DEF CallInv, SwipeInv, InSwipe, InBlock,
       SwipeTx, BlockTx, Statements, Answers, Actions
  <2> QED BY <1>0, <2>1, <2>3, <2>4, LocalStep
<1>4. CASE AssertReachable(r)
  <2>1. /\ UNCHANGED tables
        /\ \A s \in Requests \ {r} :
             /\ pc'[s] = pc[s] /\ call'[s] = call[s]
             /\ wrote'[s] = wrote[s] /\ answer'[s] = answer[s]
    BY <1>0, <1>4 DEF AssertReachable, Goto, Write, TypeOK
  <2>2. /\ pc[r] = "assertReachable" /\ wrote'[r] = wrote[r]
        /\ \/ pc'[r] = "insertSwipe" /\ answer'[r] = answer[r]
           \/ pc'[r] = "done"
    BY <1>0, <1>1, <1>4 DEF AssertReachable, Goto, Write, TypeOK, Answers
  <2>3. HoldsPairLock(r)' => /\ HoldsPairLock(r) \/ PairLockFree(r)
                             /\ call'[r] = call[r]
    BY <1>1, <1>2, <2>2 DEF HoldsPairLock, InSwipe, SwipeTx
  <2>4. CallInv(r)' /\ (InSwipe(r) => SwipeInv(r))' /\ ~InBlock(r)'
    BY <1>1, <1>2, <2>2 DEF CallInv, SwipeInv, InSwipe, InBlock,
       SwipeTx, BlockTx, Statements, Answers, Actions
  <2> QED BY <1>0, <2>1, <2>3, <2>4, LocalStep
<1>5. CASE InsertSwipe(r)
  <2>1. /\ UNCHANGED tables
        /\ \A s \in Requests \ {r} :
             /\ pc'[s] = pc[s] /\ call'[s] = call[s]
             /\ wrote'[s] = wrote[s] /\ answer'[s] = answer[s]
    BY <1>0, <1>5 DEF InsertSwipe, Goto, Write, TypeOK
  <2>2. /\ pc[r] = "insertSwipe" /\ answer'[r] = answer[r]
        /\ \/ /\ pc'[r] = "getSwipe" /\ wrote'[r] = wrote[r]
              /\ swipes[Direction(r)] # "none"
           \/ /\ pc'[r] = (IF call[r].action = "like" THEN "hasLiked" ELSE "commit")
              /\ wrote'[r] = wrote[r] \cup {"swipe"}
              /\ swipes[Direction(r)] = "none"
    BY <1>0, <1>1, <1>5 DEF InsertSwipe, Goto, Write, TypeOK, Answers
  <2>3. HoldsPairLock(r)' => /\ HoldsPairLock(r) \/ PairLockFree(r)
                             /\ call'[r] = call[r]
    BY <1>1, <1>2, <2>2 DEF HoldsPairLock, InSwipe, SwipeTx
  <2>4. CallInv(r)' /\ (InSwipe(r) => SwipeInv(r))' /\ ~InBlock(r)'
    BY <1>1, <1>2, <2>2 DEF CallInv, SwipeInv, InSwipe, InBlock,
       SwipeTx, BlockTx, Statements, Answers, Actions
  <2> QED BY <1>0, <2>1, <2>3, <2>4, LocalStep
<1>6. CASE GetSwipe(r)
  <2>1. /\ UNCHANGED tables
        /\ \A s \in Requests \ {r} :
             /\ pc'[s] = pc[s] /\ call'[s] = call[s]
             /\ wrote'[s] = wrote[s] /\ answer'[s] = answer[s]
    BY <1>0, <1>6 DEF GetSwipe, Goto, Write, TypeOK
  <2>2. /\ pc[r] = "getSwipe" /\ pc'[r] = "findMatch" /\ wrote'[r] = wrote[r]
        /\ answer'[r] = [answer[r] EXCEPT !.duplicate = TRUE,
                                          !.action = swipes[Direction(r)]]
    BY <1>0, <1>1, <1>6 DEF GetSwipe, Goto, Write, TypeOK, Answers
  <2>3. HoldsPairLock(r)' => /\ HoldsPairLock(r) \/ PairLockFree(r)
                             /\ call'[r] = call[r]
    BY <1>1, <1>2, <2>2 DEF HoldsPairLock, InSwipe, SwipeTx
  <2>4. CallInv(r)' /\ (InSwipe(r) => SwipeInv(r))' /\ ~InBlock(r)'
    BY <1>1, <1>2, <2>2 DEF CallInv, SwipeInv, InSwipe, InBlock,
       SwipeTx, BlockTx, Statements, Answers, Actions
  <2> QED BY <1>0, <2>1, <2>3, <2>4, LocalStep
<1>7. CASE FindMatch(r)
  <2>1. /\ UNCHANGED tables
        /\ \A s \in Requests \ {r} :
             /\ pc'[s] = pc[s] /\ call'[s] = call[s]
             /\ wrote'[s] = wrote[s] /\ answer'[s] = answer[s]
    BY <1>0, <1>7 DEF FindMatch, Goto, Write, TypeOK
  <2>2. /\ pc[r] = "findMatch" /\ pc'[r] = "commit" /\ wrote'[r] = wrote[r]
        /\ answer'[r] = [answer[r] EXCEPT !.matched = (Pair(r) \in matches)]
    BY <1>0, <1>1, <1>7 DEF FindMatch, Goto, Write, TypeOK, Answers
  <2>3. HoldsPairLock(r)' => /\ HoldsPairLock(r) \/ PairLockFree(r)
                             /\ call'[r] = call[r]
    BY <1>1, <1>2, <2>2 DEF HoldsPairLock, InSwipe, SwipeTx
  <2>4. CallInv(r)' /\ (InSwipe(r) => SwipeInv(r))' /\ ~InBlock(r)'
    BY <1>1, <1>2, <2>2 DEF CallInv, SwipeInv, InSwipe, InBlock,
       SwipeTx, BlockTx, Statements, Answers, Actions
  <2> QED BY <1>0, <2>1, <2>3, <2>4, LocalStep
<1>8. CASE HasLiked(r)
  <2>1. /\ UNCHANGED tables
        /\ \A s \in Requests \ {r} :
             /\ pc'[s] = pc[s] /\ call'[s] = call[s]
             /\ wrote'[s] = wrote[s] /\ answer'[s] = answer[s]
    BY <1>0, <1>8 DEF HasLiked, Goto, Write, TypeOK
  <2>2. /\ pc[r] = "hasLiked" /\ wrote'[r] = wrote[r] /\ answer'[r] = answer[r]
        /\ \/ pc'[r] = "insertMatch" /\ swipes[Reverse(r)] = "like"
           \/ pc'[r] = "commit" /\ swipes[Reverse(r)] # "like"
    BY <1>0, <1>1, <1>8 DEF HasLiked, Goto, Write, TypeOK, Answers
  <2>3. HoldsPairLock(r)' => /\ HoldsPairLock(r) \/ PairLockFree(r)
                             /\ call'[r] = call[r]
    BY <1>1, <1>2, <2>2 DEF HoldsPairLock, InSwipe, SwipeTx
  <2>4. CallInv(r)' /\ (InSwipe(r) => SwipeInv(r))' /\ ~InBlock(r)'
    BY <1>1, <1>2, <2>2 DEF CallInv, SwipeInv, InSwipe, InBlock,
       SwipeTx, BlockTx, Statements, Answers, Actions
  <2> QED BY <1>0, <2>1, <2>3, <2>4, LocalStep
<1>9. CASE InsertMatch(r)
  <2>1. /\ UNCHANGED tables
        /\ \A s \in Requests \ {r} :
             /\ pc'[s] = pc[s] /\ call'[s] = call[s]
             /\ wrote'[s] = wrote[s] /\ answer'[s] = answer[s]
    BY <1>0, <1>9 DEF InsertMatch, Goto, Write, TypeOK
  <2>2. /\ pc[r] = "insertMatch"
        /\ answer'[r] = [answer[r] EXCEPT !.matched = TRUE]
        /\ \/ pc'[r] = "commit" /\ Pair(r) \in matches
           \/ pc'[r] = "enqueue" /\ wrote'[r] = wrote[r] \cup {"match"}
    BY <1>0, <1>1, <1>9 DEF InsertMatch, Goto, Write, TypeOK, Answers
  <2>2a. Pair(r) \notin matches
    <3>1. /\ From(r) \in Users /\ To(r) \in Users /\ From(r) # To(r)
          /\ ~Liked(From(r), To(r))
      BY <1>1, <1>2, <1>9 DEF InsertMatch, CallInv, SwipeInv, Statements, SwipeTx,
         Calls, From, To, Direction, Liked
    <3> QED BY <3>1 DEF Consistent, MutualLikesAreMatches, Pair
  <2>3. HoldsPairLock(r)' => /\ HoldsPairLock(r) \/ PairLockFree(r)
                             /\ call'[r] = call[r]
    BY <1>1, <1>2, <2>2 DEF HoldsPairLock, InSwipe, SwipeTx
  <2>4. CallInv(r)' /\ (InSwipe(r) => SwipeInv(r))' /\ ~InBlock(r)'
    BY <1>1, <1>2, <2>2, <2>2a DEF CallInv, SwipeInv, InSwipe, InBlock,
       SwipeTx, BlockTx, Statements, Answers, Actions
  <2> QED BY <1>0, <2>1, <2>3, <2>4, LocalStep
<1> QED BY <1>3, <1>4, <1>5, <1>6, <1>7, <1>8, <1>9
\* Block and the outbox row of either call.
LEMMA OtherStatementConsistent ==
  ASSUME Consistent, NEW r \in Requests, InsertBlock(r) \/ Enqueue(r) \/ Rollback(r)
  PROVE  Consistent'
<1>0. TypeOK /\ TypeOK'
  BY TypeOKStep DEF Consistent, Proceed
<1>1. /\ CallInv(r) /\ (InSwipe(r) => SwipeInv(r)) /\ (InBlock(r) => BlockInv(r))
      /\ call' = call /\ UNCHANGED tables /\ answer[r] \in Answers
      /\ \A s \in Requests \ {r} :
           /\ pc'[s] = pc[s] /\ call'[s] = call[s]
           /\ wrote'[s] = wrote[s] /\ answer'[s] = answer[s]
  BY <1>0 DEF Consistent, TypeOK, InsertBlock, Enqueue, Rollback, Goto, Write
<1>2. /\ From(r)' = From(r) /\ To(r)' = To(r) /\ Pair(r)' = Pair(r)
      /\ Direction(r)' = Direction(r) /\ Reverse(r)' = Reverse(r)
      /\ swipes' = swipes /\ matches' = matches
  BY <1>1 DEF From, To, Pair, Direction, Reverse, tables
<1>3. CASE InsertBlock(r)
  <2>1. /\ pc[r] = "insertBlock" /\ answer'[r] = answer[r]
        /\ \/ pc'[r] = "commit" /\ wrote'[r] = wrote[r]
           \/ pc'[r] = "enqueue" /\ wrote'[r] = wrote[r] \cup {"block"}
    BY <1>0, <1>3 DEF InsertBlock, Goto, Write, TypeOK
  <2>2. InBlock(r) /\ ~HoldsPairLock(r)' /\ ~InSwipe(r)'
    BY <1>1, <2>1 DEF CallInv, InBlock, InSwipe, HoldsPairLock, Statements,
       SwipeTx, BlockTx
  <2>3. CallInv(r)' /\ BlockInv(r)'
    BY <1>1, <1>2, <2>1, <2>2 DEF CallInv, BlockInv, InBlock, BlockTx, Statements
  <2> QED BY <1>0, <1>1, <2>2, <2>3, LocalStep
<1>4. CASE Enqueue(r)
  <2>1. /\ pc[r] = "enqueue" /\ pc'[r] = "commit" /\ answer'[r] = answer[r]
        /\ wrote'[r] = wrote[r] \cup {"event"}
    BY <1>0, <1>4 DEF Enqueue, Goto, Write, TypeOK
  <2>2. InSwipe(r)' = InSwipe(r) /\ InBlock(r)' = InBlock(r)
    BY <1>1, <2>1 DEF InSwipe, InBlock, SwipeTx, BlockTx
  <2>3. HoldsPairLock(r)' => HoldsPairLock(r) /\ call'[r] = call[r]
    BY <1>1, <2>1 DEF HoldsPairLock, SwipeTx
  <2>4. CallInv(r)'
    BY <1>1, <1>2, <2>1, <2>2 DEF CallInv, Statements, SwipeTx, BlockTx
  <2>5. InSwipe(r) => SwipeInv(r)'
    BY <1>1, <1>2, <2>1 DEF SwipeInv
  <2>6. InBlock(r) => BlockInv(r)'
    BY <1>1, <2>1 DEF BlockInv
  <2> QED BY <1>0, <1>1, <2>2, <2>3, <2>4, <2>5, <2>6, LocalStep
<1>5. CASE Rollback(r)
  <2>1. pc'[r] = "done" /\ wrote'[r] = {}
    BY <1>0, <1>5 DEF Rollback, Goto, TypeOK
  <2>2. ~InSwipe(r)' /\ ~InBlock(r)' /\ ~HoldsPairLock(r)' /\ CallInv(r)'
    BY <2>1 DEF InSwipe, InBlock, HoldsPairLock, CallInv, Statements, SwipeTx, BlockTx
  <2> QED BY <1>0, <1>1, <2>2, LocalStep
<1> QED BY <1>3, <1>4, <1>5

\* What a commit does to the tables, by the kind of the transaction.
LEMMA CommitEffect ==
  ASSUME Consistent, NEW r \in Requests, Commit(r)
  PROVE  /\ From(r) \in Users /\ To(r) \in Users /\ From(r) # To(r)
         /\ \A s \in Requests : /\ call'[s] = call[s]
                                /\ From(s)' = From(s) /\ To(s)' = To(s)
                                /\ Pair(s)' = Pair(s)
                                /\ Direction(s)' = Direction(s)
                                /\ Reverse(s)' = Reverse(s)
         /\ \A s \in Requests \ {r} : /\ pc'[s] = pc[s]
                                      /\ wrote'[s] = wrote[s]
                                      /\ answer'[s] = answer[s]
         /\ pc'[r] = "done" /\ wrote'[r] = {}
         /\ \/ UNCHANGED <<swipes, matches, matchEvents, blocks, blockEvents>>
            \/ /\ InBlock(r) /\ wrote[r] = {"block", "event"}
               /\ UNCHANGED <<swipes, matches, matchEvents>>
               /\ blocks' = blocks \cup {Direction(r)}
               /\ blockEvents' = [blockEvents EXCEPT ![Direction(r)] = @ + 1]
            \/ /\ HoldsPairLock(r) /\ SwipeInv(r)
               /\ swipes[Direction(r)] = "none"
               /\ swipes' = [swipes EXCEPT ![Direction(r)] = call[r].action]
               /\ call[r].action \in Actions
               /\ UNCHANGED <<blocks, blockEvents>>
               /\ \/ /\ call[r].action = "like" /\ swipes[Reverse(r)] = "like"
                     /\ matches' = matches \cup {Pair(r)}
                     /\ matchEvents' = [matchEvents EXCEPT ![Pair(r)] = @ + 1]
                  \/ /\ ~(call[r].action = "like" /\ swipes[Reverse(r)] = "like")
                     /\ UNCHANGED <<matches, matchEvents>>
<1>0. TypeOK /\ CallInv(r) /\ pc[r] = "commit"
  BY DEF Consistent, Commit
<1>1. From(r) \in Users /\ To(r) \in Users /\ From(r) # To(r) /\ (InSwipe(r) \/ InBlock(r))
  BY <1>0 DEF CallInv, Statements, SwipeTx, Calls, From, To
<1>2. \A s \in Requests : /\ call'[s] = call[s]
                          /\ From(s)' = From(s) /\ To(s)' = To(s)
                          /\ Pair(s)' = Pair(s)
                          /\ Direction(s)' = Direction(s)
                          /\ Reverse(s)' = Reverse(s)
  BY DEF Commit, From, To, Pair, Direction, Reverse
<1>3. /\ \A s \in Requests \ {r} : /\ pc'[s] = pc[s]
                                   /\ wrote'[s] = wrote[s]
                                   /\ answer'[s] = answer[s]
      /\ pc'[r] = "done" /\ wrote'[r] = {}
  BY <1>0 DEF Commit, Goto, TypeOK
<1>4. CASE InBlock(r)
  <2>1. wrote[r] = {} \/ wrote[r] = {"block", "event"}
    BY <1>0, <1>4 DEF Consistent, BlockInv
  <2> QED BY <1>1, <1>2, <1>3, <1>4, <2>1 DEF Commit, InBlock
<1>5. CASE InSwipe(r)
  <2>1. SwipeInv(r) /\ HoldsPairLock(r) /\ call[r].op = "swipe"
    BY <1>0, <1>5 DEF Consistent, InSwipe, HoldsPairLock, SwipeTx
  <2>2. CASE wrote[r] = {}
    BY <1>1, <1>2, <1>3, <2>2 DEF Commit
  <2>3. CASE wrote[r] = {"swipe"}
    BY <1>0, <1>1, <1>2, <1>3, <2>1, <2>3 DEF Commit, SwipeInv, Actions
  <2>4. CASE wrote[r] = {"swipe", "match", "event"}
    BY <1>0, <1>1, <1>2, <1>3, <2>1, <2>4 DEF Commit, SwipeInv, Actions
  <2> QED BY <1>0, <2>1, <2>2, <2>3, <2>4 DEF SwipeInv
<1> QED BY <1>1, <1>4, <1>5
\* A commit does not change what a request that holds another pair's lock has
\* read: this is what the lock is for.
LEMMA CommitSparesOthers ==
  ASSUME Consistent, NEW r \in Requests, Commit(r),
         NEW s \in Requests \ {r}, HoldsPairLock(s)
  PROVE  /\ swipes'[Direction(s)] = swipes[Direction(s)]
         /\ swipes'[Reverse(s)] = swipes[Reverse(s)]
         /\ (Pair(s) \in matches') = (Pair(s) \in matches)
<1>0. /\ TypeOK /\ PairLockExclusive /\ CallInv(s) /\ pc[s] \in Statements
  BY DEF Consistent, HoldsPairLock, Statements
<1>1. From(s) \in Users /\ To(s) \in Users
  BY <1>0 DEF CallInv, Calls, From, To
<1>2. CASE UNCHANGED <<swipes, matches>>
  BY <1>2
<1>3. CASE HoldsPairLock(r)
  <2>1. Pair(s) # Pair(r)
    BY <1>0, <1>3 DEF PairLockExclusive
  <2>2. Direction(s) # Direction(r) /\ Reverse(s) # Direction(r)
    BY <2>1, SamePair DEF Direction, Reverse, Pair
  <2>3. \/ UNCHANGED <<swipes, matches>>
        \/ /\ swipes' = [swipes EXCEPT ![Direction(r)] = call[r].action]
           /\ matches' = matches \cup {Pair(r)} \/ matches' = matches
    BY CommitEffect
  <2>4. Direction(s) \in Directions /\ Reverse(s) \in Directions
    BY <1>1 DEF Direction, Reverse, Directions
  <2> QED BY <1>0, <2>1, <2>2, <2>3, <2>4 DEF TypeOK
<1> QED BY <1>2, <1>3, CommitEffect

\* Installing a decision keeps the matches those of the mutual likes.
LEMMA CommitTables ==
  ASSUME Consistent, NEW r \in Requests, Commit(r)
  PROVE  (MutualLikesAreMatches /\ OneEventPerMatch /\ BlocksAreAnnounced)'
<1>0. TypeOK /\ MutualLikesAreMatches /\ OneEventPerMatch /\ BlocksAreAnnounced
  BY DEF Consistent
<1>1. From(r) \in Users /\ To(r) \in Users /\ From(r) # To(r)
  BY CommitEffect
<1>2. Direction(r) \in Directions /\ Reverse(r) \in Directions /\ Pair(r) \in Pairs
  BY <1>1 DEF Direction, Reverse, Directions, Pair, Pairs
<1>3. CASE UNCHANGED <<swipes, matches, matchEvents, blocks, blockEvents>>
  BY <1>0, <1>3 DEF MutualLikesAreMatches, OneEventPerMatch, BlocksAreAnnounced, Liked
<1>4. CASE /\ UNCHANGED <<swipes, matches, matchEvents>>
           /\ blocks' = blocks \cup {Direction(r)}
           /\ blockEvents' = [blockEvents EXCEPT ![Direction(r)] = @ + 1]
  <2>1. (MutualLikesAreMatches /\ OneEventPerMatch)'
    BY <1>0, <1>4 DEF MutualLikesAreMatches, OneEventPerMatch, Liked
  <2>2. BlocksAreAnnounced'
    BY <1>0, <1>2, <1>4 DEF BlocksAreAnnounced, TypeOK
  <2> QED BY <2>1, <2>2
<1>5. CASE /\ swipes[Direction(r)] = "none"
           /\ swipes' = [swipes EXCEPT ![Direction(r)] = call[r].action]
           /\ UNCHANGED <<blocks, blockEvents>>
           /\ \/ /\ call[r].action = "like" /\ swipes[Reverse(r)] = "like"
                 /\ matches' = matches \cup {Pair(r)}
                 /\ matchEvents' = [matchEvents EXCEPT ![Pair(r)] = @ + 1]
              \/ /\ ~(call[r].action = "like" /\ swipes[Reverse(r)] = "like")
                 /\ UNCHANGED <<matches, matchEvents>>
  <2>1. Pair(r) \notin matches
    BY <1>0, <1>1, <1>5 DEF MutualLikesAreMatches, Liked, Direction, Pair
  <2>2. Direction(r) # Reverse(r)
    BY <1>1 DEF Direction, Reverse
  <2>3. swipes'[Direction(r)] = call[r].action /\ swipes'[Reverse(r)] = swipes[Reverse(r)]
    BY <1>0, <1>2, <1>5, <2>2 DEF TypeOK
  <2>4. ASSUME NEW u \in Users, NEW v \in Users, u # v
        PROVE  ((Liked(u, v) /\ Liked(v, u)) <=> {u, v} \in matches)'
    <3>1. CASE {u, v} = Pair(r)
      <4>1. \/ <<u, v>> = Direction(r) /\ <<v, u>> = Reverse(r)
            \/ <<v, u>> = Direction(r) /\ <<u, v>> = Reverse(r)
        <5>1. {u, v} = {From(r), To(r)}
          BY <3>1 DEF Pair
        <5>2. (u = From(r) /\ v = To(r)) \/ (u = To(r) /\ v = From(r))
          BY <5>1, SamePair
        <5> QED BY <5>2, Zenon DEF Direction, Reverse
      <4> QED BY <1>5, <2>1, <2>3, <3>1, <4>1 DEF Liked
    <3>2. CASE {u, v} # Pair(r)
      <4>1. <<u, v>> # Direction(r) /\ <<v, u>> # Direction(r)
        BY <3>2, SamePair DEF Pair, Direction
      <4>2. <<u, v>> \in Directions /\ <<v, u>> \in Directions
        BY DEF Directions
      <4>3. swipes'[<<u, v>>] = swipes[<<u, v>>] /\ swipes'[<<v, u>>] = swipes[<<v, u>>]
        BY <1>0, <1>5, <4>1, <4>2 DEF TypeOK
      <4>4. ({u, v} \in matches') <=> ({u, v} \in matches)
        BY <1>5, <3>2
      <4>5. (Liked(u, v) /\ Liked(v, u)) <=> {u, v} \in matches
        BY <1>0, <2>4 DEF MutualLikesAreMatches
      <4> QED BY <4>3, <4>4, <4>5 DEF Liked
    <3> QED BY <3>1, <3>2
  <2>5. OneEventPerMatch'
    BY <1>0, <1>2, <1>5, <2>1 DEF OneEventPerMatch, TypeOK
  <2>6. BlocksAreAnnounced'
    BY <1>0, <1>5 DEF BlocksAreAnnounced
  <2> QED BY <2>4, <2>5, <2>6 DEF MutualLikesAreMatches
<1> QED BY <1>3, <1>4, <1>5, CommitEffect

\* The commit of a request: its transaction is over, and nobody else notices.
LEMMA CommitConsistent ==
  ASSUME Consistent, NEW r \in Requests, Commit(r)
  PROVE  Consistent'
<1>1. TypeOK'
  BY TypeOKStep DEF Proceed
<1>2. ~HoldsPairLock(r)' /\ CallInv(r)' /\ ~InSwipe(r)' /\ ~InBlock(r)'
  BY CommitEffect DEF HoldsPairLock, InSwipe, InBlock, CallInv, Statements,
     SwipeTx, BlockTx
<1>3. \A s \in Requests \ {r} : HoldsPairLock(s)' = HoldsPairLock(s)
  BY CommitEffect DEF HoldsPairLock
<1>4. PairLockExclusive'
  BY <1>2, <1>3, CommitEffect DEF Consistent, PairLockExclusive
<1>5. ASSUME NEW s \in Requests \ {r}
      PROVE  (CallInv(s) /\ (InSwipe(s) => SwipeInv(s)) /\ (InBlock(s) => BlockInv(s)))'
  <2>1. CallInv(s) /\ (InSwipe(s) => SwipeInv(s)) /\ (InBlock(s) => BlockInv(s))
    BY DEF Consistent
  <2>2. /\ pc'[s] = pc[s] /\ call'[s] = call[s] /\ wrote'[s] = wrote[s]
        /\ answer'[s] = answer[s] /\ From(s)' = From(s) /\ To(s)' = To(s)
        /\ Pair(s)' = Pair(s) /\ Direction(s)' = Direction(s)
        /\ Reverse(s)' = Reverse(s)
    BY CommitEffect
  <2>3. CallInv(s)' /\ InSwipe(s)' = InSwipe(s) /\ InBlock(s)' = InBlock(s)
    BY <2>1, <2>2 DEF CallInv, InSwipe, InBlock
  <2>4. InBlock(s) => BlockInv(s)'
    BY <2>1, <2>2 DEF BlockInv
  <2>5. CASE InSwipe(s) /\ HoldsPairLock(s)
    <3>1. /\ swipes'[Direction(s)] = swipes[Direction(s)]
          /\ swipes'[Reverse(s)] = swipes[Reverse(s)]
          /\ (Pair(s) \in matches') = (Pair(s) \in matches)
      BY <2>5, CommitSparesOthers
    <3>2. SwipeInv(s)
      BY <2>1, <2>5
    <3>3. SwipeInv(s)'
      BY <2>2, <3>1, <3>2 DEF SwipeInv
    <3> QED BY <2>3, <2>4, <3>3
  <2>6. CASE InSwipe(s) /\ ~HoldsPairLock(s)
    <3>1. pc[s] = "lockPair" /\ wrote[s] = {}
      BY <2>1, <2>6 DEF InSwipe, HoldsPairLock, CallInv
    <3>2. SwipeInv(s)
      BY <2>1, <2>6
    <3>3. pc'[s] = "lockPair" /\ wrote'[s] = {}
      BY <2>2, <3>1
    <3>4. SwipeInv(s)'
      BY <2>2, <3>1, <3>2, <3>3 DEF SwipeInv
    <3> QED BY <2>3, <2>4, <3>4
  <2> QED BY <2>3, <2>4, <2>5, <2>6
<1> QED BY <1>1, <1>2, <1>4, <1>5, CommitTables DEF Consistent

\* Every step of every request preserves the invariant.
LEMMA NextConsistent == Consistent /\ [Next]_vars => Consistent'
<1> SUFFICES ASSUME Consistent, [Next]_vars PROVE Consistent'
  OBVIOUS
<1>1. ASSUME NEW r \in Requests, Arrive(r) PROVE Consistent'
  BY <1>1, ArriveConsistent
<1>2. ASSUME NEW r \in Requests, Proceed(r) PROVE Consistent'
  BY <1>2, SwipeStatementConsistent, OtherStatementConsistent, CommitConsistent
     DEF Proceed
<1>3. ASSUME NEW r \in Requests, Rollback(r) PROVE Consistent'
  BY <1>3, OtherStatementConsistent
<1>4. CASE UNCHANGED vars
  <2> USE <1>4 DEF vars, tables
  <2>1. TypeOK' /\ PairLockExclusive'
    BY DEF Consistent, TypeOK, PairLockExclusive, HoldsPairLock, Pair, From, To
  <2>2. ASSUME NEW r \in Requests
        PROVE  (CallInv(r) /\ (InSwipe(r) => SwipeInv(r)) /\ (InBlock(r) => BlockInv(r)))'
    BY DEF Consistent, CallInv, InSwipe, SwipeInv, InBlock, BlockInv, Pair,
       Direction, Reverse, From, To
  <2>3. (MutualLikesAreMatches /\ OneEventPerMatch /\ BlocksAreAnnounced)'
    BY DEF Consistent, MutualLikesAreMatches, OneEventPerMatch,
       BlocksAreAnnounced, Liked
  <2> QED BY <2>1, <2>2, <2>3 DEF Consistent
<1> QED BY <1>1, <1>2, <1>3, <1>4 DEF Next

\* The inductive invariant of Matching: what its requests rely on while they
\* hold the pair lock, and what the committed tables say about each other.
THEOREM SpecConsistent == Spec => []Consistent
<1>1. Consistent /\ [Next]_vars => Consistent'
  BY NextConsistent
<1> QED BY InitConsistent, <1>1, PTL DEF Spec

\* Rows, labels and answers keep their types.
THEOREM SpecTypeOK == Spec => []TypeOK
<1>1. Consistent => TypeOK
  BY DEF Consistent
<1> QED BY <1>1, SpecConsistent, PTL

\* Whatever the interleaving, and however pairs hash to lock keys, two people
\* are matched exactly when they like each other.
THEOREM SpecMutualLikesAreMatches == Spec => []MutualLikesAreMatches
<1>1. Consistent => MutualLikesAreMatches
  BY DEF Consistent
<1> QED BY <1>1, SpecConsistent, PTL

\* Every match is announced once, and nothing else is.
THEOREM SpecOneEventPerMatch == Spec => []OneEventPerMatch
<1>1. Consistent => OneEventPerMatch
  BY DEF Consistent
<1> QED BY <1>1, SpecConsistent, PTL

\* A block that stands was announced, however blocks and unblocks interleave.
THEOREM SpecBlocksAreAnnounced == Spec => []BlocksAreAnnounced
<1>1. Consistent => BlocksAreAnnounced
  BY DEF Consistent
<1> QED BY <1>1, SpecConsistent, PTL

\* A step other than the commit of a swipe changes no decision and no match.
LEMMA OnlyCommitDecides ==
  ASSUME Consistent, [Next]_vars
  PROVE  \/ UNCHANGED <<swipes, matches, matchEvents>>
         \/ \E r \in Requests :
              /\ Commit(r)
              /\ swipes[Direction(r)] = "none"
              /\ From(r) \in Users /\ To(r) \in Users /\ From(r) # To(r)
              /\ call[r].action \in Actions
              /\ swipes' = [swipes EXCEPT ![Direction(r)] = call[r].action]
              /\ \/ /\ call[r].action = "like" /\ swipes[Reverse(r)] = "like"
                    /\ matches' = matches \cup {Pair(r)}
                    /\ matchEvents' = [matchEvents EXCEPT ![Pair(r)] = @ + 1]
                 \/ /\ ~(call[r].action = "like" /\ swipes[Reverse(r)] = "like")
                    /\ UNCHANGED <<matches, matchEvents>>
<1>1. ASSUME NEW r \in Requests, Arrive(r)
      PROVE  UNCHANGED <<swipes, matches, matchEvents>>
  BY <1>1 DEF Arrive, BeginSwipe, BeginBlock, Unblock, tables
<1>2. ASSUME NEW r \in Requests, Rollback(r) \/ (Proceed(r) /\ ~Commit(r))
      PROVE  UNCHANGED <<swipes, matches, matchEvents>>
  BY <1>2 DEF Rollback, Proceed, LockPair, AssertReachable, InsertSwipe, GetSwipe,
     FindMatch, HasLiked, InsertMatch, InsertBlock, Enqueue, tables
<1>3. CASE UNCHANGED vars
  BY <1>3 DEF vars, tables
<1>4. CASE \E r \in Requests : Commit(r)
  <2>1. PICK r \in Requests : Commit(r)
    BY <1>4
  <2> QED BY <2>1, CommitEffect
<1> QED BY <1>1, <1>2, <1>3, <1>4 DEF Next

\* Decisions and matches are permanent.
THEOREM SpecDecisionsStand == Spec => DecisionsStand
<1>1. ASSUME Consistent, [Next]_vars
      PROVE  /\ \A d \in Directions : swipes[d] # "none" => swipes'[d] = swipes[d]
             /\ matches \subseteq matches'
  <2>1. TypeOK
    BY <1>1 DEF Consistent
  <2>2. CASE UNCHANGED <<swipes, matches, matchEvents>>
    BY <2>2
  <2>3. ASSUME NEW r \in Requests,
               swipes[Direction(r)] = "none",
               swipes' = [swipes EXCEPT ![Direction(r)] = call[r].action],
               matches' = matches \cup {Pair(r)} \/ matches' = matches
        PROVE  /\ \A d \in Directions : swipes[d] # "none" => swipes'[d] = swipes[d]
               /\ matches \subseteq matches'
    BY <2>1, <2>3 DEF TypeOK
  <2> QED BY <1>1, <2>2, <2>3, OnlyCommitDecides
<1> QED BY <1>1, SpecConsistent, PTL DEF Spec, DecisionsStand

\* A commit answers with what it leaves in the tables.
LEMMA CommitAnswers ==
  ASSUME Consistent, NEW r \in Requests, Commit(r), call[r].op = "swipe"
  PROVE  /\ answer'[r].action = swipes'[Direction(r)]
         /\ answer'[r].matched = (Pair(r) \in matches')
<1>1. TypeOK /\ InSwipe(r) /\ SwipeInv(r) /\ pc[r] = "commit"
  BY DEF Consistent, Commit, InSwipe, SwipeTx
<1>2. answer'[r].action = answer[r].action /\ answer'[r].matched = answer[r].matched
  <2>1. answer[r] \in Answers /\ answer \in [Requests -> Answers]
    BY <1>1 DEF TypeOK
  <2>2. PICK t \in {"ok", "error"} : answer' = [answer EXCEPT ![r].status = t]
    BY DEF Commit
  <2> QED BY <2>1, <2>2 DEF Answers
<1>3. From(r) \in Users /\ To(r) \in Users /\ From(r) # To(r)
  BY CommitEffect
<1>4. Direction(r) \in Directions
  BY <1>3 DEF Direction, Directions
<1>5. answer[r].matched \in BOOLEAN
  BY <1>1 DEF TypeOK, Answers
<1>6. CASE wrote[r] = {}
  <2>1. swipes' = swipes /\ matches' = matches
    BY <1>6 DEF Commit
  <2> QED BY <1>1, <1>2, <1>6, <2>1 DEF SwipeInv
<1>7. CASE wrote[r] = {"swipe"}
  <2>1. /\ swipes' = [swipes EXCEPT ![Direction(r)] = call[r].action] /\ matches' = matches
        /\ swipes[Direction(r)] = "none" /\ ~answer[r].matched
        /\ answer[r].action = call[r].action
    BY <1>1, <1>7 DEF Commit, SwipeInv
  <2>2. Pair(r) \notin matches
    BY <1>3, <2>1 DEF Consistent, MutualLikesAreMatches, Liked, Direction, Pair
  <2> QED BY <1>1, <1>2, <1>4, <1>5, <2>1, <2>2 DEF TypeOK
<1>8. CASE wrote[r] = {"swipe", "match", "event"}
  <2>1. /\ swipes' = [swipes EXCEPT ![Direction(r)] = call[r].action]
        /\ matches' = matches \cup {Pair(r)} /\ answer[r].matched
        /\ answer[r].action = call[r].action
    BY <1>1, <1>8 DEF Commit, SwipeInv
  <2> QED BY <1>1, <1>2, <1>4, <1>5, <2>1 DEF TypeOK
<1> QED BY <1>1, <1>6, <1>7, <1>8 DEF SwipeInv

\* A swipe that succeeds is answered with the decision on record and the
\* truth about the match, whatever raced it (service.go:256-288).
THEOREM SpecAnswersAreTrue == Spec => AnswersAreTrue
<1>1. ASSUME Consistent, [Next]_vars, NEW r \in Requests,
             pc[r] # "done", answer'[r].status = "ok", call[r].op = "swipe"
      PROVE  /\ answer'[r].action = swipes'[Direction(r)]
             /\ answer'[r].matched = (Pair(r) \in matches')
  <2>1. /\ TypeOK /\ CallInv(r) /\ pc[r] \in Statements \cup {"idle", "done"}
    BY <1>1 DEF Consistent, TypeOK
  <2>2. pc[r] # "idle" /\ answer[r].status # "ok"
    BY <1>1, <2>1 DEF CallInv, NoCall
  <2>3. CASE UNCHANGED vars
    BY <1>1, <2>2, <2>3 DEF vars
  <2>4. ASSUME NEW s \in Requests, Arrive(s) \/ Rollback(s) \/ (Proceed(s) /\ ~Commit(s))
        PROVE  FALSE
    <3>1. answer \in [Requests -> Answers]
      BY <2>1 DEF TypeOK
    <3>2. CASE s # r
      <4>1. answer'[r] = answer[r]
        BY <2>4, <3>1, <3>2 DEF Arrive, BeginSwipe, BeginBlock, Unblock, Rollback,
           Proceed, LockPair, AssertReachable, InsertSwipe, GetSwipe, FindMatch,
           HasLiked, InsertMatch, InsertBlock, Enqueue
      <4> QED BY <1>1, <2>2, <4>1
    <3>3. CASE s = r
      <4>1. ~Arrive(r)
        BY <2>2 DEF Arrive, BeginSwipe, BeginBlock, Unblock
      <4>2. answer'[r].status = answer[r].status \/ answer'[r].status \in {"refused", "error"}
        BY <2>4, <3>1, <3>3, <4>1 DEF Rollback, Answers,
           Proceed, LockPair, AssertReachable, InsertSwipe, GetSwipe, FindMatch,
           HasLiked, InsertMatch, InsertBlock, Enqueue
      <4> QED BY <1>1, <2>2, <4>2
    <3> QED BY <3>2, <3>3
  <2>5. ASSUME NEW s \in Requests, Commit(s), s # r
        PROVE  FALSE
    <3>1. answer'[r] = answer[r]
      BY <1>1, <2>5, CommitEffect
    <3> QED BY <1>1, <2>2, <3>1
  <2>6. CASE Commit(r)
    BY <1>1, <2>6, CommitAnswers
  <2> QED BY <1>1, <2>3, <2>4, <2>5, <2>6 DEF Next
<1>2. ASSUME Consistent, [Next]_vars
      PROVE  \A r \in Requests :
               (pc[r] # "done" /\ answer'[r].status = "ok" /\ call[r].op = "swipe")
                 => /\ answer'[r].action = swipes'[Direction(r)]
                    /\ answer'[r].matched = (Pair(r) \in matches')
  BY <1>1, <1>2
<1> QED BY <1>2, SpecConsistent, PTL DEF Spec, AnswersAreTrue

\* Matching implements the promise of the service: each step is a decision
\* with its match and announcement, or changes none of them.
THEOREM SpecImplementsPromise == Spec => PromiseSpec
<1>1. Init => Promise!Init
  BY DEF Init, Promise!Init, Directions, Pairs, Promise!Pairs
<1>2. ASSUME Consistent, [Next]_vars
      PROVE  [Promise!Next]_(Promise!vars)
  <2>1. CASE UNCHANGED <<swipes, matches, matchEvents>>
    BY <2>1 DEF Promise!vars
  <2>2. ASSUME NEW r \in Requests,
               swipes[Direction(r)] = "none",
               From(r) \in Users, To(r) \in Users, From(r) # To(r),
               call[r].action \in Actions,
               swipes' = [swipes EXCEPT ![Direction(r)] = call[r].action],
               \/ /\ call[r].action = "like" /\ swipes[Reverse(r)] = "like"
                  /\ matches' = matches \cup {Pair(r)}
                  /\ matchEvents' = [matchEvents EXCEPT ![Pair(r)] = @ + 1]
               \/ /\ ~(call[r].action = "like" /\ swipes[Reverse(r)] = "like")
                  /\ UNCHANGED <<matches, matchEvents>>
        PROVE  Promise!Next
    <3>1. Promise!Decide(From(r), To(r), call[r].action)
      BY <2>2 DEF Promise!Decide, Direction, Reverse, Pair
    <3> QED BY <2>2, <3>1 DEF Promise!Next, Actions
  <2> QED BY <1>2, <2>1, <2>2, OnlyCommitDecides
<1> QED BY <1>1, <1>2, SpecConsistent, PTL DEF Spec, PromiseSpec, Promise!Spec
=============================================================================
