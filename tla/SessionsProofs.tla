--------------------------- MODULE SessionsProofs ---------------------------
(***************************************************************************)
(* For any number of requests, sessions, rotations and reset links: the    *)
(* row locks keep a rotation from losing its session and a token from      *)
(* being served twice, a link sets one password, and a reset signs out     *)
(* every session there was when it took its link.                          *)
(***************************************************************************)
EXTENDS Sessions, TLAPS

Labels == Statements \cup {"idle"}
Holding == {"rotate", "commitReset"}
Resetting == {"revokeAll", "commitReset"}

\* What a request carries.
RequestOK(r) ==
  /\ pc[r] = "createSession" => req[r] \in Passwords
  /\ pc[r] \in {"findSession", "rotate"} =>
       /\ req[r].session \in SessionIds
       /\ req[r].rotation \in Rotations
       /\ req[r].rotation < MaxRotations
  /\ pc[r] = "revoke" => req[r].session \in SessionIds
  /\ pc[r] \in {"claim", "updatePassword"} \cup Resetting =>
       req[r].token \in ResetTokens /\ req[r].password \in Passwords

\* At most one reset is past the row of the user.
OneReset ==
  \A q, r \in Requests : pc[q] \in Resetting /\ pc[r] \in Resetting => q = r

RequestsInv ==
  /\ pc \in [Requests -> Labels]
  /\ DOMAIN req = Requests
  /\ \A r \in Requests : RequestOK(r)
  /\ OneReset

\* A locked session is live, and its lock belongs to a rotation or a reset.
LockOK(s) ==
  rowLock[s] # NoOne => Live(s) /\ pc[rowLock[s]] \in Holding

\* No token at or past the head of its session has been redeemed.
RedeemedOK(s) ==
  \A n \in Rotations :
    redeemed[<<s, n>>] <= 1 /\ (sess[s].rotation <= n => redeemed[<<s, n>>] = 0)

\* A rotation holds the row that it has read.
HoldsItsRow(r) ==
  pc[r] = "rotate" =>
    rowLock[req[r].session] = r /\ IsCurrent(req[r].session, req[r].rotation)

\* A reset that is about to commit holds what is left of the sessions that were
\* live when it took its link.
HoldsExisting(r) ==
  \A s \in existing[r] :
    /\ sess[s].status # "none"
    /\ pc[r] = "commitReset" /\ Live(s) => rowLock[s] = r

SessionRowsInv ==
  /\ sess \in [SessionIds -> SessionRows]
  /\ rowLock \in [SessionIds -> Requests \cup {NoOne}]
  /\ redeemed \in [Tokens -> Nat]
  /\ existing \in [Requests -> SUBSET SessionIds]
  /\ \A s \in SessionIds : LockOK(s) /\ RedeemedOK(s)
  /\ \A r \in Requests : HoldsItsRow(r) /\ HoldsExisting(r)

\* A link that somebody is about to use up is open and nobody else's.
LinksInv ==
  /\ password \in Passwords
  /\ reset \in [ResetTokens -> {"none", "open", "used", "expired"}]
  /\ burned \in [Requests -> SUBSET ResetTokens]
  /\ resets \in [ResetTokens -> Nat]
  /\ \A t \in ResetTokens : resets[t] = 0 \/ (resets[t] = 1 /\ reset[t] = "used")
  /\ \A r \in Requests : \A t \in burned[r] : reset[t] = "open"
  /\ \A q, r \in Requests : q # r => burned[q] \cap burned[r] = {}

SessionsInv == RequestsInv /\ SessionRowsInv /\ LinksInv

-----------------------------------------------------------------------------
\* One request moves on; the others stay where they are.
OthersStay(r) ==
  \A q \in Requests \ {r} : pc'[q] = pc[q] /\ req'[q] = req[q]

LEMMA RequestMoves ==
  ASSUME RequestsInv, NEW r \in Requests, NEW label \in Labels,
         pc' = [pc EXCEPT ![r] = label],
         req' = req \/ \E input : req' = [req EXCEPT ![r] = input]
  PROVE  /\ pc' \in [Requests -> Labels] /\ pc'[r] = label
         /\ DOMAIN req' = Requests
         /\ OthersStay(r)
BY DEF RequestsInv, OthersStay

LEMMA RequestInput ==
  ASSUME RequestsInv, NEW r \in Requests, NEW input, req' = [req EXCEPT ![r] = input]
  PROVE  req'[r] = input
BY DEF RequestsInv

\* The rest of what is said of requests follows for the one that has moved.
LEMMA RequestsKept ==
  ASSUME RequestsInv, NEW r \in Requests, pc' \in [Requests -> Labels],
         DOMAIN req' = Requests, OthersStay(r), RequestOK(r)',
         pc'[r] \in Resetting =>
           pc[r] \in Resetting \/ \A q \in Requests : pc[q] \notin Resetting
  PROVE  RequestsInv'
<1>1. \A q \in Requests : RequestOK(q)'
  BY DEF RequestsInv, RequestOK, OthersStay
<1>2. OneReset'
  BY DEF RequestsInv, OneReset, OthersStay
<1> QED BY <1>1, <1>2 DEF RequestsInv

\* A request outside the row locks moves to a place outside them.
LEMMA RowsKept ==
  ASSUME SessionsInv, NEW r \in Requests, OthersStay(r),
         pc[r] \notin Holding, pc'[r] \notin Holding,
         UNCHANGED <<sess, rowLock, redeemed>>,
         existing' \in [Requests -> SUBSET SessionIds],
         \A q \in Requests \ {r} : existing'[q] = existing[q],
         \A s \in existing'[r] : sess[s].status # "none"
  PROVE  SessionRowsInv'
<1>1. ASSUME NEW s \in SessionIds
      PROVE  LockOK(s)' /\ RedeemedOK(s)'
  <2>1. rowLock[s] # r
    BY SessionsAssumption DEF SessionsInv, SessionRowsInv, LockOK
  <2>2. rowLock[s] # NoOne => pc'[rowLock[s]] = pc[rowLock[s]]
    BY <2>1 DEF SessionsInv, SessionRowsInv, OthersStay
  <2> QED BY <2>2 DEF SessionsInv, SessionRowsInv, LockOK, RedeemedOK, Live
<1>2. ASSUME NEW q \in Requests
      PROVE  HoldsItsRow(q)' /\ HoldsExisting(q)'
  <2>1. CASE q = r
    BY <2>1 DEF HoldsItsRow, HoldsExisting, Holding
  <2>2. CASE q # r
    BY <2>2 DEF SessionsInv, SessionRowsInv, HoldsItsRow, HoldsExisting, Live, IsCurrent,
       OthersStay
  <2> QED BY <2>1, <2>2
<1> QED BY <1>1, <1>2 DEF SessionsInv, SessionRowsInv

LEMMA LinksKept ==
  ASSUME LinksInv, UNCHANGED <<password, reset, burned, resets>>
  PROVE  LinksInv'
BY DEF LinksInv

\* A call arrives.
LEMMA BeginInv ==
  ASSUME SessionsInv, NEW r \in Requests, Arrive(r)
  PROVE  SessionsInv'
<1>1. UNCHANGED <<rows, rowLock, burned, history>> /\ pc[r] = "idle"
  BY DEF Arrive, BeginLogin, BeginRefresh, BeginRevoke, BeginForgot, BeginReset, Begin
<1>2. PICK label \in {"createSession", "findSession", "revoke", "invalidate", "claim"} :
        \E input : Begin(r, label, input)
  BY DEF Arrive, BeginLogin, BeginRefresh, BeginRevoke, BeginForgot, BeginReset
<1>3. label \in Labels /\ pc' = [pc EXCEPT ![r] = label]
      /\ \E input : req' = [req EXCEPT ![r] = input]
  BY <1>2 DEF Begin, Labels, Statements
<1>4. /\ pc' \in [Requests -> Labels] /\ pc'[r] = label /\ DOMAIN req' = Requests
      /\ OthersStay(r)
  BY <1>3, RequestMoves DEF SessionsInv
<1>5. RequestOK(r)'
  <2>0. RequestsInv /\ pc' \in [Requests -> Labels] /\ sess \in [SessionIds -> SessionRows]
        /\ password \in Passwords
    BY <1>4 DEF SessionsInv, SessionRowsInv, LinksInv
  <2>1. ASSUME NEW p \in Passwords, BeginLogin(r, p)
        PROVE  RequestOK(r)'
    <3>1. pc'[r] = "createSession" /\ req'[r] = p
      BY <2>0, <2>1, RequestInput DEF BeginLogin, Begin, RequestsInv
    <3> QED BY <3>1 DEF RequestOK, Resetting
  <2>2. ASSUME NEW s \in SessionIds, NEW n \in Rotations, BeginRefresh(r, s, n)
        PROVE  RequestOK(r)'
    <3>1. pc'[r] = "findSession" /\ req'[r] = [session |-> s, rotation |-> n] /\ n < MaxRotations
      BY <2>0, <2>2, RequestInput DEF BeginRefresh, Begin, RequestsInv
    <3> QED BY <3>1 DEF RequestOK, Resetting
  <2>3. ASSUME NEW s \in SessionIds, BeginRevoke(r, s)
        PROVE  RequestOK(r)'
    <3>1. pc'[r] = "revoke" /\ req'[r] = [session |-> s]
      BY <2>0, <2>3, RequestInput DEF BeginRevoke, Begin, RequestsInv
    <3> QED BY <3>1 DEF RequestOK, Resetting
  <2>4. CASE BeginForgot(r)
    <3>1. pc'[r] = "invalidate"
      BY <2>0, <2>4 DEF BeginForgot, Begin, RequestsInv
    <3> QED BY <3>1 DEF RequestOK, Resetting
  <2>5. ASSUME NEW t \in ResetTokens, NEW p \in Passwords, BeginReset(r, t, p)
        PROVE  RequestOK(r)'
    <3>1. pc'[r] = "claim" /\ req'[r] = [token |-> t, password |-> p]
      BY <2>0, <2>5, RequestInput DEF BeginReset, Begin, RequestsInv
    <3> QED BY <3>1 DEF RequestOK, Resetting
  <2> QED BY <2>1, <2>2, <2>3, <2>4, <2>5 DEF Arrive
<1>6. RequestsInv'
  BY <1>2, <1>4, <1>5, RequestsKept DEF SessionsInv, Resetting
<1>7. SessionRowsInv'
  <2>1. pc[r] \notin Holding /\ pc'[r] \notin Holding
    BY <1>1, <1>2, <1>4 DEF Holding
  <2>2. UNCHANGED <<sess, rowLock, redeemed, existing>>
    BY <1>1 DEF rows, history
  <2>3. \A s \in existing[r] : sess[s].status # "none"
    BY DEF SessionsInv, SessionRowsInv, HoldsExisting
  <2> QED BY <1>4, <2>1, <2>2, <2>3, RowsKept DEF SessionsInv, SessionRowsInv
<1>8. LinksInv'
  BY <1>1, LinksKept DEF SessionsInv, rows, history
<1> QED BY <1>6, <1>7, <1>8 DEF SessionsInv

\* A request is answered, and what it held is let go.
LEMMA Answered ==
  ASSUME RequestsInv, NEW r \in Requests, Answer(r)
  PROVE  /\ RequestsInv' /\ pc'[r] = "idle" /\ OthersStay(r)
         /\ req'[r] = <<>>
<1>1. "idle" \in Labels
  BY DEF Labels
<1>2. /\ pc' \in [Requests -> Labels] /\ pc'[r] = "idle" /\ DOMAIN req' = Requests
      /\ OthersStay(r)
  BY <1>1, RequestMoves DEF Answer
<1>3. RequestOK(r)'
  BY <1>2 DEF RequestOK, Resetting
<1> QED BY <1>2, <1>3, RequestsKept, RequestInput DEF Answer, Resetting

\* A request goes on with what it carries.
LEMMA GoesOn ==
  ASSUME RequestsInv, NEW r \in Requests, NEW label \in Labels, Goto(r, label),
         \/ pc[r] = "findSession" /\ label \in {"rotate", "revoke"}
         \/ pc[r] = "invalidate" /\ label = "createToken"
         \/ pc[r] = "claim" /\ label = "updatePassword"
         \/ pc[r] = "updatePassword" /\ label = "revokeAll"
              /\ \A q \in Requests : pc[q] \notin Resetting
         \/ pc[r] = "revokeAll" /\ label = "commitReset"
  PROVE  RequestsInv' /\ pc'[r] = label /\ OthersStay(r) /\ req' = req
<1>1. /\ pc' \in [Requests -> Labels] /\ pc'[r] = label /\ DOMAIN req' = Requests
      /\ OthersStay(r) /\ req' = req
  BY RequestMoves DEF Goto
<1>2. RequestOK(r)'
  BY <1>1 DEF RequestsInv, RequestOK, Resetting
<1> QED BY <1>1, <1>2, RequestsKept DEF Resetting

-----------------------------------------------------------------------------
\* Login stores the row of a session that was not there.
LEMMA CreateSessionInv ==
  ASSUME SessionsInv, NEW r \in Requests, CreateSession(r)
  PROVE  SessionsInv'
<1>1. /\ pc[r] = "createSession" /\ req[r] \in Passwords
      /\ UNCHANGED <<password, reset, rowLock, burned, redeemed, resets, existing>>
  BY DEF CreateSession, history, SessionsInv, RequestsInv, RequestOK
<1>2. RequestsInv' /\ pc'[r] = "idle" /\ OthersStay(r)
  BY Answered DEF SessionsInv, CreateSession
<1>3. PICK s \in SessionIds :
        /\ sess[s].status = "none"
        /\ sess' = [sess EXCEPT ![s].status = "live", ![s].password = req[r]]
  BY DEF CreateSession
<1>4. sess \in [SessionIds -> SessionRows]
  BY DEF SessionsInv, SessionRowsInv
<1>5. /\ sess' \in [SessionIds -> SessionRows]
      /\ sess'[s].status = "live" /\ sess'[s].rotation = sess[s].rotation
      /\ \A u \in SessionIds \ {s} : sess'[u] = sess[u]
  BY <1>1, <1>3, <1>4 DEF SessionRows
<1>6. ASSUME NEW u \in SessionIds
      PROVE  LockOK(u)' /\ RedeemedOK(u)'
  <2>1. RedeemedOK(u)'
    BY <1>1, <1>5 DEF SessionsInv, SessionRowsInv, RedeemedOK
  <2>2. rowLock[s] = NoOne
    BY <1>3 DEF SessionsInv, SessionRowsInv, LockOK, Live
  <2>3. rowLock[u] # r
    BY <1>1, SessionsAssumption DEF SessionsInv, SessionRowsInv, LockOK, Holding
  <2>4. rowLock[u] # NoOne => pc'[rowLock[u]] = pc[rowLock[u]]
    BY <1>2, <2>3 DEF SessionsInv, SessionRowsInv, OthersStay
  <2> QED BY <1>1, <1>5, <2>1, <2>2, <2>4 DEF SessionsInv, SessionRowsInv, LockOK, Live
<1>7. ASSUME NEW q \in Requests
      PROVE  HoldsItsRow(q)' /\ HoldsExisting(q)'
  <2>1. CASE q = r
    BY <1>1, <1>2, <1>3, <1>5, <2>1 DEF SessionsInv, SessionRowsInv, HoldsItsRow, HoldsExisting
  <2>2. CASE q # r
    <3>1. pc'[q] = pc[q] /\ req'[q] = req[q] /\ existing'[q] = existing[q]
          /\ existing[q] \subseteq SessionIds
      BY <1>1, <1>2, <2>2 DEF OthersStay, SessionsInv, SessionRowsInv
    <3>2. pc[q] = "rotate" => req[q].session \in SessionIds
      BY DEF SessionsInv, RequestsInv, RequestOK
    <3>3. HoldsItsRow(q) /\ HoldsExisting(q)
      BY DEF SessionsInv, SessionRowsInv
    <3> QED BY <1>1, <1>3, <1>5, <3>1, <3>2, <3>3
        DEF HoldsItsRow, HoldsExisting, IsCurrent, Live
  <2> QED BY <2>1, <2>2
<1>8. SessionRowsInv'
  BY <1>1, <1>5, <1>6, <1>7 DEF SessionsInv, SessionRowsInv
<1> QED BY <1>1, <1>2, <1>8, LinksKept DEF SessionsInv

\* A refresh finds its session: live and current, and then holds its row; or it
\* goes on to revoke it, or is refused.
LEMMA FindSessionInv ==
  ASSUME SessionsInv, NEW r \in Requests, FindSession(r)
  PROVE  SessionsInv'
<1> DEFINE s == req[r].session
           n == req[r].rotation
<1>1. /\ pc[r] = "findSession" /\ s \in SessionIds /\ ~Locked(s)
      /\ UNCHANGED <<rows, burned, history>>
  BY DEF FindSession, SessionsInv, RequestsInv, RequestOK
<1>2. UNCHANGED <<sess, redeemed, existing, password, reset, burned, resets>>
  BY <1>1 DEF rows, history
<1>3. LinksInv'
  BY <1>2, LinksKept DEF SessionsInv
<1>4. \A u \in existing[r] : sess[u].status # "none"
  BY DEF SessionsInv, SessionRowsInv, HoldsExisting
<1>5. CASE UNCHANGED rowLock /\ (Answer(r) \/ Goto(r, "revoke"))
  <2>1. RequestsInv' /\ pc'[r] \in {"idle", "revoke"} /\ OthersStay(r)
    BY <1>1, <1>5, Answered, GoesOn DEF SessionsInv, Labels, Statements
  <2>2. pc[r] \notin Holding /\ pc'[r] \notin Holding
    BY <1>1, <2>1 DEF Holding
  <2>3. SessionRowsInv'
    BY <1>2, <1>4, <1>5, <2>1, <2>2, RowsKept DEF SessionsInv, SessionRowsInv
  <2> QED BY <1>3, <2>1, <2>3 DEF SessionsInv
<1>6. CASE /\ Stored(s) /\ IsCurrent(s, n) /\ Live(s) /\ ~sess[s].expired
           /\ rowLock' = [rowLock EXCEPT ![s] = r] /\ Goto(r, "rotate")
  <2>1. RequestsInv' /\ pc'[r] = "rotate" /\ OthersStay(r) /\ req' = req
    BY <1>1, <1>6, GoesOn DEF SessionsInv, Labels, Statements
  <2>2. /\ rowLock' \in [SessionIds -> Requests \cup {NoOne}] /\ rowLock'[s] = r
        /\ \A u \in SessionIds \ {s} : rowLock'[u] = rowLock[u]
        /\ \A u \in SessionIds : rowLock[u] # r
    <3>1. rowLock \in [SessionIds -> Requests \cup {NoOne}]
      BY DEF SessionsInv, SessionRowsInv
    <3>2. \A u \in SessionIds : rowLock[u] # r
      BY <1>1, SessionsAssumption DEF SessionsInv, SessionRowsInv, LockOK, Holding
    <3> QED BY <1>1, <1>6, <3>1, <3>2
  <2>3. ASSUME NEW u \in SessionIds
        PROVE  LockOK(u)' /\ RedeemedOK(u)'
    <3>1. RedeemedOK(u)'
      BY <1>2 DEF SessionsInv, SessionRowsInv, RedeemedOK
    <3>2. CASE u = s
      BY <1>2, <1>6, <2>1, <2>2, <3>1, <3>2 DEF LockOK, Live, Holding
    <3>3. CASE u # s
      <4>1. rowLock'[u] = rowLock[u] /\ rowLock[u] # r
            /\ (rowLock[u] # NoOne => pc'[rowLock[u]] = pc[rowLock[u]])
        BY <2>1, <2>2, <3>3 DEF OthersStay, SessionsInv, SessionRowsInv
      <4> QED BY <1>2, <3>1, <4>1 DEF SessionsInv, SessionRowsInv, LockOK, Live
    <3> QED BY <3>2, <3>3
  <2>4. ASSUME NEW q \in Requests
        PROVE  HoldsItsRow(q)' /\ HoldsExisting(q)'
    <3>1. CASE q = r
      BY <1>2, <1>4, <1>6, <2>1, <2>2, <3>1 DEF HoldsItsRow, HoldsExisting, IsCurrent
    <3>2. CASE q # r
      <4>1. pc'[q] = pc[q] /\ existing[q] \subseteq SessionIds
            /\ HoldsItsRow(q) /\ HoldsExisting(q)
            /\ (pc[q] = "rotate" => req[q].session \in SessionIds)
        BY <2>1, <3>2 DEF OthersStay, SessionsInv, SessionRowsInv, RequestsInv, RequestOK
      <4>2. rowLock[s] = NoOne
        BY <1>1 DEF Locked
      <4>3. \A u \in SessionIds : rowLock[u] = q => rowLock'[u] = q
        BY <2>2, <4>2, SessionsAssumption
      <4> QED BY <1>2, <2>1, <4>1, <4>3 DEF HoldsItsRow, HoldsExisting, IsCurrent, Live
    <3> QED BY <3>1, <3>2
  <2>5. SessionRowsInv'
    BY <1>2, <2>2, <2>3, <2>4 DEF SessionsInv, SessionRowsInv
  <2> QED BY <1>3, <2>1, <2>5 DEF SessionsInv
<1> QED BY <1>5, <1>6 DEF FindSession

\* The rows that a request held, when it has ended its transaction.
LEMMA LocksLetGo ==
  ASSUME SessionsInv, NEW r \in Requests, rowLock' = Unlocked(r)
  PROVE  /\ rowLock' \in [SessionIds -> Requests \cup {NoOne}]
         /\ \A u \in SessionIds : rowLock'[u] = IF rowLock[u] = r THEN NoOne ELSE rowLock[u]
         /\ \A u \in SessionIds : rowLock'[u] # r
BY SessionsAssumption DEF SessionsInv, SessionRowsInv, Unlocked

\* The rotation finds its session as it has read it: its token is served, for
\* the first time.
LEMMA RotateSessionInv ==
  ASSUME SessionsInv, NEW r \in Requests, RotateSession(r)
  PROVE  SessionsInv'
<1> DEFINE s == req[r].session
           n == req[r].rotation
<1>1. /\ pc[r] = "rotate" /\ s \in SessionIds /\ n \in Rotations /\ n < MaxRotations
      /\ UNCHANGED <<password, reset, burned, resets, existing>> /\ rowLock' = Unlocked(r)
  BY DEF RotateSession, SessionsInv, RequestsInv, RequestOK
<1>2. Live(s) /\ IsCurrent(s, n) /\ rowLock[s] = r
  BY <1>1, SessionsAssumption DEF SessionsInv, SessionRowsInv, HoldsItsRow, LockOK
<1>3. /\ sess' = [sess EXCEPT ![s].rotation = @ + 1, ![s].expired = FALSE]
      /\ redeemed' = [redeemed EXCEPT ![<<s, n>>] = @ + 1]
  BY <1>2 DEF RotateSession
<1>4. sess \in [SessionIds -> SessionRows] /\ redeemed \in [Tokens -> Nat]
      /\ sess[s] \in SessionRows
  BY <1>1 DEF SessionsInv, SessionRowsInv
<1>5. sess[s].rotation = n /\ sess[s].rotation + 1 \in Rotations
  BY <1>1, <1>2, <1>4, SessionsAssumption DEF IsCurrent, Rotations
<1>6. /\ sess' \in [SessionIds -> SessionRows]
      /\ sess'[s].status = sess[s].status /\ sess'[s].rotation = n + 1
      /\ \A u \in SessionIds \ {s} : sess'[u] = sess[u]
  BY <1>1, <1>3, <1>4, <1>5 DEF SessionRows
<1>7. /\ redeemed' \in [Tokens -> Nat] /\ redeemed'[<<s, n>>] = redeemed[<<s, n>>] + 1
      /\ \A t \in Tokens : t # <<s, n>> => redeemed'[t] = redeemed[t]
  BY <1>1, <1>3, <1>4 DEF Tokens
<1>8. RequestsInv' /\ pc'[r] = "idle" /\ OthersStay(r)
  BY Answered DEF SessionsInv, RotateSession
<1>9. /\ rowLock' \in [SessionIds -> Requests \cup {NoOne}]
      /\ \A u \in SessionIds : rowLock'[u] = IF rowLock[u] = r THEN NoOne ELSE rowLock[u]
      /\ \A u \in SessionIds : rowLock'[u] # r
  BY <1>1, LocksLetGo
<1>10. ASSUME NEW u \in SessionIds
       PROVE  LockOK(u)' /\ RedeemedOK(u)'
  <2>1. LockOK(u)'
    <3>1. rowLock'[u] # NoOne =>
            rowLock[u] = rowLock'[u] /\ pc'[rowLock[u]] = pc[rowLock[u]]
      BY <1>8, <1>9 DEF OthersStay
    <3>2. sess'[u].status = sess[u].status
      BY <1>6
    <3> QED BY <3>1, <3>2 DEF SessionsInv, SessionRowsInv, LockOK, Live
  <2>2. ASSUME NEW m \in Rotations
        PROVE  redeemed'[<<u, m>>] <= 1 /\ (sess'[u].rotation <= m => redeemed'[<<u, m>>] = 0)
    <3>1. /\ redeemed[<<u, m>>] <= 1 /\ (sess[u].rotation <= m => redeemed[<<u, m>>] = 0)
          /\ <<u, m>> \in Tokens
      BY DEF SessionsInv, SessionRowsInv, RedeemedOK, Tokens
    <3>2. CASE u = s /\ m = n
      <4>1. redeemed'[<<u, m>>] = 1
        BY <1>1, <1>5, <1>7, <3>1, <3>2, SessionsAssumption DEF Rotations
      <4> QED BY <1>1, <1>6, <3>2, <4>1, SessionsAssumption DEF Rotations
    <3>3. CASE u = s /\ m # n
      <4>1. redeemed'[<<u, m>>] = redeemed[<<u, m>>]
        BY <1>7, <3>1, <3>3
      <4> QED BY <1>1, <1>5, <1>6, <3>1, <3>3, <4>1, SessionsAssumption DEF Rotations
    <3>4. CASE u # s
      <4>1. redeemed'[<<u, m>>] = redeemed[<<u, m>>]
        BY <1>7, <3>1, <3>4
      <4> QED BY <1>6, <3>1, <3>4, <4>1
    <3> QED BY <3>2, <3>3, <3>4
  <2> QED BY <2>1, <2>2 DEF RedeemedOK
<1>11. ASSUME NEW q \in Requests
       PROVE  HoldsItsRow(q)' /\ HoldsExisting(q)'
  <2>0. existing[q] \subseteq SessionIds /\ HoldsItsRow(q) /\ HoldsExisting(q)
        /\ (pc[q] = "rotate" => req[q].session \in SessionIds)
    BY DEF SessionsInv, SessionRowsInv, RequestsInv, RequestOK
  <2>1. \A u \in SessionIds : sess'[u].status = sess[u].status
    BY <1>6
  <2>2. CASE q = r
    BY <1>1, <1>8, <2>0, <2>1, <2>2 DEF HoldsItsRow, HoldsExisting
  <2>3. CASE q # r
    <3>1. pc'[q] = pc[q] /\ req'[q] = req[q]
      BY <1>8, <2>3 DEF OthersStay
    <3>2. pc[q] = "rotate" => req[q].session # s
      BY <1>2, <2>0, <2>3 DEF HoldsItsRow
    <3>3. \A u \in SessionIds : rowLock[u] = q => rowLock'[u] = q
      BY <1>9, <2>3
    <3> QED BY <1>1, <1>6, <2>0, <2>1, <3>1, <3>2, <3>3
        DEF HoldsItsRow, HoldsExisting, IsCurrent, Live
  <2> QED BY <2>2, <2>3
<1>12. SessionRowsInv'
  BY <1>1, <1>6, <1>7, <1>9, <1>10, <1>11 DEF SessionsInv, SessionRowsInv
<1> QED BY <1>1, <1>8, <1>12, LinksKept DEF SessionsInv

\* Rows that nobody holds are closed, or run out of time.
LEMMA FreeRowsChange ==
  ASSUME SessionsInv, sess' \in [SessionIds -> SessionRows],
         UNCHANGED <<rowLock, redeemed, existing>>,
         \A s \in SessionIds :
           /\ sess'[s].rotation = sess[s].rotation
           /\ sess'[s].status # sess[s].status =>
                ~Locked(s) /\ sess[s].status # "none" /\ sess'[s].status \in {"revoked", "deleted"},
         \A q \in Requests : pc[q] \in Holding => pc'[q] = pc[q] /\ req'[q] = req[q],
         \A q \in Requests : pc'[q] \in Holding => pc[q] \in Holding
  PROVE  SessionRowsInv'
<1>1. ASSUME NEW s \in SessionIds
      PROVE  LockOK(s)' /\ RedeemedOK(s)'
  <2>1. RedeemedOK(s)'
    BY DEF SessionsInv, SessionRowsInv, RedeemedOK
  <2>2. LockOK(s) /\ rowLock[s] \in Requests \cup {NoOne}
    BY DEF SessionsInv, SessionRowsInv
  <2> QED BY <2>1, <2>2 DEF LockOK, Live, Locked
<1>2. ASSUME NEW q \in Requests
      PROVE  HoldsItsRow(q)' /\ HoldsExisting(q)'
  <2>0. existing[q] \subseteq SessionIds /\ HoldsItsRow(q) /\ HoldsExisting(q)
        /\ (pc[q] = "rotate" => req[q].session \in SessionIds)
    BY DEF SessionsInv, SessionRowsInv, RequestsInv, RequestOK
  <2>1. HoldsItsRow(q)'
    BY <2>0 DEF HoldsItsRow, IsCurrent, Holding
  <2>2. pc'[q] = "commitReset" => pc[q] = "commitReset"
    BY DEF Holding
  <2>3. HoldsExisting(q)'
    BY <2>0, <2>2 DEF HoldsExisting, Live
  <2> QED BY <2>1, <2>3
<1> QED BY <1>1, <1>2 DEF SessionsInv, SessionRowsInv

LEMMA RevokeSessionInv ==
  ASSUME SessionsInv, NEW r \in Requests, RevokeSession(r)
  PROVE  SessionsInv'
<1> DEFINE s == req[r].session
<1>1. /\ pc[r] = "revoke" /\ s \in SessionIds /\ ~Locked(s)
      /\ UNCHANGED <<password, reset, rowLock, burned, redeemed, resets, existing>>
      /\ sess \in [SessionIds -> SessionRows]
  BY DEF RevokeSession, history, SessionsInv, RequestsInv, RequestOK, SessionRowsInv
<1>2. RequestsInv' /\ pc'[r] = "idle" /\ OthersStay(r)
  BY Answered DEF SessionsInv, RevokeSession
<1>3. /\ sess' \in [SessionIds -> SessionRows]
      /\ \A u \in SessionIds \ {s} : sess'[u] = sess[u]
      /\ sess'[s].rotation = sess[s].rotation
      /\ sess'[s].status # sess[s].status =>
           sess[s].status # "none" /\ sess'[s].status = "revoked"
  BY <1>1 DEF RevokeSession, SessionRows, Live
<1>4. \A q \in Requests : pc[q] \in Holding => pc'[q] = pc[q] /\ req'[q] = req[q]
  BY <1>1, <1>2 DEF OthersStay, Holding
<1>5. \A q \in Requests : pc'[q] \in Holding => pc[q] \in Holding
  BY <1>2 DEF OthersStay, Holding
<1>6. SessionRowsInv'
  BY <1>1, <1>3, <1>4, <1>5, FreeRowsChange
<1> QED BY <1>1, <1>2, <1>6, LinksKept DEF SessionsInv

-----------------------------------------------------------------------------
\* The link part of a step of r that leaves the password and the counts alone:
\* what r has burned is open, and nobody else's.
LEMMA LinksChange ==
  ASSUME SessionsInv, NEW r \in Requests,
         UNCHANGED <<password, resets>>,
         reset' \in [ResetTokens -> {"none", "open", "used", "expired"}],
         burned' \in [Requests -> SUBSET ResetTokens],
         \A q \in Requests \ {r} : burned'[q] = burned[q],
         \A q \in Requests \ {r} : burned[q] \cap burned'[r] = {},
         \A t \in burned'[r] : reset'[t] = "open",
         \A q \in Requests \ {r} : \A t \in burned[q] : reset'[t] = "open",
         \A t \in ResetTokens : reset[t] = "used" => reset'[t] = "used"
  PROVE  LinksInv'
BY DEF SessionsInv, LinksInv

\* A step that only asks for links, or takes one.
LEMMA LinkStep ==
  ASSUME SessionsInv, NEW r \in Requests, RequestsInv', OthersStay(r),
         pc[r] \notin Holding, pc'[r] \notin Holding,
         UNCHANGED <<sess, rowLock, redeemed>>,
         existing' = existing \/ existing' = [existing EXCEPT ![r] = {s \in SessionIds : Live(s)}],
         LinksInv'
  PROVE  SessionsInv'
<1>1. /\ existing' \in [Requests -> SUBSET SessionIds]
      /\ \A q \in Requests \ {r} : existing'[q] = existing[q]
      /\ \A s \in existing'[r] : sess[s].status # "none"
  BY DEF SessionsInv, SessionRowsInv, HoldsExisting, Live
<1> QED BY <1>1, RowsKept DEF SessionsInv

LEMMA InvalidateInv ==
  ASSUME SessionsInv, NEW r \in Requests, InvalidatePasswordResetTokens(r)
  PROVE  SessionsInv'
<1>1. /\ pc[r] = "invalidate" /\ burned' = [burned EXCEPT ![r] = OpenTokens]
      /\ UNCHANGED <<sess, rowLock, redeemed, existing, password, reset, resets>>
      /\ ~BurnedByAnother(r, OpenTokens)
  BY DEF InvalidatePasswordResetTokens, rows, history
<1>2. RequestsInv' /\ pc'[r] = "createToken" /\ OthersStay(r)
  BY <1>1, GoesOn DEF SessionsInv, InvalidatePasswordResetTokens, Labels, Statements
<1>3. /\ burned' \in [Requests -> SUBSET ResetTokens] /\ burned'[r] = OpenTokens
      /\ \A q \in Requests \ {r} : burned'[q] = burned[q]
  BY <1>1 DEF SessionsInv, LinksInv, OpenTokens
<1>4. /\ \A q \in Requests \ {r} : burned[q] \cap burned'[r] = {}
      /\ \A t \in burned'[r] : reset[t] = "open"
  BY <1>1, <1>3 DEF BurnedByAnother, OpenTokens
<1>5. LinksInv'
  BY <1>1, <1>3, <1>4, LinksChange DEF SessionsInv, LinksInv
<1> QED BY <1>1, <1>2, <1>5, LinkStep DEF Holding

LEMMA CreateTokenInv ==
  ASSUME SessionsInv, NEW r \in Requests, CreatePasswordResetToken(r)
  PROVE  SessionsInv'
<1>1. /\ pc[r] = "createToken" /\ burned' = [burned EXCEPT ![r] = {}]
      /\ UNCHANGED <<sess, rowLock, redeemed, existing, password, resets>>
  BY DEF CreatePasswordResetToken, history
<1>2. RequestsInv' /\ pc'[r] = "idle" /\ OthersStay(r)
  BY Answered DEF SessionsInv, CreatePasswordResetToken
<1>3. PICK t \in ResetTokens :
        /\ reset[t] = "none"
        /\ reset' = [u \in ResetTokens |-> IF u = t THEN "open"
                                           ELSE IF u \in burned[r] THEN "used"
                                           ELSE reset[u]]
  BY DEF CreatePasswordResetToken
<1>4. /\ burned' \in [Requests -> SUBSET ResetTokens] /\ burned'[r] = {}
      /\ \A q \in Requests \ {r} : burned'[q] = burned[q]
  BY <1>1 DEF SessionsInv, LinksInv
<1>5. /\ reset' \in [ResetTokens -> {"none", "open", "used", "expired"}]
      /\ \A u \in ResetTokens : reset[u] = "used" => reset'[u] = "used"
  BY <1>3 DEF SessionsInv, LinksInv
<1>6. ASSUME NEW q \in Requests \ {r}, NEW u \in burned[q]
      PROVE  reset'[u] = "open"
  BY <1>3 DEF SessionsInv, LinksInv
<1>7. LinksInv'
  BY <1>1, <1>4, <1>5, <1>6, LinksChange
<1> QED BY <1>1, <1>2, <1>7, LinkStep DEF Holding

LEMMA ClaimTokenInv ==
  ASSUME SessionsInv, NEW r \in Requests, ClaimPasswordResetToken(r)
  PROVE  SessionsInv'
<1> DEFINE t == req[r].token
<1>1. /\ pc[r] = "claim" /\ t \in ResetTokens /\ ~BurnedByAnother(r, {t})
      /\ UNCHANGED <<sess, rowLock, redeemed, password, reset, resets>>
  BY DEF ClaimPasswordResetToken, rows, SessionsInv, RequestsInv, RequestOK
<1>2. CASE reset[t] = "open"
  <2>1. /\ burned' = [burned EXCEPT ![r] = {t}] /\ Goto(r, "updatePassword")
        /\ existing' = [existing EXCEPT ![r] = {s \in SessionIds : Live(s)}]
    BY <1>2 DEF ClaimPasswordResetToken
  <2>2. RequestsInv' /\ pc'[r] = "updatePassword" /\ OthersStay(r)
    BY <1>1, <2>1, GoesOn DEF SessionsInv, Labels, Statements
  <2>3. /\ burned' \in [Requests -> SUBSET ResetTokens] /\ burned'[r] = {t}
        /\ \A q \in Requests \ {r} : burned'[q] = burned[q]
    BY <1>1, <2>1 DEF SessionsInv, LinksInv
  <2>4. \A q \in Requests \ {r} : burned[q] \cap {t} = {}
    BY <1>1 DEF BurnedByAnother
  <2>5. LinksInv'
    BY <1>1, <1>2, <2>3, <2>4, LinksChange DEF SessionsInv, LinksInv
  <2> QED BY <1>1, <2>1, <2>2, <2>5, LinkStep DEF Holding
<1>3. CASE reset[t] # "open"
  <2>1. Answer(r) /\ UNCHANGED <<burned, existing>>
    BY <1>3 DEF ClaimPasswordResetToken
  <2>2. RequestsInv' /\ pc'[r] = "idle" /\ OthersStay(r)
    BY <2>1, Answered DEF SessionsInv
  <2>3. LinksInv'
    BY <1>1, <2>1, LinksKept DEF SessionsInv
  <2> QED BY <1>1, <2>1, <2>2, <2>3, LinkStep DEF Holding
<1> QED BY <1>2, <1>3

LEMMA UpdatePasswordInv ==
  ASSUME SessionsInv, NEW r \in Requests, UpdatePasswordHash(r)
  PROVE  SessionsInv'
<1>1. /\ pc[r] = "updatePassword" /\ \A q \in Requests : pc[q] \notin Resetting
      /\ UNCHANGED <<sess, rowLock, redeemed, existing, password, reset, burned, resets>>
  BY DEF UpdatePasswordHash, rows, history, Resetting
<1>2. RequestsInv' /\ pc'[r] = "revokeAll" /\ OthersStay(r)
  BY <1>1, GoesOn DEF SessionsInv, UpdatePasswordHash, Labels, Statements
<1>3. LinksInv'
  BY <1>1, LinksKept DEF SessionsInv
<1> QED BY <1>1, <1>2, <1>3, LinkStep DEF Holding

\* The reset locks every session that is live.
LEMMA RevokeUserSessionsInv ==
  ASSUME SessionsInv, NEW r \in Requests, RevokeUserSessions(r)
  PROVE  SessionsInv'
<1> DEFINE live == {s \in SessionIds : Live(s)}
<1>1. /\ pc[r] = "revokeAll" /\ \A s \in live : rowLock[s] = NoOne
      /\ rowLock' = [s \in SessionIds |-> IF s \in live THEN r ELSE rowLock[s]]
      /\ UNCHANGED <<sess, redeemed, existing, password, reset, burned, resets>>
  BY DEF RevokeUserSessions, rows, history, Locked
<1>2. RequestsInv' /\ pc'[r] = "commitReset" /\ OthersStay(r) /\ req' = req
  BY <1>1, GoesOn DEF SessionsInv, RevokeUserSessions, Labels, Statements
<1>3. \A s \in SessionIds : rowLock[s] = NoOne
  BY <1>1 DEF SessionsInv, SessionRowsInv, LockOK
<1>4. /\ rowLock' \in [SessionIds -> Requests \cup {NoOne}]
      /\ \A s \in SessionIds : rowLock'[s] = IF Live(s) THEN r ELSE NoOne
  BY <1>1, <1>3
<1>5. ASSUME NEW s \in SessionIds
      PROVE  LockOK(s)' /\ RedeemedOK(s)'
  BY <1>1, <1>2, <1>4 DEF SessionsInv, SessionRowsInv, LockOK, RedeemedOK, Live, Holding
<1>6. ASSUME NEW q \in Requests
      PROVE  HoldsItsRow(q)' /\ HoldsExisting(q)'
  <2>0. existing[q] \subseteq SessionIds /\ HoldsItsRow(q) /\ HoldsExisting(q)
        /\ (pc[q] = "rotate" => req[q].session \in SessionIds)
    BY DEF SessionsInv, SessionRowsInv, RequestsInv, RequestOK
  <2>1. CASE q = r
    BY <1>1, <1>2, <1>4, <2>0, <2>1 DEF HoldsItsRow, HoldsExisting, Live
  <2>2. CASE q # r
    <3>1. pc[q] # "rotate" /\ pc'[q] = pc[q]
      BY <1>2, <1>3, <2>0, <2>2, SessionsAssumption DEF HoldsItsRow, OthersStay
    <3>2. pc[q] # "commitReset"
      BY <1>1, <2>2 DEF SessionsInv, RequestsInv, OneReset, Resetting
    <3> QED BY <1>1, <2>0, <3>1, <3>2 DEF HoldsItsRow, HoldsExisting
  <2> QED BY <2>1, <2>2
<1>7. SessionRowsInv'
  BY <1>1, <1>4, <1>5, <1>6 DEF SessionsInv, SessionRowsInv
<1> QED BY <1>1, <1>2, <1>7, LinksKept DEF SessionsInv

\* A request lets go of everything, having closed what it held or not.
LEMMA LetsGo ==
  ASSUME SessionsInv, NEW r \in Requests, OthersStay(r), pc'[r] = "idle",
         rowLock' = Unlocked(r), existing' = [existing EXCEPT ![r] = {}],
         UNCHANGED redeemed, sess' \in [SessionIds -> SessionRows],
         \A s \in SessionIds :
           /\ sess'[s].rotation = sess[s].rotation
           /\ sess'[s].status = sess[s].status
                \/ (rowLock[s] = r /\ sess'[s].status = "revoked")
  PROVE  SessionRowsInv'
<1>1. /\ rowLock' \in [SessionIds -> Requests \cup {NoOne}]
      /\ \A u \in SessionIds : rowLock'[u] = IF rowLock[u] = r THEN NoOne ELSE rowLock[u]
      /\ \A u \in SessionIds : rowLock'[u] # r
  BY LocksLetGo
<1>2. /\ existing' \in [Requests -> SUBSET SessionIds] /\ existing'[r] = {}
      /\ \A q \in Requests \ {r} : existing'[q] = existing[q]
  BY DEF SessionsInv, SessionRowsInv
<1>3. ASSUME NEW s \in SessionIds
      PROVE  LockOK(s)' /\ RedeemedOK(s)'
  <2>1. RedeemedOK(s)'
    BY DEF SessionsInv, SessionRowsInv, RedeemedOK
  <2>2. rowLock'[s] # NoOne =>
          /\ rowLock'[s] = rowLock[s] /\ rowLock[s] # r
          /\ pc'[rowLock[s]] = pc[rowLock[s]]
    BY <1>1 DEF OthersStay
  <2>3. LockOK(s)
    BY DEF SessionsInv, SessionRowsInv
  <2> QED BY <2>1, <2>2, <2>3 DEF LockOK, Live
<1>4. ASSUME NEW q \in Requests
      PROVE  HoldsItsRow(q)' /\ HoldsExisting(q)'
  <2>0. existing[q] \subseteq SessionIds /\ HoldsItsRow(q) /\ HoldsExisting(q)
        /\ (pc[q] = "rotate" => req[q].session \in SessionIds)
    BY DEF SessionsInv, SessionRowsInv, RequestsInv, RequestOK
  <2>1. CASE q = r
    BY <1>2, <2>1 DEF HoldsItsRow, HoldsExisting
  <2>2. CASE q # r
    <3>1. pc'[q] = pc[q] /\ req'[q] = req[q] /\ existing'[q] = existing[q]
      BY <1>2, <2>2 DEF OthersStay
    <3>2. \A u \in SessionIds : rowLock[u] = q => rowLock'[u] = q
      BY <1>1, <2>2
    <3>3. HoldsItsRow(q)'
      BY <2>0, <3>1, <3>2 DEF HoldsItsRow, IsCurrent
    <3>4. HoldsExisting(q)'
      BY <2>0, <3>1, <3>2 DEF HoldsExisting, Live
    <3> QED BY <3>3, <3>4
  <2> QED BY <2>1, <2>2
<1> QED BY <1>1, <1>2, <1>3, <1>4 DEF SessionsInv, SessionRowsInv

\* Link, password and sessions change together.
LEMMA CommitResetInv ==
  ASSUME SessionsInv, NEW r \in Requests, CommitReset(r)
  PROVE  SessionsInv'
<1>1. /\ pc[r] = "commitReset" /\ req[r].password \in Passwords
      /\ rowLock' = Unlocked(r) /\ existing' = [existing EXCEPT ![r] = {}]
      /\ UNCHANGED redeemed /\ password' = req[r].password
      /\ burned' = [burned EXCEPT ![r] = {}]
  BY DEF CommitReset, NewPassword, SessionsInv, RequestsInv, RequestOK, Resetting
<1>2. RequestsInv' /\ pc'[r] = "idle" /\ OthersStay(r)
  BY Answered DEF SessionsInv, CommitReset
<1>3. sess \in [SessionIds -> SessionRows]
      /\ sess' = [s \in SessionIds |-> IF rowLock[s] = r
                                       THEN [sess[s] EXCEPT !.status = "revoked"]
                                       ELSE sess[s]]
  BY DEF CommitReset, SessionsInv, SessionRowsInv
<1>4. ASSUME NEW s \in SessionIds
      PROVE  /\ sess'[s] \in SessionRows /\ sess'[s].rotation = sess[s].rotation
             /\ sess'[s].status = sess[s].status
                  \/ (rowLock[s] = r /\ sess'[s].status = "revoked")
  BY <1>3 DEF SessionRows
<1>5. sess' \in [SessionIds -> SessionRows]
  BY <1>3, <1>4
<1>6. SessionRowsInv'
  BY <1>1, <1>2, <1>4, <1>5, LetsGo
<1>7. LinksInv'
  <2>1. /\ reset' = [t \in ResetTokens |-> IF t \in burned[r] THEN "used" ELSE reset[t]]
        /\ resets' = [t \in ResetTokens |->
                        IF t \in burned[r] THEN resets[t] + 1 ELSE resets[t]]
    BY DEF CommitReset
  <2>2. /\ burned' \in [Requests -> SUBSET ResetTokens] /\ burned'[r] = {}
        /\ \A q \in Requests \ {r} : burned'[q] = burned[q]
    BY <1>1 DEF SessionsInv, LinksInv
  <2>3. /\ reset' \in [ResetTokens -> {"none", "open", "used", "expired"}]
        /\ resets' \in [ResetTokens -> Nat]
    BY <2>1 DEF SessionsInv, LinksInv
  <2>4. ASSUME NEW t \in ResetTokens
        PROVE  resets'[t] = 0 \/ (resets'[t] = 1 /\ reset'[t] = "used")
    BY <2>1 DEF SessionsInv, LinksInv
  <2>5. ASSUME NEW q \in Requests, NEW t \in burned'[q]
        PROVE  reset'[t] = "open"
    <3>1. q # r /\ t \in burned[q] /\ t \in ResetTokens /\ t \notin burned[r]
      BY <2>2 DEF SessionsInv, LinksInv
    <3> QED BY <2>1, <3>1 DEF SessionsInv, LinksInv
  <2>6. ASSUME NEW p \in Requests, NEW q \in Requests, p # q
        PROVE  burned'[p] \cap burned'[q] = {}
    BY <2>2, <2>6 DEF SessionsInv, LinksInv
  <2> QED BY <1>1, <2>2, <2>3, <2>4, <2>5, <2>6 DEF LinksInv
<1> QED BY <1>2, <1>6, <1>7 DEF SessionsInv

LEMMA FailInv ==
  ASSUME SessionsInv, NEW r \in Requests, Fail(r)
  PROVE  SessionsInv'
<1>1. /\ rowLock' = Unlocked(r) /\ existing' = [existing EXCEPT ![r] = {}]
      /\ burned' = [burned EXCEPT ![r] = {}]
      /\ UNCHANGED <<sess, redeemed, password, reset, resets>>
  BY DEF Fail, rows
<1>2. RequestsInv' /\ pc'[r] = "idle" /\ OthersStay(r)
  BY Answered DEF SessionsInv, Fail
<1>3. SessionRowsInv'
  BY <1>1, <1>2, LetsGo DEF SessionsInv, SessionRowsInv
<1>4. /\ burned' \in [Requests -> SUBSET ResetTokens] /\ burned'[r] = {}
      /\ \A q \in Requests \ {r} : burned'[q] = burned[q]
  BY <1>1 DEF SessionsInv, LinksInv
<1>5. LinksInv'
  BY <1>1, <1>4, LinksChange DEF SessionsInv, LinksInv
<1> QED BY <1>2, <1>3, <1>5 DEF SessionsInv

\* Time passes and the sweep runs: no locked row is touched.
LEMMA EnvironmentInv ==
  ASSUME SessionsInv, Environment
  PROVE  SessionsInv'
<1>0. UNCHANGED <<pc, req, password, rowLock, burned, redeemed, resets, existing>>
      /\ sess \in [SessionIds -> SessionRows]
  BY DEF Environment, Expire, ExpireToken, DeleteExpiredSessions, history, SessionsInv,
     SessionRowsInv
<1>1. RequestsInv'
  BY <1>0 DEF SessionsInv, RequestsInv, RequestOK, OneReset
<1>2. ASSUME NEW s \in SessionIds, Expire(s)
      PROVE  SessionsInv'
  <2>1. /\ sess' \in [SessionIds -> SessionRows]
        /\ \A u \in SessionIds : sess'[u].rotation = sess[u].rotation
                                 /\ sess'[u].status = sess[u].status
    BY <1>0, <1>2 DEF Expire, SessionRows
  <2>2. SessionRowsInv'
    BY <1>0, <2>1, FreeRowsChange
  <2> QED BY <1>0, <1>1, <1>2, <2>2, LinksKept DEF SessionsInv, Expire
<1>3. ASSUME NEW t \in ResetTokens, ExpireToken(t)
      PROVE  SessionsInv'
  <2>1. sess' = sess /\ reset' = [reset EXCEPT ![t] = "expired"] /\ reset[t] = "open"
        /\ \A q \in Requests : t \notin burned[q]
    BY <1>3 DEF ExpireToken
  <2>2. SessionRowsInv'
    BY <1>0, <2>1, FreeRowsChange
  <2>3. LinksInv'
    BY <1>0, <2>1 DEF SessionsInv, LinksInv
  <2> QED BY <1>1, <2>2, <2>3 DEF SessionsInv
<1>4. ASSUME NEW old \in SUBSET SessionIds, DeleteExpiredSessions(old)
      PROVE  SessionsInv'
  <2> DEFINE gone == old \cup {s \in SessionIds : Stored(s) /\ sess[s].expired}
  <2>1. /\ \A s \in old : sess[s].status = "revoked"
        /\ \A s \in gone : ~Locked(s)
        /\ sess' = [s \in SessionIds |-> IF s \in gone
                                        THEN [sess[s] EXCEPT !.status = "deleted"]
                                        ELSE sess[s]]
        /\ UNCHANGED reset
    BY <1>4 DEF DeleteExpiredSessions
  <2>2. \A s \in gone : sess[s].status # "none" /\ ~Locked(s)
    BY <2>1 DEF Stored
  <2> HIDE DEF gone
  <2>3. ASSUME NEW s \in SessionIds
        PROVE  /\ sess'[s] \in SessionRows /\ sess'[s].rotation = sess[s].rotation
               /\ sess'[s].status # sess[s].status =>
                    ~Locked(s) /\ sess[s].status # "none" /\ sess'[s].status \in {"revoked", "deleted"}
    <3>1. CASE s \in gone
      BY <1>0, <2>1, <2>2, <3>1 DEF SessionRows
    <3>2. CASE s \notin gone
      BY <1>0, <2>1, <3>2
    <3> QED BY <3>1, <3>2
  <2>4. sess' \in [SessionIds -> SessionRows]
    BY <2>1, <2>3
  <2>5. SessionRowsInv'
    BY <1>0, <2>3, <2>4, FreeRowsChange
  <2> QED BY <1>0, <1>1, <2>1, <2>5, LinksKept DEF SessionsInv
<1> QED BY <1>2, <1>3, <1>4 DEF Environment

-----------------------------------------------------------------------------
LEMMA SessionsInitInv == Init => SessionsInv
<1> SUFFICES ASSUME Init PROVE SessionsInv
  OBVIOUS
<1>1. RequestsInv
  BY DEF Init, RequestsInv, Labels, RequestOK, OneReset, Resetting
<1>2. SessionRowsInv
  <2>1. sess \in [SessionIds -> SessionRows]
    BY SessionsAssumption DEF Init, SessionRows, Rotations
  <2>2. \A s \in SessionIds : LockOK(s)
    BY DEF Init, LockOK
  <2>3. \A s \in SessionIds : RedeemedOK(s)
    BY DEF Init, RedeemedOK, Tokens
  <2>4. \A r \in Requests : HoldsItsRow(r) /\ HoldsExisting(r)
    BY DEF Init, HoldsItsRow, HoldsExisting
  <2>5. /\ rowLock \in [SessionIds -> Requests \cup {NoOne}]
        /\ redeemed \in [Tokens -> Nat] /\ existing \in [Requests -> SUBSET SessionIds]
    BY DEF Init
  <2> QED BY <2>1, <2>2, <2>3, <2>4, <2>5 DEF SessionRowsInv
<1>3. LinksInv
  BY SessionsAssumption DEF Init, LinksInv
<1> QED BY <1>1, <1>2, <1>3 DEF SessionsInv

LEMMA SessionsNextInv == SessionsInv /\ [Next]_vars => SessionsInv'
<1> SUFFICES ASSUME SessionsInv, [Next]_vars PROVE SessionsInv'
  OBVIOUS
<1>1. CASE UNCHANGED vars
  <2>1. RequestsInv'
    BY <1>1 DEF vars, SessionsInv, RequestsInv, RequestOK, OneReset
  <2>2. SessionRowsInv'
    BY <1>1, FreeRowsChange DEF vars, rows, history, SessionsInv, SessionRowsInv
  <2>3. LinksInv'
    BY <1>1, LinksKept DEF vars, rows, history, SessionsInv
  <2> QED BY <2>1, <2>2, <2>3 DEF SessionsInv
<1>2. ASSUME NEW r \in Requests, Proceed(r)
      PROVE  SessionsInv'
  BY <1>2, CreateSessionInv, FindSessionInv, RotateSessionInv, RevokeSessionInv,
     InvalidateInv, CreateTokenInv, ClaimTokenInv, UpdatePasswordInv,
     RevokeUserSessionsInv, CommitResetInv DEF Proceed
<1> QED BY <1>1, <1>2, BeginInv, FailInv, EnvironmentInv DEF Next

\* The inductive invariant of sessions and reset links.
THEOREM SessionsSpecInv == Spec => []SessionsInv
BY SessionsInitInv, SessionsNextInv, PTL DEF Spec

\* Every variable keeps its type; no session rotates past its bound.
THEOREM SessionsSpecTypeOK == Spec => []TypeOK
<1>1. SessionsInv => TypeOK
  BY DEF SessionsInv, RequestsInv, SessionRowsInv, LinksInv, TypeOK, Labels
<1> QED BY <1>1, SessionsSpecInv, PTL

\* The row lock makes it impossible that another refresh won the race
\* (service.go:378-382), for any number of refreshes, resets and sweeps.
THEOREM SpecRotateNeverLoses == Spec => []RotateNeverLoses
<1>1. SessionsInv => RotateNeverLoses
  <2> SUFFICES ASSUME SessionsInv, NEW r \in Requests, pc[r] = "rotate"
               PROVE  Live(req[r].session) /\ IsCurrent(req[r].session, req[r].rotation)
    BY DEF RotateNeverLoses
  <2>1. HoldsItsRow(r) /\ req[r].session \in SessionIds
    BY DEF SessionsInv, SessionRowsInv, RequestsInv, RequestOK
  <2>2. rowLock[req[r].session] # NoOne
    BY <2>1, SessionsAssumption DEF HoldsItsRow
  <2> QED BY <2>1, <2>2 DEF HoldsItsRow, SessionsInv, SessionRowsInv, LockOK
<1> QED BY <1>1, SessionsSpecInv, PTL

\* Links are marked used by the transactions that are past them.
Marking == {"createToken", "updatePassword"} \cup Resetting

MarksAreHeld == \A r \in Requests : burned[r] # {} => pc[r] \in Marking

LEMMA MarksInit == Init => MarksAreHeld
BY DEF Init, MarksAreHeld

LEMMA MarksStep == SessionsInv /\ MarksAreHeld /\ [Next]_vars => MarksAreHeld'
<1> SUFFICES ASSUME SessionsInv, MarksAreHeld, [Next]_vars PROVE MarksAreHeld'
  OBVIOUS
<1>1. pc \in [Requests -> Labels] /\ burned \in [Requests -> SUBSET ResetTokens]
  BY DEF SessionsInv, RequestsInv, LinksInv
<1>2. CASE UNCHANGED <<pc, burned>>
  BY <1>2 DEF MarksAreHeld
\* A request that goes elsewhere and has nothing marked then, or is past its links.
<1>3. ASSUME NEW r \in Requests, NEW label,
             pc' = [pc EXCEPT ![r] = label],
             \/ burned' = [burned EXCEPT ![r] = {}]
             \/ burned' = burned /\ (pc[r] \notin Marking \/ label \in Marking)
             \/ label \in Marking /\ \E ts : burned' = [burned EXCEPT ![r] = ts]
      PROVE  MarksAreHeld'
  <2> SUFFICES ASSUME NEW q \in Requests, burned'[q] # {} PROVE pc'[q] \in Marking
    BY DEF MarksAreHeld
  <2>1. CASE q # r
    BY <1>1, <1>3, <2>1 DEF MarksAreHeld
  <2>2. CASE q = r
    BY <1>1, <1>3, <2>2 DEF MarksAreHeld
  <2> QED BY <2>1, <2>2
<1>4. ASSUME NEW r \in Requests, Arrive(r)
      PROVE  MarksAreHeld'
  <2>1. /\ pc[r] = "idle" /\ burned' = burned
        /\ \E label \in Statements : pc' = [pc EXCEPT ![r] = label]
    BY <1>4 DEF Arrive, BeginLogin, BeginRefresh, BeginRevoke, BeginForgot, BeginReset,
       Begin, Statements
  <2> QED BY <1>3, <2>1 DEF Marking, Resetting
<1>5. ASSUME NEW r \in Requests, Proceed(r)
      PROVE  MarksAreHeld'
  <2>1. CASE CreateSession(r)
    BY <1>3, <2>1 DEF CreateSession, Answer, Marking, Resetting
  <2>2. CASE FindSession(r)
    <3>1. /\ pc[r] = "findSession" /\ burned' = burned
          /\ \E label \in Labels : pc' = [pc EXCEPT ![r] = label]
      BY <2>2 DEF FindSession, Answer, Goto, Labels, Statements
    <3> QED BY <1>3, <3>1 DEF Marking, Resetting
  <2>3. CASE RotateSession(r)
    BY <1>3, <2>3 DEF RotateSession, Answer, Marking, Resetting
  <2>4. CASE RevokeSession(r)
    BY <1>3, <2>4 DEF RevokeSession, Answer, Marking, Resetting
  <2>5. CASE InvalidatePasswordResetTokens(r)
    BY <1>3, <2>5 DEF InvalidatePasswordResetTokens, Goto, Marking
  <2>6. CASE CreatePasswordResetToken(r)
    BY <1>3, <2>6 DEF CreatePasswordResetToken, Answer
  <2>7. CASE ClaimPasswordResetToken(r)
    BY <1>3, <2>7 DEF ClaimPasswordResetToken, Goto, Answer, Marking, Resetting
  <2>8. CASE UpdatePasswordHash(r)
    BY <1>3, <2>8 DEF UpdatePasswordHash, Goto, Marking, Resetting
  <2>9. CASE RevokeUserSessions(r)
    BY <1>3, <2>9 DEF RevokeUserSessions, Goto, Marking, Resetting
  <2>10. CASE CommitReset(r)
    BY <1>3, <2>10 DEF CommitReset, Answer
  <2> QED BY <1>5, <2>1, <2>2, <2>3, <2>4, <2>5, <2>6, <2>7, <2>8, <2>9, <2>10 DEF Proceed
<1>6. ASSUME NEW r \in Requests, Fail(r)
      PROVE  MarksAreHeld'
  BY <1>3, <1>6 DEF Fail, Answer
<1>7. CASE Environment
  BY <1>2, <1>7 DEF Environment, Expire, ExpireToken, DeleteExpiredSessions
<1>8. CASE UNCHANGED vars
  BY <1>2, <1>8 DEF vars, rows
<1> QED BY <1>4, <1>5, <1>6, <1>7, <1>8 DEF Next

\* Nobody is refused for ever by a lock: the statements of refresh, logout, reset
\* and forgotten password never wait in a circle, nor for a lock whose transaction
\* has ended, whatever their number (service.go:357-397, 545-561 and 586-603).
THEOREM SpecSomebodyProceeds == Spec => []SomebodyProceeds
<1>1. SessionsInv /\ MarksAreHeld => SomebodyProceeds
  <2> SUFFICES ASSUME SessionsInv, MarksAreHeld, NEW r \in Requests, pc[r] # "idle",
                      \A q \in Requests : pc[q] # "idle" => Waits(q)
               PROVE  FALSE
    BY DEF SomebodyProceeds
  \* Whoever is about to commit does not wait ..
  <2>1. \A q \in Requests : pc[q] \notin {"rotate", "createToken", "commitReset"}
    BY DEF Waits
  \* .. so no session row is locked ..
  <2>2. \A s \in SessionIds : ~Locked(s)
    BY <2>1 DEF SessionsInv, SessionRowsInv, LockOK, Holding, Locked
  <2>3. \A q \in Requests : pc[q] \notin {"findSession", "revoke", "revokeAll"}
    BY <2>2 DEF Waits, SessionsInv, RequestsInv, RequestOK
  \* .. so the row of the user is free ..
  <2>4. \A q \in Requests : pc[q] # "updatePassword"
    BY <2>1, <2>3 DEF Waits
  \* .. and no link is marked.
  <2>5. \A q \in Requests : burned[q] = {}
    BY <2>1, <2>3, <2>4 DEF MarksAreHeld, Marking, Resetting
  <2> QED BY <2>3, <2>4, <2>5 DEF Waits, BurnedByAnother
<1>2. Spec => []MarksAreHeld
  BY MarksInit, MarksStep, SessionsSpecInv, PTL DEF Spec
<1> QED BY <1>1, <1>2, SessionsSpecInv, PTL

\* A refresh token is served at most once (service.go:335-341, repo.go:227-229).
THEOREM SpecTokensAreSingleUse == Spec => []TokensAreSingleUse
<1>1. SessionsInv => TokensAreSingleUse
  BY DEF SessionsInv, SessionRowsInv, RedeemedOK, TokensAreSingleUse, Tokens
<1> QED BY <1>1, SessionsSpecInv, PTL

\* A reset link sets a password at most once (repo.go:350-354).
THEOREM SpecResetLinksAreSingleUse == Spec => []ResetLinksAreSingleUse
<1>1. SessionsInv => ResetLinksAreSingleUse
  BY DEF SessionsInv, LinksInv, ResetLinksAreSingleUse
<1> QED BY <1>1, SessionsSpecInv, PTL

-----------------------------------------------------------------------------
\* Only the commit of a reset counts a link, and there is one at a time.
LEMMA OnlyCommitCounts ==
  ASSUME SessionsInv, [Next]_vars, resets' # resets
  PROVE  \E r \in Requests : CommitReset(r)
<1>1. ASSUME NEW r \in Requests, Arrive(r) \/ Fail(r) \/ (Proceed(r) /\ ~CommitReset(r))
      PROVE  resets' = resets
  BY <1>1 DEF Arrive, BeginLogin, BeginRefresh, BeginRevoke, BeginForgot, BeginReset, Fail,
     Proceed, CreateSession, FindSession, RotateSession, RevokeSession,
     InvalidatePasswordResetTokens, CreatePasswordResetToken, ClaimPasswordResetToken,
     UpdatePasswordHash, RevokeUserSessions, history
<1>2. CASE Environment
  BY <1>2 DEF Environment, Expire, ExpireToken, DeleteExpiredSessions, history
<1>3. CASE UNCHANGED vars
  BY <1>3 DEF vars, history
<1> QED BY <1>1, <1>2, <1>3 DEF Next

\* The reset that commits signs out every session that was live when it took
\* its link (service.go:569-570).
THEOREM SpecResetSignsOutExisting == Spec => ResetSignsOutExisting
<1>1. ASSUME SessionsInv, [Next]_vars, NEW r \in Requests,
             pc[r] = "commitReset", resets' # resets, NEW s \in existing[r]
      PROVE  sess'[s].status # "live"
  <2>1. PICK q \in Requests : CommitReset(q)
    BY <1>1, OnlyCommitCounts
  <2>2. q = r
    BY <1>1, <2>1 DEF CommitReset, SessionsInv, RequestsInv, OneReset, Resetting
  <2>3. s \in SessionIds /\ sess[s] \in SessionRows /\ (Live(s) => rowLock[s] = r)
    BY <1>1 DEF SessionsInv, SessionRowsInv, HoldsExisting
  <2>4. sess'[s] = IF rowLock[s] = r THEN [sess[s] EXCEPT !.status = "revoked"] ELSE sess[s]
    BY <2>1, <2>2, <2>3 DEF CommitReset
  <2> QED BY <2>3, <2>4 DEF SessionRows, Live
<1>2. SessionsInv /\ [Next]_vars =>
        [\A r \in Requests :
           (pc[r] = "commitReset" /\ resets' # resets /\ req'[r] = <<>>)
             => \A s \in existing[r] : sess'[s].status # "live"]_vars
  BY <1>1
<1> QED BY <1>2, SessionsSpecInv, PTL DEF Spec, ResetSignsOutExisting

-----------------------------------------------------------------------------
\* What a step may do to a session: open it, move its head while it is live, or
\* close some of those that are live.
Opens(s) ==
  /\ sess[s].status = "none" /\ sess'[s].status = "live"
  /\ \A u \in SessionIds \ {s} : sess'[u].status = sess[u].status
  /\ \A u \in SessionIds : sess'[u].rotation = sess[u].rotation

MovesHead(s) ==
  /\ sess[s].status = "live" /\ sess'[s].rotation = sess[s].rotation + 1
  /\ \A u \in SessionIds : sess'[u].status = sess[u].status
  /\ \A u \in SessionIds \ {s} : sess'[u].rotation = sess[u].rotation

Closes(closed) ==
  /\ \A s \in closed : sess[s].status = "live" /\ sess'[s].status \in {"revoked", "deleted"}
  /\ \A u \in SessionIds \ closed :
       \/ sess'[u].status = sess[u].status
       \/ sess[u].status = "revoked" /\ sess'[u].status = "deleted"
  /\ \A u \in SessionIds : sess'[u].rotation = sess[u].rotation

LEMMA FamilyMoves ==
  ASSUME SessionsInv, [Next]_vars
  PROVE  \/ \E s \in SessionIds : Opens(s) \/ MovesHead(s)
         \/ \E closed \in SUBSET SessionIds : Closes(closed)
<1>0. sess \in [SessionIds -> SessionRows]
  BY DEF SessionsInv, SessionRowsInv
<1>1. CASE UNCHANGED sess
  <2>1. Closes({})
    BY <1>1 DEF Closes
  <2> QED BY <2>1
<1>2. ASSUME NEW r \in Requests, CreateSession(r)
      PROVE  \E s \in SessionIds : Opens(s)
  <2>1. PICK s \in SessionIds :
          /\ sess[s].status = "none"
          /\ sess' = [sess EXCEPT ![s].status = "live", ![s].password = req[r]]
    BY <1>2 DEF CreateSession
  <2>2. Opens(s)
    BY <1>0, <2>1 DEF Opens, SessionRows
  <2> QED BY <2>2
<1>3. ASSUME NEW r \in Requests, RotateSession(r), sess' # sess
      PROVE  \E s \in SessionIds : MovesHead(s)
  <2> DEFINE s == req[r].session
  <2>1. /\ s \in SessionIds /\ Live(s)
        /\ sess' = [sess EXCEPT ![s].rotation = @ + 1, ![s].expired = FALSE]
    BY <1>3 DEF RotateSession, SessionsInv, RequestsInv, RequestOK
  <2>2. MovesHead(s)
    BY <1>0, <2>1 DEF MovesHead, Live, SessionRows
  <2> QED BY <2>1, <2>2
<1>4. ASSUME NEW r \in Requests, RevokeSession(r), sess' # sess
      PROVE  \E closed \in SUBSET SessionIds : Closes(closed)
  <2> DEFINE s == req[r].session
  <2>1. s \in SessionIds /\ Live(s) /\ sess' = [sess EXCEPT ![s].status = "revoked"]
    BY <1>4 DEF RevokeSession, SessionsInv, RequestsInv, RequestOK
  <2>2. Closes({s})
    BY <1>0, <2>1 DEF Closes, Live, SessionRows
  <2> QED BY <2>1, <2>2
<1>5. ASSUME NEW r \in Requests, CommitReset(r)
      PROVE  \E closed \in SUBSET SessionIds : Closes(closed)
  <2> DEFINE closed == {s \in SessionIds : rowLock[s] = r}
  <2>1. sess' = [s \in SessionIds |-> IF rowLock[s] = r
                                      THEN [sess[s] EXCEPT !.status = "revoked"]
                                      ELSE sess[s]]
    BY <1>5 DEF CommitReset
  <2>2. \A s \in closed : Live(s)
    BY SessionsAssumption DEF SessionsInv, SessionRowsInv, LockOK
  <2>3. \A s \in closed : sess[s].status = "live" /\ sess'[s].status = "revoked"
                          /\ sess'[s].rotation = sess[s].rotation
    BY <1>0, <2>1, <2>2 DEF Live, SessionRows
  <2>4. \A s \in SessionIds \ closed : sess'[s] = sess[s]
    BY <2>1
  <2>5. Closes(closed)
    BY <2>3, <2>4 DEF Closes
  <2> QED BY <2>5
<1>6. ASSUME NEW s \in SessionIds, Expire(s)
      PROVE  \E closed \in SUBSET SessionIds : Closes(closed)
  <2>1. Closes({})
    BY <1>0, <1>6 DEF Expire, Closes, SessionRows
  <2> QED BY <2>1
<1>7. ASSUME NEW old \in SUBSET SessionIds, DeleteExpiredSessions(old)
      PROVE  \E closed \in SUBSET SessionIds : Closes(closed)
  <2> DEFINE gone == old \cup {s \in SessionIds : Stored(s) /\ sess[s].expired}
             closed == {s \in gone : Live(s)}
  <2>1. /\ \A s \in old : sess[s].status = "revoked"
        /\ sess' = [s \in SessionIds |-> IF s \in gone
                                         THEN [sess[s] EXCEPT !.status = "deleted"]
                                         ELSE sess[s]]
    BY <1>7 DEF DeleteExpiredSessions
  <2>2. gone \subseteq SessionIds /\ \A s \in gone : sess[s].status \in {"live", "revoked"}
    BY <2>1 DEF Stored
  <2>3. \A s \in gone : sess'[s].status = "deleted" /\ sess'[s].rotation = sess[s].rotation
    BY <1>0, <2>1, <2>2 DEF SessionRows
  <2>4. \A s \in SessionIds \ gone : sess'[s] = sess[s]
    BY <2>1
  <2>5. closed \subseteq gone /\ \A s \in gone \ closed : sess[s].status = "revoked"
    BY <2>2 DEF Live
  <2>6. \A s \in closed : sess[s].status = "live"
    BY DEF Live
  <2> HIDE DEF gone, closed
  <2>7. Closes(closed)
    BY <2>2, <2>3, <2>4, <2>5, <2>6 DEF Closes
  <2>8. closed \in SUBSET SessionIds
    BY <2>2, <2>5
  <2> QED BY <2>7, <2>8
<1>8. ASSUME NEW r \in Requests, Arrive(r) \/ Fail(r) \/ FindSession(r)
               \/ InvalidatePasswordResetTokens(r) \/ CreatePasswordResetToken(r)
               \/ ClaimPasswordResetToken(r) \/ UpdatePasswordHash(r) \/ RevokeUserSessions(r)
      PROVE  UNCHANGED sess
  BY <1>8 DEF Arrive, BeginLogin, BeginRefresh, BeginRevoke, BeginForgot, BeginReset, Fail,
     FindSession, InvalidatePasswordResetTokens, CreatePasswordResetToken,
     ClaimPasswordResetToken, UpdatePasswordHash, RevokeUserSessions, rows
<1>9. CASE UNCHANGED vars
  BY <1>1, <1>9 DEF vars, rows
<1>10. CASE \E r \in Requests : Proceed(r)
  BY <1>1, <1>2, <1>3, <1>4, <1>5, <1>8, <1>10 DEF Proceed
<1>11. CASE Environment
  <2>1. ASSUME NEW t \in ResetTokens, ExpireToken(t)
        PROVE  UNCHANGED sess
    BY <2>1 DEF ExpireToken
  <2> QED BY <1>1, <1>6, <1>7, <1>11, <2>1 DEF Environment
<1> QED BY <1>1, <1>8, <1>9, <1>10, <1>11 DEF Next

\* A session implements a family of tokens whose head only moves while it is
\* open, and that never opens again.
THEOREM SpecImplementsFamily == Spec => FamilySpec
<1> DEFINE status == [s \in SessionIds |-> CASE sess[s].status = "none" -> "unopened"
                                             [] sess[s].status = "live" -> "open"
                                             [] OTHER -> "closed"]
           head == [s \in SessionIds |-> sess[s].rotation]
<1>1. Init => Family!Init
  BY DEF Init, Family!Init
<1>2. ASSUME SessionsInv, [Next]_vars
      PROVE  [Family!Next]_(Family!vars)
  <2>1. ASSUME NEW s \in SessionIds, Opens(s)
        PROVE  Family!Open(s)
    <3>1. status[s] = "unopened" /\ status' = [status EXCEPT ![s] = "open"]
      BY <2>1 DEF Opens
    <3>2. head' = head
      BY <2>1 DEF Opens
    <3> QED BY <3>1, <3>2 DEF Family!Open
  <2>2. ASSUME NEW s \in SessionIds, MovesHead(s)
        PROVE  Family!Redeem(s)
    <3>1. status[s] = "open" /\ status' = status
      BY <2>2 DEF MovesHead
    <3>2. head' = [head EXCEPT ![s] = @ + 1]
      BY <2>2 DEF MovesHead
    <3> QED BY <3>1, <3>2 DEF Family!Redeem
  <2>3. ASSUME NEW closed \in SUBSET SessionIds, Closes(closed)
        PROVE  Family!Close(closed)
    <3>1. \A s \in closed : status[s] = "open"
      BY <2>3 DEF Closes
    <3>2. status' = [s \in SessionIds |-> IF s \in closed THEN "closed" ELSE status[s]]
      BY <2>3 DEF Closes
    <3>3. head' = head
      BY <2>3 DEF Closes
    <3> QED BY <3>1, <3>2, <3>3 DEF Family!Close
  <2> QED BY <1>2, <2>1, <2>2, <2>3, FamilyMoves DEF Family!Next
<1> QED BY <1>1, <1>2, SessionsSpecInv, PTL DEF Spec, FamilySpec, Family!Spec
=============================================================================
