------------------------------ MODULE Sessions ------------------------------
(***************************************************************************)
(* internal/auth for one account: sessions and their rotating refresh      *)
(* tokens, sign-in, sign-out, and the password reset by mail.              *)
(*                                                                         *)
(* The n-th refresh token of session s is the pair <<s, n>>; the row of s  *)
(* holds the hash of the token with n = rotation (current) and of the one  *)
(* before it (previous).  Requests are processes that run one statement at *)
(* a time; a row that a transaction has locked or changed makes the others *)
(* wait until it ends.                                                     *)
(***************************************************************************)
EXTENDS Naturals, FiniteSets

CONSTANTS Requests,       \* server goroutines, each serving one call at a time
          SessionIds,     \* bound: how many sessions are ever created
          ResetTokens,    \* bound: how many reset links are ever mailed
          Passwords,
          FirstPassword,  \* the one the account was registered with
          FirstSession,   \* the one Register opened
          MaxRotations,   \* bound: rotations of one session
          NoOne

ASSUME SessionsAssumption ==
  /\ FirstPassword \in Passwords
  /\ FirstSession \in SessionIds
  /\ MaxRotations \in Nat
  /\ NoOne \notin Requests

VARIABLES password,   \* users.password_hash
          sess,       \* auth_sessions
          rowLock,    \* rowLock[s]: the transaction that holds the row of s
          reset,      \* password_reset_tokens
          burned,     \* burned[r]: reset tokens r has marked used, uncommitted
          pc,         \* the statement a request runs next
          req,        \* what it carries
          redeemed,   \* history: how often each refresh token was redeemed
          resets,     \* history: how often each reset link was redeemed
          existing    \* history: the sessions that were live when the reset
                      \* that r serves claimed its link

rows == <<password, sess, reset>>
history == <<redeemed, resets, existing>>
vars == <<rows, rowLock, burned, pc, req, history>>

Rotations == 0 .. MaxRotations
Tokens == SessionIds \X Rotations

Statements == {"createSession", "findSession", "rotate", "revoke",
               "invalidate", "createToken",
               "claim", "updatePassword", "revokeAll", "commitReset"}

SessionRows == [status: {"none", "live", "revoked", "deleted"},
                rotation: Rotations, expired: BOOLEAN, password: Passwords]

TypeOK ==
  /\ password \in Passwords
  /\ sess \in [SessionIds -> SessionRows]
  /\ rowLock \in [SessionIds -> Requests \cup {NoOne}]
  /\ reset \in [ResetTokens -> {"none", "open", "used", "expired"}]
  /\ burned \in [Requests -> SUBSET ResetTokens]
  /\ pc \in [Requests -> Statements \cup {"idle"}]
  /\ redeemed \in [Tokens -> Nat]
  /\ resets \in [ResetTokens -> Nat]
  /\ existing \in [Requests -> SUBSET SessionIds]

\* The account has just been registered and holds the session Register opened.
Init ==
  /\ password = FirstPassword
  /\ sess = [s \in SessionIds |->
               [status |-> IF s = FirstSession THEN "live" ELSE "none",
                rotation |-> 0, expired |-> FALSE, password |-> FirstPassword]]
  /\ rowLock = [s \in SessionIds |-> NoOne]
  /\ reset = [t \in ResetTokens |-> "none"]
  /\ burned = [r \in Requests |-> {}]
  /\ pc = [r \in Requests |-> "idle"]
  /\ req = [r \in Requests |-> <<>>]
  /\ redeemed = [t \in Tokens |-> 0]
  /\ resets = [t \in ResetTokens |-> 0]
  /\ existing = [r \in Requests |-> {}]

-----------------------------------------------------------------------------
\* Fault: revoked_at is not looked at.
StoredAtAll(s) == sess[s].status \in {"live", "revoked"}

Live(s) == sess[s].status = "live"

Stored(s) == sess[s].status \in {"live", "revoked"}

\* Fault: the previous token is as good as the current one.
IsCurrentOrPrevious(s, n) == sess[s].rotation \in {n, n + 1}

IsCurrent(s, n) == sess[s].rotation = n

IsPrevious(s, n) == sess[s].rotation = n + 1

Begin(r, label, input) ==
  /\ pc[r] = "idle"
  /\ pc' = [pc EXCEPT ![r] = label]
  /\ req' = [req EXCEPT ![r] = input]

Goto(r, label) ==
  /\ pc' = [pc EXCEPT ![r] = label]
  /\ UNCHANGED req

\* The request is answered; nothing of it remains.
Answer(r) ==
  /\ pc' = [pc EXCEPT ![r] = "idle"]
  /\ req' = [req EXCEPT ![r] = <<>>]

\* Bound: a call that will use up an identifier begins while one is left.
Bounded(statements, unused) ==
  Cardinality({q \in Requests : pc[q] \in statements}) < Cardinality(unused)

Locked(s) == rowLock[s] # NoOne

Unlocked(r) == [s \in SessionIds |-> IF rowLock[s] = r THEN NoOne ELSE rowLock[s]]

-----------------------------------------------------------------------------
\* Login reads the user and compares the password; it opens no transaction.
BeginLogin(r, given) ==
  /\ given = password
  /\ Bounded({"createSession"}, {s \in SessionIds : sess[s].status = "none"})
  /\ Begin(r, "createSession", given)
  /\ UNCHANGED <<rows, rowLock, burned, history>>

\* The session row is a statement of its own, some time later.
CreateSession(r) ==
  /\ pc[r] = "createSession"
  /\ \E s \in SessionIds :
       /\ sess[s].status = "none"
       /\ sess' = [sess EXCEPT ![s].status = "live", ![s].password = req[r]]
  /\ Answer(r)
  /\ UNCHANGED <<password, reset, rowLock, burned, history>>

-----------------------------------------------------------------------------
\* Refresh is handed a token that was given out at some time.
BeginRefresh(r, s, n) ==
  /\ sess[s].status # "none"
  /\ n <= sess[s].rotation
  /\ n < MaxRotations
  /\ Begin(r, "findSession", [session |-> s, rotation |-> n])
  /\ UNCHANGED <<rows, rowLock, burned, history>>

\* Fault: no FOR UPDATE.
FindSessionUnlocked(r) ==
  LET s == req[r].session
      n == req[r].rotation
      lookup == IF Stored(s) /\ IsPrevious(s, n) THEN "revoke"
                ELSE IF Stored(s) /\ IsCurrent(s, n) /\ Live(s) /\ ~sess[s].expired
                THEN "rotate" ELSE "none"
  IN /\ pc[r] = "findSession"
     /\ IF lookup = "none" THEN Answer(r) ELSE Goto(r, lookup)
     /\ UNCHANGED <<rows, rowLock, burned, history>>

\* Fault: an inactive session is refused without ending the transaction.
FindSessionLeaksLock(r) ==
  LET s == req[r].session
      n == req[r].rotation
  IN /\ pc[r] = "findSession"
     /\ ~Locked(s)
     /\ \/ /\ Stored(s) /\ IsPrevious(s, n)
           /\ Goto(r, "revoke")
           /\ UNCHANGED rowLock
        \/ /\ Stored(s) /\ IsCurrent(s, n)
           /\ rowLock' = [rowLock EXCEPT ![s] = r]
           /\ IF Live(s) /\ ~sess[s].expired THEN Goto(r, "rotate") ELSE Answer(r)
        \/ /\ ~(Stored(s) /\ (IsCurrent(s, n) \/ IsPrevious(s, n)))
           /\ Answer(r)
           /\ UNCHANGED rowLock
     /\ UNCHANGED <<rows, burned, history>>

\* SELECT .. FOR UPDATE on the hash, current or previous.  The previous token
\* is a replay: the transaction is rolled back and the session revoked by a
\* statement of its own.  An inactive session and an unknown token are refused.
FindSession(r) ==
  LET s == req[r].session
      n == req[r].rotation
      replay == Stored(s) /\ IsPrevious(s, n) /\ ~IsCurrent(s, n)
      usable == Stored(s) /\ IsCurrent(s, n) /\ Live(s) /\ ~sess[s].expired
  IN /\ pc[r] = "findSession"
     /\ ~Locked(s)
     /\ \/ /\ usable
           /\ rowLock' = [rowLock EXCEPT ![s] = r]
           /\ Goto(r, "rotate")
        \/ /\ replay
           /\ Goto(r, "revoke")
           /\ UNCHANGED rowLock
        \/ /\ ~usable /\ ~replay
           /\ Answer(r)
           /\ UNCHANGED rowLock
     /\ UNCHANGED <<rows, burned, history>>

\* The UPDATE asserts the expected hash and revoked_at IS NULL once more, and
\* the transaction commits.
RotateSession(r) ==
  LET s == req[r].session
      n == req[r].rotation
  IN /\ pc[r] = "rotate"
     /\ IF Live(s) /\ IsCurrent(s, n)
        THEN /\ sess' = [sess EXCEPT ![s].rotation = @ + 1, ![s].expired = FALSE]
             /\ redeemed' = [redeemed EXCEPT ![<<s, n>>] = @ + 1]
        ELSE UNCHANGED <<sess, redeemed>>
     /\ rowLock' = Unlocked(r)
     /\ Answer(r)
     /\ UNCHANGED <<password, reset, burned, resets, existing>>

\* POST /auth/logout and DELETE /auth/sessions/{id} name a session.
BeginRevoke(r, s) ==
  /\ Stored(s)
  /\ Begin(r, "revoke", [session |-> s])
  /\ UNCHANGED <<rows, rowLock, burned, history>>

\* UPDATE .. WHERE revoked_at IS NULL: idempotent.
RevokeSession(r) ==
  LET s == req[r].session
  IN /\ pc[r] = "revoke"
     /\ ~Locked(s)
     /\ sess' = IF Live(s) THEN [sess EXCEPT ![s].status = "revoked"] ELSE sess
     /\ Answer(r)
     /\ UNCHANGED <<password, reset, rowLock, burned, history>>

-----------------------------------------------------------------------------
\* Another transaction has marked one of these reset links used and not ended.
BurnedByAnother(r, ts) == \E q \in Requests \ {r} : burned[q] \cap ts # {}

OpenTokens == {t \in ResetTokens : reset[t] = "open"}

BeginForgot(r) ==
  /\ Bounded({"invalidate", "createToken"}, {t \in ResetTokens : reset[t] = "none"})
  /\ Begin(r, "invalidate", <<>>)
  /\ UNCHANGED <<rows, rowLock, burned, history>>

\* A new link retires the ones before it ..
InvalidatePasswordResetTokens(r) ==
  /\ pc[r] = "invalidate"
  /\ ~BurnedByAnother(r, OpenTokens)
  /\ burned' = [burned EXCEPT ![r] = OpenTokens]
  /\ Goto(r, "createToken")
  /\ UNCHANGED <<rows, rowLock, history>>

\* .. in the transaction that stores it and queues the mail.
CreatePasswordResetToken(r) ==
  /\ pc[r] = "createToken"
  /\ \E t \in ResetTokens :
       /\ reset[t] = "none"
       /\ reset' = [u \in ResetTokens |-> IF u = t THEN "open"
                                          ELSE IF u \in burned[r] THEN "used"
                                          ELSE reset[u]]
  /\ burned' = [burned EXCEPT ![r] = {}]
  /\ Answer(r)
  /\ UNCHANGED <<password, sess, rowLock, history>>

-----------------------------------------------------------------------------
BeginReset(r, t, new) ==
  /\ reset[t] # "none"
  /\ Begin(r, "claim", [token |-> t, password |-> new])
  /\ UNCHANGED <<rows, rowLock, burned, history>>

\* Fault: the link is read first and marked used by a later statement.
ClaimUnlocked(r) ==
  LET t == req[r].token
  IN /\ pc[r] = "claim"
     /\ IF reset[t] = "open"
        THEN /\ burned' = [burned EXCEPT ![r] = {t}]
             /\ existing' = [existing EXCEPT ![r] = {s \in SessionIds : Live(s)}]
             /\ Goto(r, "updatePassword")
        ELSE Answer(r) /\ UNCHANGED <<burned, existing>>
     /\ UNCHANGED <<rows, rowLock, redeemed, resets>>

\* One UPDATE on the row of the link, which two submissions contend for.
ClaimPasswordResetToken(r) ==
  LET t == req[r].token
  IN /\ pc[r] = "claim"
     /\ ~BurnedByAnother(r, {t})
     /\ IF reset[t] = "open"
        THEN /\ burned' = [burned EXCEPT ![r] = {t}]
             /\ existing' = [existing EXCEPT ![r] = {s \in SessionIds : Live(s)}]
             /\ Goto(r, "updatePassword")
        ELSE Answer(r) /\ UNCHANGED <<burned, existing>>
     /\ UNCHANGED <<rows, rowLock, redeemed, resets>>

\* The new hash is on the row of the user, which stays locked.
UpdatePasswordHash(r) ==
  /\ pc[r] = "updatePassword"
  /\ \A q \in Requests : pc[q] \notin {"revokeAll", "commitReset"}
  /\ Goto(r, "revokeAll")
  /\ UNCHANGED <<rows, rowLock, burned, history>>

\* Fault: a session that somebody is using is left alone (SKIP LOCKED).
RevokeSkipsLocked(r) ==
  /\ pc[r] = "revokeAll"
  /\ rowLock' = [s \in SessionIds |->
                   IF Live(s) /\ ~Locked(s) THEN r ELSE rowLock[s]]
  /\ Goto(r, "commitReset")
  /\ UNCHANGED <<rows, burned, history>>

\* Every live session the statement sees is revoked, one in the middle of a
\* rotation as soon as that has ended.
RevokeUserSessions(r) ==
  LET live == {s \in SessionIds : Live(s)}
  IN /\ pc[r] = "revokeAll"
     /\ \A s \in live : ~Locked(s)
     /\ rowLock' = [s \in SessionIds |-> IF s \in live THEN r ELSE rowLock[s]]
     /\ Goto(r, "commitReset")
     /\ UNCHANGED <<rows, burned, history>>

\* Fault: the token is stored where the hash of the password belongs.
TokenForPassword(r) == req[r].token

NewPassword(r) == req[r].password

\* Link, password and sessions change together.
CommitReset(r) ==
  /\ pc[r] = "commitReset"
  /\ password' = NewPassword(r)
  /\ sess' = [s \in SessionIds |-> IF rowLock[s] = r
                                   THEN [sess[s] EXCEPT !.status = "revoked"]
                                   ELSE sess[s]]
  /\ reset' = [t \in ResetTokens |-> IF t \in burned[r] THEN "used" ELSE reset[t]]
  /\ resets' = [t \in ResetTokens |->
                  IF t \in burned[r] THEN resets[t] + 1 ELSE resets[t]]
  /\ rowLock' = Unlocked(r)
  /\ burned' = [burned EXCEPT ![r] = {}]
  /\ existing' = [existing EXCEPT ![r] = {}]
  /\ Answer(r)
  /\ UNCHANGED redeemed

-----------------------------------------------------------------------------
\* Time passes: a session or a link runs out.  (A revoked session may be swept
\* at any time, whether it has run out or not.)
Expire(s) ==
  /\ Live(s)
  /\ sess' = [sess EXCEPT ![s].expired = TRUE]
  /\ UNCHANGED <<password, reset, rowLock, burned, pc, req, history>>

ExpireToken(t) ==
  /\ reset[t] = "open"
  /\ \A q \in Requests : t \notin burned[q]
  /\ reset' = [reset EXCEPT ![t] = "expired"]
  /\ UNCHANGED <<password, sess, rowLock, burned, pc, req, history>>

\* The sweep deletes what has expired, and what was revoked long enough ago.
DeleteExpiredSessions(old) ==
  LET gone == old \cup {s \in SessionIds : Stored(s) /\ sess[s].expired}
  IN /\ gone # {}
     /\ \A s \in old : sess[s].status = "revoked"
     /\ \A s \in gone : ~Locked(s)
     /\ sess' = [s \in SessionIds |-> IF s \in gone
                                      THEN [sess[s] EXCEPT !.status = "deleted"]
                                      ELSE sess[s]]
     /\ UNCHANGED <<password, reset, rowLock, burned, pc, req, history>>

\* A statement fails or the process dies: the transaction is rolled back.
Fail(r) ==
  /\ pc[r] # "idle"
  /\ rowLock' = Unlocked(r)
  /\ burned' = [burned EXCEPT ![r] = {}]
  /\ existing' = [existing EXCEPT ![r] = {}]
  /\ Answer(r)
  /\ UNCHANGED <<rows, redeemed, resets>>

-----------------------------------------------------------------------------
Arrive(r) ==
  \/ \E p \in Passwords : BeginLogin(r, p)
  \/ \E s \in SessionIds, n \in Rotations : BeginRefresh(r, s, n)
  \/ \E s \in SessionIds : BeginRevoke(r, s)
  \/ BeginForgot(r)
  \/ \E t \in ResetTokens, p \in Passwords : BeginReset(r, t, p)

Proceed(r) ==
  \/ CreateSession(r)
  \/ FindSession(r)
  \/ RotateSession(r)
  \/ RevokeSession(r)
  \/ InvalidatePasswordResetTokens(r)
  \/ CreatePasswordResetToken(r)
  \/ ClaimPasswordResetToken(r)
  \/ UpdatePasswordHash(r)
  \/ RevokeUserSessions(r)
  \/ CommitReset(r)

Environment ==
  \/ \E s \in SessionIds : Expire(s)
  \/ \E t \in ResetTokens : ExpireToken(t)
  \/ \E old \in SUBSET SessionIds : DeleteExpiredSessions(old)

Next == Environment \/ \E r \in Requests : Arrive(r) \/ Proceed(r) \/ Fail(r)

Spec == Init /\ [][Next]_vars

-----------------------------------------------------------------------------
\* A rotation that has read its session never loses it: the row lock makes
\* "another refresh won the race" impossible, so no client is refused with a
\* token it was given and nobody has used (service.go:378-382).
RotateNeverLoses ==
  \A r \in Requests :
    pc[r] = "rotate" => /\ Live(req[r].session)
                        /\ IsCurrent(req[r].session, req[r].rotation)

\* Of all the refreshes that carry one token, retries, duplicates and replays,
\* at most one is served (service.go:335-341, repo.go:227-229).
TokensAreSingleUse == \A t \in Tokens : redeemed[t] <= 1

\* A reset link sets a password once, however often it is submitted and
\* whatever link is requested meanwhile (repo.go:350-354).
ResetLinksAreSingleUse == \A t \in ResetTokens : resets[t] <= 1

\* A reset signs out every session that was live when it took the link, those
\* in the middle of a refresh too (service.go:569-570).
ResetSignsOutExisting ==
  [][ \A r \in Requests :
        (pc[r] = "commitReset" /\ resets' # resets /\ req'[r] = <<>>)
          => \A s \in existing[r] : sess'[s].status # "live" ]_vars

\* Every device that is signed in has signed in with the present password: the
\* reset "signs every device out" (service.go:569-570).
LiveSessionsUseCurrentPassword ==
  \A s \in SessionIds : Live(s) => sess[s].password = password

\* The next statement of r waits for a lock of a transaction: the row of a
\* session, links marked used, the row of the user, all live sessions.
Waits(r) ==
  \/ pc[r] \in {"findSession", "revoke"} /\ Locked(req[r].session)
  \/ pc[r] = "invalidate" /\ BurnedByAnother(r, OpenTokens)
  \/ pc[r] = "claim" /\ BurnedByAnother(r, {req[r].token})
  \/ pc[r] = "updatePassword" /\ \E q \in Requests : pc[q] \in {"revokeAll", "commitReset"}
  \/ pc[r] = "revokeAll" /\ \E s \in SessionIds : Live(s) /\ Locked(s)

\* Refreshes, resets and requests for links lock session rows, links and the
\* user in different orders, but never in a circle, and no lock outlives its
\* transaction: of those that have begun, one does not wait (service.go:357-397,
\* 545-561 and 586-603).
SomebodyProceeds ==
  (\E r \in Requests : pc[r] # "idle") => \E r \in Requests : pc[r] # "idle" /\ ~Waits(r)

\* A session is a family of tokens whose head only moves while it is open:
\* revoked, expired or deleted, it never comes back.
Family == INSTANCE TokenFamily WITH
  Families <- SessionIds,
  status <- [s \in SessionIds |-> CASE sess[s].status = "none" -> "unopened"
                                    [] sess[s].status = "live" -> "open"
                                    [] OTHER -> "closed"],
  head <- [s \in SessionIds |-> sess[s].rotation]
FamilySpec == Family!Spec
=============================================================================
