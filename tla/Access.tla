------------------------------- MODULE Access -------------------------------
(***************************************************************************)
(* The access tokens of internal/auth and the middleware that takes them:  *)
(* a signed token is issued after the session's row has been written and   *)
(* is accepted until it expires, with no look at the session.  The refresh *)
(* tokens and the rows themselves are in Sessions.                         *)
(***************************************************************************)
EXTENDS Naturals

CONSTANTS SessionIds,   \* sessions (device families)
          AccessTTL,    \* life of an access token, in ticks
          LastInstant   \* bound: the clock

ASSUME AccessAssumption == AccessTTL \in Nat \ {0} /\ LastInstant \in Nat

VARIABLES active,     \* sessions that are neither revoked nor unborn
          revokedAt,  \* when each of the others was revoked
          issuing,    \* sessions whose row is written and whose token is not
          bearers,    \* the tokens issued
          clock

accessVars == <<active, revokedAt, issuing, bearers, clock>>

\* late (history): the session was revoked before the token was issued.
Bearer == [session: SessionIds, expires: Nat, late: BOOLEAN]

AccessTypeOK ==
  /\ active \subseteq SessionIds /\ issuing \subseteq SessionIds
  /\ revokedAt \in [SessionIds -> Nat]
  /\ bearers \subseteq Bearer
  /\ clock \in Nat

AccessInit ==
  /\ active = SessionIds /\ issuing = {} /\ bearers = {}
  /\ revokedAt = [s \in SessionIds |-> 0]
  /\ clock = 0

\* Login's new row, or Refresh's rotation of an active one.
BeginIssue(s) ==
  /\ s \in active \ issuing
  /\ issuing' = issuing \cup {s}
  /\ UNCHANGED <<active, revokedAt, bearers, clock>>

\* newTokenPair: the token is signed after that.
IssueAccess(s) ==
  /\ s \in issuing
  /\ bearers' = bearers \cup {[session |-> s, expires |-> clock + AccessTTL,
                               late |-> s \notin active]}
  /\ issuing' = issuing \ {s}
  /\ UNCHANGED <<active, revokedAt, clock>>

\* The process ends between the two.
IssueFails(s) ==
  /\ s \in issuing
  /\ issuing' = issuing \ {s}
  /\ UNCHANGED <<active, revokedAt, bearers, clock>>

\* Fault: a token is still taken at the instant it expires.
AcceptsAtExpiry(t) == clock <= t.expires

\* Verify: signature, issuer and type are the server's own; only time decides.
Accepts(t) == clock < t.expires

\* The middleware passes on whoever bears such a token; the session's row is not
\* looked at.
LetsIn(t) == Accepts(t)

\* Logout, RevokeSession, a replayed refresh token or a reset of the password.
EndSession(s) ==
  /\ s \in active
  /\ active' = active \ {s}
  /\ revokedAt' = [revokedAt EXCEPT ![s] = clock]
  /\ UNCHANGED <<issuing, bearers, clock>>

AccessTick ==
  /\ clock < LastInstant
  /\ clock' = clock + 1
  /\ UNCHANGED <<active, revokedAt, issuing, bearers>>

AccessNext ==
  \/ AccessTick
  \/ \E s \in SessionIds : BeginIssue(s) \/ IssueAccess(s) \/ IssueFails(s) \/ EndSession(s)

AccessSpec == AccessInit /\ [][AccessNext]_accessVars

-----------------------------------------------------------------------------
\* A revoked session keeps answering with the tokens it has, but for less than
\* AccessTTL after it was revoked; a refresh that overtakes the revocation may
\* still sign one later.
AccessEndsAfterRevocation ==
  \A t \in bearers :
    (LetsIn(t) /\ ~t.late /\ t.session \notin active)
      => clock < revokedAt[t.session] + AccessTTL
=============================================================================
