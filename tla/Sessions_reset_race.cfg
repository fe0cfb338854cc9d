\* A sign-in with the old password whose session row comes after the reset.
CONSTANTS
  Requests = {r1, r2}
  SessionIds = {s1, s2}
  ResetTokens = {t1}
  Passwords = {p1, p2}
  FirstPassword = p1
  FirstSession = s1
  MaxRotations = 2
  NoOne = NoOne
SPECIFICATION Spec
INVARIANTS LiveSessionsUseCurrentPassword
CHECK_DEADLOCK FALSE
