\* Two calls at a time, two sessions that rotate twice and two reset links, so
\* that a link can be retired, submitted twice and overtaken by the next one.
\* One password: no property of this run compares passwords.
CONSTANTS
  Requests = {r1, r2}
  SessionIds = {s1, s2}
  ResetTokens = {t1, t2}
  Passwords = {p1}
  FirstPassword = p1
  FirstSession = s1
  MaxRotations = 2
  NoOne = NoOne
SPECIFICATION Spec
SYMMETRY RequestSymmetry
INVARIANTS TypeOK RotateNeverLoses TokensAreSingleUse ResetLinksAreSingleUse
           
PROPERTIES ResetSignsOutExisting 
\* Between two calls nothing has to happen.
CHECK_DEADLOCK FALSE
