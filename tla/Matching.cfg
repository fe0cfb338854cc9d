\* Two people and three requests: the fewest that let two likes of one pair
\* meet a replay, a block or an unblock.  No symmetry: a liveness property is
\* checked.
CONSTANTS
  Users = {u1, u2}
  Requests = {r1, r2, r3}
  LockKey <- DistinctKeys
SPECIFICATION FairSpec
INVARIANTS TypeOK MutualLikesAreMatches OneEventPerMatch 
PROPERTIES DecisionsStand AnswersAreTrue PromiseSpec RequestsAreAnswered
\* All the requests may have been answered.
CHECK_DEADLOCK FALSE
