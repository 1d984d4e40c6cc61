SPECIFICATION FairSpec
CONSTANTS
  Jwt = {j1, j2}
  Sig = {s1}
  Stale = s0
  Matches <- MCMatches
  FixtureFile <- MCFixtureFile
  Lists <- MCLists
  Now = 1000
  Tick = {t1, t2}
  MaxRuns = 3
  MaxFailures = 1
INVARIANT RefusedOnlyIfSpent
INVARIANT PrintedIsTrue
PROPERTY PollCatchesUp
CHECK_DEADLOCK FALSE
