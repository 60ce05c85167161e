\* A deployment for two platforms after an earlier build: two builders that have no
\* room for it, two attempts at each job, siblings that wait for each other.
CONSTANTS
  Deployments = {d0, d1}
  Platforms = {p1, p2}
  Builders = {b1, b2}
  NoBuilder = NoBuilder
  NoDigest = NoDigest
  MaxAttempts = 2
  MaxInFlight = 1
  MaxConcurrent = 0
  TaskCap = 1
  MaxJobs = 1
  MaxRestarts = 0
  MaxHandling = 1
  MaxReaping = 0
  Past = {d0}
  Cancellable = {}
  Capable <- MCOnePair
SPECIFICATION FairSpec
PROPERTY BuildReturns
CHECK_DEADLOCK FALSE
