\* One job and one attempt at it, a restart and an operator, under fairness.
CONSTANTS
  Deployments = {d1}
  Platforms = {p1}
  Builders = {b1, b2}
  NoBuilder = NoBuilder
  NoDigest = NoDigest
  MaxAttempts = 1
  MaxInFlight = 1
  MaxConcurrent = 1
  TaskCap = 2
  MaxJobs = 1
  MaxRestarts = 1
  MaxHandling = 1
  MaxReaping = 1
  Past = {}
  Cancellable = {d1}
  Capable <- MCCapable
SPECIFICATION FairSpec
INVARIANT TypeOK
PROPERTY BuildReturns
PROPERTY JobsEnd
CHECK_DEADLOCK FALSE
