\* One job, two builders, two attempts and a restart: the fence, the leases and
\* the reaper.
CONSTANTS
  Deployments = {d1}
  Platforms = {p1}
  Builders = {b1, b2}
  NoBuilder = NoBuilder
  NoDigest = NoDigest
  MaxAttempts = 2
  MaxInFlight = 1
  MaxConcurrent = 1
  TaskCap = 2
  MaxJobs = 1
  MaxRestarts = 1
  MaxHandling = 1
  MaxReaping = 1
  Past = {}
  Cancellable = {}
  Capable <- MCCapable
SPECIFICATION Spec
INVARIANT DigestFence
INVARIANT AttemptOwned
INVARIANT ReceiptMeansSettled
INVARIANT Watched
INVARIANT ActiveHasLease
PROPERTY FailedStaysFailed
PROPERTY ClosedIsFinal
PROPERTY OrphansOnlyEnd
PROPERTY ImplementsFencedWork
CHECK_DEADLOCK FALSE
SYMMETRY Symmetry
