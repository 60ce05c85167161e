\* A deployment for two platforms after an earlier build of the same service:
\* siblings, the reuse of a digest, an operator's cancel.
CONSTANTS
  Deployments = {d0, d1}
  Platforms = {p1, p2}
  Builders = {b1}
  NoBuilder = NoBuilder
  NoDigest = NoDigest
  MaxAttempts = 1
  MaxInFlight = 1
  MaxConcurrent = 1
  TaskCap = 2
  MaxJobs = 1
  MaxRestarts = 0
  MaxHandling = 1
  MaxReaping = 0
  Past = {d0}
  Cancellable = {d1}
  Capable <- MCCapable
SPECIFICATION Spec
INVARIANT ShipsWhatWasBuilt
INVARIANT BuilderNotOverbooked
CHECK_DEADLOCK FALSE
SYMMETRY Symmetry
