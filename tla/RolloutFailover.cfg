\* A service with a volume, pinned or not, on a fleet of two nodes, with two
\* faults: its node or the other is lost for a while, the agent or the control
\* plane restarts.
CONSTANTS
  Node = {n1, n2}
  Home = n1
  Pinning = {TRUE, FALSE}
  HasVolume = TRUE
  Image = {good}
  Serving = {good}
  FirstImage = good
  NoImage = NoImage
  MaxRows = 3
  Faults = {"link", "agent", "control"}
  MaxFaults = 2
  Operations = {}
  MaxOperations = 0
  Prompt = TRUE
SPECIFICATION FairSpec
INVARIANT NotLost
PROPERTY Converges
CHECK_DEADLOCK FALSE
