\* A deploy of a service over two nodes, while a node, an agent
\* or the control plane fails once.
CONSTANTS
  Node = {n1, n2}
  Home = n1
  Pinning = {FALSE}
  HasVolume = FALSE
  Image = {good}
  Serving = {good}
  FirstImage = good
  NoImage = NoImage
  MaxRows = 3
  Faults = {"link", "agent", "control"}
  MaxFaults = 1
  Operations = {"deploy"}
  MaxOperations = 1
  Prompt = TRUE
SPECIFICATION Spec
INVARIANT TypeOK
INVARIANT KeepsServing
INVARIANT NotLost
PROPERTY CancelledNeverLive
PROPERTY WorkingNotFailed
CHECK_DEADLOCK FALSE
