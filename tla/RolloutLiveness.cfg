\* A deploy of an image that may be broken, a restart or a stop, on one node,
\* and two faults of any kind but the loss of the node.
CONSTANTS
  Node = {n1}
  Home = n1
  Pinning = {FALSE}
  HasVolume = FALSE
  Image = {good, broken}
  Serving = {good}
  FirstImage = good
  NoImage = NoImage
  MaxRows = 3
  Faults = {"agent", "exit", "docker", "control"}
  MaxFaults = 2
  Operations = {"deploy", "restart", "stop"}
  MaxOperations = 1
  Prompt = FALSE
SPECIFICATION FairSpec
PROPERTY RolloutsEnd
PROPERTY Converges
CHECK_DEADLOCK FALSE
