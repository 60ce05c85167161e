\* A pinned service whose node is lost for a while.
CONSTANTS
  Node = {n1}
  Home = n1
  Pinning = {TRUE}
  HasVolume = FALSE
  Image = {good}
  Serving = {good}
  FirstImage = good
  NoImage = NoImage
  MaxRows = 2
  Faults = {"link"}
  MaxFaults = 1
  Operations = {}
  MaxOperations = 0
  Prompt = TRUE
SPECIFICATION Spec
INVARIANT HeldWhileDown
CHECK_DEADLOCK FALSE
