\* A deploy of a service with a volume.
CONSTANTS
  Node = {n1}
  Home = n1
  Pinning = {FALSE}
  HasVolume = TRUE
  Image = {good}
  Serving = {good}
  FirstImage = good
  NoImage = NoImage
  MaxRows = 2
  Faults = {}
  MaxFaults = 0
  Operations = {"deploy"}
  MaxOperations = 1
  Prompt = TRUE
SPECIFICATION Spec
INVARIANT OneWriter
CHECK_DEADLOCK FALSE
