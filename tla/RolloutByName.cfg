\* A deploy of an image whose containers do not answer their health check.
CONSTANTS
  Node = {n1}
  Home = n1
  Pinning = {FALSE}
  HasVolume = FALSE
  Image = {good, broken}
  Serving = {good}
  FirstImage = good
  NoImage = NoImage
  MaxRows = 2
  Faults = {}
  MaxFaults = 0
  Operations = {"deploy"}
  MaxOperations = 1
  Prompt = TRUE
SPECIFICATION Spec
INVARIANT BrokenNeverPromoted
CHECK_DEADLOCK FALSE
