\* A deploy, while the Docker daemon fails once.
CONSTANTS
  Node = {n1}
  Home = n1
  Pinning = {FALSE}
  HasVolume = FALSE
  Image = {good}
  Serving = {good}
  FirstImage = good
  NoImage = NoImage
  MaxRows = 2
  Faults = {"docker"}
  MaxFaults = 1
  Operations = {"deploy"}
  MaxOperations = 1
  Prompt = TRUE
SPECIFICATION Spec
PROPERTY WorkingNotFailed
CHECK_DEADLOCK FALSE
