CONSTANTS
  p1 = p1
  p2 = p2
  Processes = {p1, p2}
  Controls = {"Interrogate", "Stop"}
  None = None
  ApiFails = FALSE
SPECIFICATION FairSpec
PROPERTY ServiceExitsOnceExecuteCompletes
CHECK_DEADLOCK FALSE
