CONSTANTS
  p1 = p1
  p2 = p2
  Processes = {p1, p2}
  Controls = {"Interrogate", "Stop"}
  None = None
  ApiFails = TRUE
SPECIFICATION FairSpec
INVARIANTS TypeOK EchoIsCurrent OneReporter BlockedOnlyByControls
PROPERTIES ImplementsServiceControl StopIsObeyed RunningMeansServing StoppedProcessEnds
CHECK_DEADLOCK FALSE
