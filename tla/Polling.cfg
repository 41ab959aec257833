SPECIFICATION FairNetworkSpec
CHECK_DEADLOCK FALSE
CONSTANTS
  MaxVersion = 2
  PageCount <- OneOne
  None = None
  WithPolling = TRUE
  UseRealtime = TRUE
  Application = {"app"}
  MaxBreaks = 1
  InitialBackoff = 2
  MaxBackoff = 7
  Jitters = {0}
INVARIANT TypeOK
PROPERTIES
  EventuallyCurrent
  PollStops
  UndoneOnlyByOlderCalls
