SPECIFICATION FairNetworkSpec
CHECK_DEADLOCK FALSE
CONSTANTS
  MaxVersion = 3
  PageCount <- OneTwoTwo
  None = None
  WithPolling = FALSE
  UseRealtime = TRUE
  Application = {}
  MaxBreaks = 3
  InitialBackoff = 2
  MaxBackoff = 7
  Jitters = {0, 1}
INVARIANTS
  HandledEventsServed
  BoundedOvershoot
  NeverSoonerThanSchedule
PROPERTIES
  StreamRecovers
  StopsIfServerSpeaks
