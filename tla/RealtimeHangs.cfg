SPECIFICATION Spec
CHECK_DEADLOCK FALSE
CONSTANTS
  MaxVersion = 2
  PageCount <- OneThenTwo
  None = None
  WithPolling = FALSE
  UseRealtime = TRUE
  Application = {}
  MaxBreaks = 1
  InitialBackoff = 2
  MaxBackoff = 7
  Jitters = {0}
PROPERTIES
  RealtimeStops
