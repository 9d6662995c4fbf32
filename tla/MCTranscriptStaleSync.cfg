SPECIFICATION Spec
CONSTANTS
  v1 = v1
  v2 = v2
  r1 = r1
  r2 = r2
  MaxLines = 2
  MediaType = "none"
  Viewers <- OneViewer
  Slots <- OneSlot
  Faults = {}
  MaxFaults = 0
CHECK_DEADLOCK FALSE
INVARIANT ViewerHasAll
