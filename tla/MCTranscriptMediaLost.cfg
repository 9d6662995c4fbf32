SPECIFICATION Spec
CONSTANTS
  v1 = v1
  v2 = v2
  r1 = r1
  r2 = r2
  MaxLines = 2
  MediaType = "audio"
  Viewers <- NoViewer
  Slots <- OneSlot
  Faults = {"lost"}
  MaxFaults = 1
CHECK_DEADLOCK FALSE
INVARIANT MediaRetrievable
