SPECIFICATION FairSpec
CONSTANTS
  v1 = v1
  v2 = v2
  r1 = r1
  r2 = r2
  MaxLines = 3
  MediaType = "audio"
  Viewers <- NoViewer
  Slots <- OneSlot
  Faults = {"lost", "crash"}
  MaxFaults = 3
CHECK_DEADLOCK FALSE
PROPERTY CatchesUp
