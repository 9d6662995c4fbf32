SPECIFICATION Spec
CONSTANTS
  v1 = v1
  v2 = v2
  r1 = r1
  r2 = r2
  MaxLines = 2
  MediaType = "audio"
  Viewers <- OneViewer
  Slots <- TwoSlots
  Faults = {"lost", "abandon", "crash", "delete"}
  MaxFaults = 2
SYMMETRY Symmetry
CHECK_DEADLOCK FALSE
INVARIANTS TypeOK Contiguous NoLineMissed  
