SPECIFICATION Spec
CONSTANTS
  r1 = r1
  r2 = r2
  Calls <- TwoCalls
  Admins <- TwoCalls
  Clippers = {r2}
  Trimmers = {r1}
  Files <- ThreeLines
  Concurrency = 2
  MaxFaults = 1
  MaxClipSize = 2
  Ranges <- FourRanges
  MediaTypes = {"video", "audio"}
  Formats = {"mp4"}
  MaxEdits = 1
CHECK_DEADLOCK FALSE
INVARIANTS TypeOK MergedInOrder ScratchBounded NothingOutlives ArtifactsWhole TempClean JobFollowsBuild NoRival CopiesOverlap NeverStuck
PROPERTIES RendersWindDown
