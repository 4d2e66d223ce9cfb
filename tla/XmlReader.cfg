SPECIFICATION Spec
CONSTANTS
  Samples <- TwoSamples
  Folder <- FolderText
  Uploads <- TwoUploads
  MaxSaves = 2
INVARIANTS RoundTrip TornIsPrefix ParserHolds FoundUntilResaved
CHECK_DEADLOCK FALSE
