SPECIFICATION FairSpec
CONSTANTS
  Files <- Five
  Missing <- Nowhere
  Folder <- FolderOf
  XmlName <- XmlOf
  ByFullPath <- Absolute
  Metadata <- Graphs
  MaxDepth = 6
INVARIANTS WalkIsRight OnlyCirclesRepeat SendsHold
PROPERTY Ends
CHECK_DEADLOCK FALSE
