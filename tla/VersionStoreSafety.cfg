SPECIFICATION Spec
CONSTANTS
  Uploads <- Four
  Package <- FourPackage
  FileName <- FourName
  XmlName <- FourXml
  Chunks <- FourChunks
  MostChunks = 2
  MaxTime = 1
INVARIANTS VersionsHold OnlyCollisionsCrash
PROPERTY OldVersionsKept
CHECK_DEADLOCK FALSE
