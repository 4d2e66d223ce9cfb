SPECIFICATION DocumentSpec
CONSTANTS
  Elements <- AllElements
  Kind <- AllKinds
  TagOf <- AllTags
  Attribs <- TwoNames
  Names = {"name"}
  Trees <- TwoTrees
  DocElem = "DOC"
  TempElem = "TEMP"
  Tags <- AskedTags
  MaxEdits = 1
INVARIANTS QueriesAnswer SizeUnlessUnselected OneRoot
PROPERTY EditsAnswer
CHECK_DEADLOCK FALSE
