SPECIFICATION Spec
CONSTANTS
  Root = "root"
  Dirs <- AllDirs
  Names <- AllNames
  Parent <- ParentOf
  Matching <- MatchOf
  AnyName = "*.*"
  Here = "."
  Up = ".."
  Asked <- HeadersAndTexts
  NotYet = NotYet
  Newline = "n"
  BufLimit = 2
  BlockSize = 2
  Chars = {"x", "n"}
  Content <- TextOf
  There <- FirstPackage
  Log = "c.txt"
  Copy = "copy"
  Lines <- ShortLines
  MaxLog = 2
  MaxLines = 3
INVARIANTS ListedOnce ReadsHold
PROPERTIES ListsFiles Terminates
CHECK_DEADLOCK FALSE
