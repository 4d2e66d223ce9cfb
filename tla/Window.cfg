SPECIFICATION Spec
CONSTANTS
  LocalFiles <- Local
  Empty <- EmptyFile
  RepoPath <- Repository
  DownloadPath <- Downloads
  Before <- Repositories
  Times = {"t2", "t3"}
  MaxClicks = 3
  MaxSelected = 2
INVARIANTS PathsSurvive DependenciesAsChosen OnlyBareNamesCrash RequestsAnswered
CHECK_DEADLOCK FALSE
