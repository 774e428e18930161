\* The library: two cores, four jobs (so two wait), every scheme, calls at
\* times 0..4. The pages: two sections; entries that match, with and without
\* several definitions; a folder with eight files and a folder of two.
SPECIFICATION MCSpec
CONSTANTS
  JobNumbers = {1, 2, 3, 4}
  NumCores = 2
  Schemes <- AllSchemes
  MaxTime = 4
  Times <- MCTimes
  RunTimes <- MCRunTimes
  Priorities <- MCPriorities
  NoJob = NoJob
  NumSections = 2
  Texts <- MCTexts
  MaxTimers = 2
  Files <- MCFiles
INVARIANTS
  TypeOK
  OnePlace
  WorkConserving
  QueueOrdered
  NoInversion
  ShownIsLatest
  DormantIsReset
  HoverKeepsOpen
  ArrowsFollowDisplay
  IconsTellContents
PROPERTIES
  RunsToCompletion
  NoOvertaking
\* The caller may stop calling, the reader may leave.
CHECK_DEADLOCK FALSE
