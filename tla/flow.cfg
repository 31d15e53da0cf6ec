SPECIFICATION LiveSpec
CONSTANTS
  main = main
  MaxDepthSent = 2
  MaxChildren = 2
  Scenes <- AllTrees
  sub = sub
  Main <- main
  Files <- TwoFiles
  Libraries <- AllLibraries
  StableSamples = 2
  MaxDepth = 3
INVARIANTS TypeOK SubflowsCannotWiden ExitTellsTheTruth SettledStoodStill SelectorsMeetReference
PROPERTIES NothingAfterFailure SeesWhatIsThere RunEnds
CHECK_DEADLOCK FALSE
