SPECIFICATION Spec
CONSTANTS
  d1 = d1
  d2 = d2
  d3 = d3
  tag1 = tag1
  tag2 = tag2
  NotThere = NotThere
  Digests <- ThreeDigests
  Prefixes <- TwoPrefixes
  Prefix <- Begins
  Tags <- TwoTags
  Configs <- EveryConfig
  MaxCalls = 2
INVARIANTS PinnedModelAnswers NothingBeforeTheGate
CHECK_DEADLOCK FALSE
