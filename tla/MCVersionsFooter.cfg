CONSTANTS
  NoChannel = NoChannel
  Branches <- AllBranches
  Channels <- AllChannels
  Messages <- Footers
  FirstTags <- AllFirstTags
  Overrides = {}
  Jobs = {j1}
  MaxCommits = 3
  MaxTags = 3
  Waiting = Waiting
SPECIFICATION SpecVersions
INVARIANT BreakingFooterIsMajor
CHECK_DEADLOCK FALSE
