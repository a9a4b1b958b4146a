CONSTANTS
  NoChannel = NoChannel
  Branches <- AllBranches
  Channels <- AllChannels
  Messages <- AllMessages
  FirstTags <- AllFirstTags
  Overrides = {"beta"}
  Jobs = {j1, j2}
  MaxCommits = 3
  MaxTags = 3
  Waiting = Waiting
SPECIFICATION SpecVersions
SYMMETRY JobSymmetry
INVARIANT VersionsFollowSemVer
INVARIANT PrereleasesAdvance
PROPERTY CalculatedIsHighest
CHECK_DEADLOCK FALSE
