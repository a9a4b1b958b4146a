CONSTANTS
  TaskCount = 2
  Candidates <- BothTasks
  MaxVersion = 1
  EditKinds = {"none", "forward"}
  Nothing = Nothing
  Corrupt = Corrupt
  Torn = Torn
  Failed = Failed
SPECIFICATION FairSpec
INVARIANT HitIsCurrent
INVARIANT StaleIsNoError
INVARIANT StoreIsHonest
PROPERTY RunEnds
