CONSTANTS
  Files = {1, 2}
  Nothing = Nothing
  Damaged = Damaged
  Key = Key
  MaxVersion = 3
  Transports = {"local", "put", "create"}
  Older = {Nothing, OldArchive}
  Parts = {1, 2, 3}
  InFlight = 2
SPECIFICATION SpecSave
INVARIANT SnapshotExisted
INVARIANT UploadIsAtomic
PROPERTY SaveEnds
