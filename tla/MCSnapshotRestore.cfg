CONSTANTS
  Files = {1, 2}
  Nothing = Nothing
  Damaged = Damaged
  Keys <- TwoKeys
  Saved <- TwoSnapshots
  Pieces = {1, 2, 3}
  InFlight = 2
SPECIFICATION SpecRestore
INVARIANT RestoredIsSnapshot
INVARIANT MissIsReal
PROPERTY RestoreEnds
