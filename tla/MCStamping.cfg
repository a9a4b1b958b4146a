CONSTANTS
  NoVersion = NoVersion
  Inherit = Inherit
  Anything = Anything
  Link = Link
  Repositories <- AllRepositories
  AllOptions <- CommandLines
  MaxRuns = 3
SPECIFICATION Spec
INVARIANT ExactlyAskedStamped
INVARIANT RequirementsFollow
INVARIANT RerunRepairs
