SPECIFICATION Spec
CONSTANTS
  Names = {"a", "b"}
  NoName = "none"
  Kinds = {"memory", "file"}
  Connections <- Servers
  Numeral <- MCNumeral
  ReadSizes = {1, 40}
  RedirectLimit = 0
  MaxTransfers = 1
  MaxErrors = 1
INVARIANTS
  TypeOK
  HeadAsSent
  SizeAgrees
  BodyAsSent
  ProgressCountsBody
PROPERTIES
  AlwaysCloser
  FollowsLoop
