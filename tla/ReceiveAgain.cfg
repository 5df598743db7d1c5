SPECIFICATION Spec
CONSTANTS
  Names = {"a", "b"}
  NoName = "none"
  Kinds = {"memory", "file"}
  Connections <- Few
  Numeral <- MCNumeral
  ReadSizes = {11, 40}
  RedirectLimit = 0
  MaxTransfers = 2
  MaxErrors = 1
INVARIANTS
  HeadAsSent
  BodyAsSent
PROPERTY
  FilesKept
