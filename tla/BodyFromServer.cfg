SPECIFICATION Spec
CONSTANTS
  Names = {"a", "b"}
  NoName = "none"
  Kinds = {"memory"}
  Connections <- OnlyCounted
  Numeral <- MCNumeral
  ReadSizes = {40}
  RedirectLimit = 0
  MaxTransfers = 1
  MaxErrors = 1
INVARIANT
  BodyFromServer
