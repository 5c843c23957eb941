SPECIFICATION OwnersSpec
CONSTANTS
  Parts = {"client"}
  Sources = {s1}
  Guards = {g1}
  NoSource = NoSource
  Users = {"t", "u"}
  Nobody = "nobody"
  Default <- StoreTypes
  Aliases <- StoreAliases
  Creatable = {"service"}
  MaxCalls = 3
  Items = {"i", "j"}
  Tokens = {"k", "l"}
  Once = TRUE
  Handles = {"h", "i", "j"}
  MaxObjects = 2
  Slots = {"p", "q"}
  MaxCells = 3
PROPERTY ShutdownEnds
CHECK_DEADLOCK FALSE
