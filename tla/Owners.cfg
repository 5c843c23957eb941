SPECIFICATION OwnersSpec
CONSTANTS
  Parts = {"lifetime", "client", "container", "registry", "pool", "pointers"}
  Sources = {s1, s2}
  Guards = {g1, g2, g3}
  NoSource = NoSource
  Users = {"t", "u"}
  Nobody = "nobody"
  Default <- StoreTypes
  Aliases <- StoreAliases
  Creatable = {"service"}
  MaxCalls = 3
  Items = {"i", "j"}
  Tokens = {"k", "l"}
  Once = TRUE
  Handles = {"h", "i", "j"}
  MaxObjects = 2
  Slots = {"p", "q"}
  MaxCells = 3
INVARIANTS IInv NoDanglingOwner ClientSafe ContainerSafe ContainerRuns OwnershipSafe
PROPERTIES ImplementsBarrier DrainEnds  SnapshotsAreStable
CHECK_DEADLOCK FALSE
