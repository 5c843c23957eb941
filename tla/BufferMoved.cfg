SPECIFICATION PartsSpec
CONSTANTS Parts = {"buffer"}
  Threads = {t1}
  Timed = {}
  Handlers = {f, g}
  NoHandler = NoHandler
  TokenCount = 3
  MaxDepth = 2
  Size = 8
  Alignments = {0, 1, 2, 3}
  Workers = {"t", "u"}
  Callers = {"c"}
  Noone = "noone"
  MaxUpdates = 1
  Users = {"t", "u"}
  Callbacks = {"a", "b", "c"}
  MaxFrames = 3
  Entries <- ThreeEntries
  Levels = {1, 2}
  MaxDatagrams = 3
  Providers = {"p"}
  Locators = {"l"}
  Ids = {"s", "u"}
  Service = "s"
  Announced <- TwoAddresses
INVARIANT AlwaysTiled
CHECK_DEADLOCK FALSE
