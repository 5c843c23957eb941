SPECIFICATION FairPartsSpec
CONSTANTS
  Parts = {"reset", "awaiter", "events", "buffer", "operation", "dispatcher", "log", "udp", "discovery"}
  Threads = {t1, t2, t3}
  Timed = {t1, t2}
  Handlers = {e, f, g, h}
  NoHandler = NoHandler
  TokenCount = 2
  MaxDepth = 2
  Size = 8
  Alignments = {0, 1, 2, 3}
  Workers = {"t", "u"}
  Callers = {"c"}
  Noone = "noone"
  MaxUpdates = 1
  Users = {"t", "u"}
  Callbacks = {"a", "b", "c"}
  MaxFrames = 3
  Entries <- ThreeEntries
  Levels = {1, 2}
  MaxDatagrams = 3
  Providers = {"p"}
  Locators = {"l"}
  Ids = {"s", "u"}
  Service = "s"
  Announced <- TwoAddresses
INVARIANTS IInv AwaiterSafe EventsSafe BufferSafe OperationSafe WorkInOrder NetworkSafe
PROPERTIES ImplementsAtomicEvent WaitersReleased StepsAreSafe ArrivesInTheEnd
CHECK_DEADLOCK FALSE
