SPECIFICATION PartsSpec
CONSTANTS
  Parts = {"queue", "server"}
  Producers = {p1, p2}
  Consumers = {c1, c2, c3}
  Timed = {c2, c3}
  Crews = {{}, {c1}, {c2, c3}}
  MaxAdds = 2
  Clears = TRUE
  Channels = {a, b}
  None = None
INVARIANTS IInv ServerSafe
PROPERTIES ReaderStops NothingLost ImplementsQueue ServerEnds
CHECK_DEADLOCK FALSE
