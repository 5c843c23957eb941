SPECIFICATION PartsSpec
CONSTANTS
  Parts = {"server"}
  Producers = {p1}
  Consumers = {c1}
  Timed = {}
  Crews = {{}}
  MaxAdds = 1
  Clears = TRUE
  Channels = {a}
  None = None
PROPERTY ShutdownEnds
CHECK_DEADLOCK FALSE
