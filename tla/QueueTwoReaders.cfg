SPECIFICATION PartsSpec
CONSTANTS
  Parts = {"queue"}
  Producers = {p1, p2}
  Consumers = {c1, c2}
  Timed = {}
  Crews = {{c1, c2}}
  MaxAdds = 2
  Clears = FALSE
  Channels = {}
  None = None
PROPERTY CompleteReleases
CHECK_DEADLOCK FALSE
