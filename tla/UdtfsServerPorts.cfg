SPECIFICATION Spec
CONSTANTS
  Clients = {c1, c2, c3}
  c1 = c1
  c2 = c2
  c3 = c3
  MaxClients = 3
  Threads = {"main"}
  MaxStops = 0
  Leaving = TRUE
INVARIANTS DataPathIsOwn
CHECK_DEADLOCK FALSE
