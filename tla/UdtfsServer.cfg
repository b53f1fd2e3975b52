SPECIFICATION FairSpec
CONSTANTS
  Clients = {c1, c2, c3}
  c1 = c1
  c2 = c2
  c3 = c3
  MaxClients = 3
  Threads = {"main"}
  MaxStops = 1
  Leaving = TRUE
PROPERTIES  EveryChildReaped 
CHECK_DEADLOCK FALSE
