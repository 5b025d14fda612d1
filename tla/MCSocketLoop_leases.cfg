CONSTANTS
  c1 = c1
  c2 = c2
  p1 = p1
  p2 = p2
  Clients = {c1, c2}
  Processes = {p1, p2}
  ProcOf <- OwnProcess
  Asks <- LeaseAsks
  Cli = {c1, c2}
  Prompt = {}
  Deaf = {}
  MaxSent = 2
  MaxClients = 2
  MaxInput = 2
  ResponseUnits = 1
  AllowShutdown = TRUE
  IdleExits = FALSE
  Activated = TRUE
  AcceptFaults = TRUE
SPECIFICATION Spec
INVARIANT LeaseKeepsDaemon
CHECK_DEADLOCK FALSE
