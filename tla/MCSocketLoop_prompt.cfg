CONSTANTS
  c1 = c1
  c2 = c2
  p1 = p1
  p2 = p2
  Clients = {c1, c2}
  Processes = {p1, p2}
  ProcOf <- OwnProcess
  Asks <- WorkAsks
  Cli = {c1}
  Prompt = {c1}
  Deaf = {c2}
  MaxSent = 2
  MaxClients = 2
  MaxInput = 2
  ResponseUnits = 2
  AllowShutdown = FALSE
  IdleExits = TRUE
  Activated = TRUE
  AcceptFaults = FALSE
SPECIFICATION FairSpec
INVARIANT OneResponseEach
PROPERTY PromptNotCutOff
PROPERTY PromptAnswered
CHECK_DEADLOCK FALSE
