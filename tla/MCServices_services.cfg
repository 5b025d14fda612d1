CONSTANTS
  Mine = {m}
  Globals = {g}
  Automatic = {m, g}
  Commands = {"install", "uninstall", "restart", "reload", "agent-install", "agent-uninstall"}
  UserCommands = 1
  AdminCommands = 2
  Faults = 1
  None = none
SPECIFICATION FairSpec
INVARIANT AgentLeavesNothing
INVARIANT InstallRecovers
INVARIANT UninstallSweeps
 
PROPERTY ReloadRestores
CHECK_DEADLOCK FALSE
