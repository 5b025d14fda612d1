CONSTANTS
  Pids = {1, 2, 3}
  None = 0
  Faults = {"io", "crash", "signal", "reuse", "kill"}
  PromptExit = TRUE
SPECIFICATION FairSpec
INVARIANT Registered
 
PROPERTY KeepsContract
PROPERTY Stops
