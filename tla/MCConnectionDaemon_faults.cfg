CONSTANTS
  i1 = i1
  i2 = i2
  w1 = w1
  w2 = w2
  daemon = daemon
  stdio = stdio
  Ids = {i1}
  Fingerprints = {f1}
  Broken = {}
  Users = {}
  Names = {}
  Forces = {FALSE}
  StartModes = {"manual", "automatic"}
  Services = {daemon}
  Daemon = daemon
  Workers = {w1}
  Owner <- DaemonOwns
  Boot = boot
  Faults = {"hangup", "kill", "crash", "startcrash", "signal", "reboot", "hook", "io"}
  Global = global
  NoName = noname
  NoId = noid
  NoRecord = norecord
  Free = free
SPECIFICATION FairSpec
INVARIANT DisconnectConfirmsDown
INVARIANT TunnelTracked
INVARIANT ReconcileRespectsDisconnect
 
