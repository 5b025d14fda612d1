CONSTANTS
  i1 = i1
  i2 = i2
  w1 = w1
  w2 = w2
  daemon = daemon
  stdio = stdio
  Ids = {i1}
  Fingerprints = {f1}
  Broken = {}
  Users = {}
  Names = {n1}
  Forces = {FALSE}
  StartModes = {"automatic"}
  Services = {daemon}
  Daemon = daemon
  Workers = {w1}
  Owner <- DaemonOwns
  Boot = boot
  Faults = {}
  Global = global
  NoName = noname
  NoId = noid
  NoRecord = norecord
  Free = free
SPECIFICATION Spec
PROPERTY DisconnectSticks
