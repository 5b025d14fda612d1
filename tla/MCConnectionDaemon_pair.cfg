CONSTANTS
  i1 = i1
  i2 = i2
  w1 = w1
  w2 = w2
  daemon = daemon
  stdio = stdio
  Ids = {i1, i2}
  Fingerprints = {f1}
  Broken = {}
  Users = {u1}
  Names = {}
  Forces = {FALSE}
  StartModes = {"manual"}
  Services = {daemon}
  Daemon = daemon
  Workers = {w1, w2}
  Owner <- DaemonOwns
  Boot = boot
  Faults = {}
  Global = global
  NoName = noname
  NoId = noid
  NoRecord = norecord
  Free = free
SPECIFICATION Spec
SYMMETRY Symmetry
INVARIANT OneOperationPerConnection
INVARIANT NetworkExclusive
