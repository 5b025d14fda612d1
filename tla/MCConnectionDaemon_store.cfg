CONSTANTS
  i1 = i1
  i2 = i2
  w1 = w1
  w2 = w2
  daemon = daemon
  stdio = stdio
  Ids = {i1, i2}
  Fingerprints = {f1, f2}
  Broken = {f1, f2}
  Users = {}
  Names = {n1}
  Forces = {FALSE}
  StartModes = {"automatic"}
  Services = {daemon, stdio}
  Daemon = daemon
  Workers = {w1}
  Owner <- DaemonOwns
  Boot = boot
  Faults = {}
  Global = global
  NoName = noname
  NoId = noid
  NoRecord = norecord
  Free = free
SPECIFICATION Spec
SYMMETRY IdSymmetry
INVARIANT IdentityUnique
INVARIANT NamesUnique
PROPERTY NoResurrection
