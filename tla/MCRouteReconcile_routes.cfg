CONSTANTS
  office = office
  host = host
  home = home
  Dests = {office, host}
  Lans = {office, home}
  Covers <- TwoLans
  Gateways = {g1, g2}
  NoGateway = nogateway
  NoDest = nodest
  NeedsPin = TRUE
  MaxChanges = 3
  MaxFaults = 1
SPECIFICATION FairSpec
INVARIANT RoutesTracked
INVARIANT LanKept
PROPERTY PinOutlivesRoutes
PROPERTY NetworkFollowed
CHECK_DEADLOCK FALSE
