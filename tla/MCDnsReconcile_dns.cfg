CONSTANTS
  wifi = wifi
  lan = lan
  resolver = resolver
  domain = domain
  Services = {wifi, lan}
  Resolvers = {resolver, unset}
  Domains = {domain, unset}
  HostConfigs <- TwoConfigs
  Tunnel = tunnel
  Unset = unset
  NoService = noservice
  NoSave = nosave
  MaxRuns = 2
  MaxChanges = 2
  MaxFaults = 1
SPECIFICATION FairSpec
INVARIANT TunnelDnsOwned
 
 
PROPERTY CollisionFollowed
CHECK_DEADLOCK FALSE
