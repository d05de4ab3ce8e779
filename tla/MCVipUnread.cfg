\* The standby node, whose first `ip addr' fails.
CONSTANTS
  Setting <- MCUnset
  Critical = {}
  Loopback <- MCLoopback
  UrlHost <- MCUrlHost
  Urlless = {}
  Env = "Linux"
  ServiceList <- SshNginx
  Units = {"nginx", "ssh", "health-monitor", "cron"}
  SelfUnit = "health-monitor"
  UnitStates <- MCUnitStates
  EndpointList <- MCEndpoints
  Vips <- MCVips
  OwnAddrs <- MCOwnAddrs
  OsFamily = "debian"
  OsRelease = TRUE
  Mounts = {"/"}
  Reported = {"/"}
  Percent = {0}
  Iowaits = {0}
  Loads = {0}
  JournalUnits = {}
  StartHosts <- MCStart
  MaxChanges = 2
  MaxBlind = 1
SPECIFICATION Spec
INVARIANT VipScoredEverywhere
