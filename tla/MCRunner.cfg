\* A hosted runner, where the services are asked for and the failed units are not,
\* with an explicit list of critical endpoints.
CONSTANTS
  Setting <- MCUnset
  Critical = {"peer"}
  Loopback <- MCLoopback
  UrlHost <- MCUrlHost
  Urlless = {}
  Env = "GitHub Actions"
  ServiceList <- NginxList
  Units = {"nginx", "cron"}
  SelfUnit = "health-monitor"
  UnitStates <- MCUnitStates
  EndpointList <- MCEndpoints
  Vips <- MCVips
  OwnAddrs <- MCOwnAddrs
  OsFamily = "rhel"
  OsRelease = TRUE
  Mounts = {"/"}
  Reported = {"/"}
  Percent = {0}
  Iowaits = {0}
  Loads = {0}
  JournalUnits = {}
  StartHosts <- MCStart
  MaxChanges = 2
  MaxBlind = 2
SPECIFICATION FairSpec
INVARIANTS NoInventedFault NoMissedFault
PROPERTIES RunsEnd
