\* Posture: services, failed units, clock, endpoints (one has an empty URL) and a
\* virtual address.
CONSTANTS
  Setting <- MCUnset
  Critical = {}
  Loopback <- MCLoopback
  UrlHost <- MCUrlHost
  Urlless = {"blank"}
  Env = "Linux"
  ServiceList <- SshNginx
  Units = {"nginx", "ssh", "health-monitor", "cron"}
  SelfUnit = "health-monitor"
  UnitStates <- MCUnitStates
  EndpointList <- WithBlank
  Vips <- MCVips
  OwnAddrs <- MCOwnAddrs
  OsFamily = "debian"
  OsRelease = TRUE
  Mounts = {"/"}
  Reported = {"/"}
  Percent = {0}
  Iowaits = {0}
  Loads = {0}
  JournalUnits = {}
  StartHosts <- MCStart
  MaxChanges = 2
  MaxBlind = 2
SPECIFICATION Spec
INVARIANTS NoInventedFault NoMissedFault Coherent AlertsFollowedUp
PROPERTIES ImplementsContract
