\* README.md's example thresholds: HEALTH_CPU_CRIT=60, every other limit its default.
\* 65% crosses no default limit, of any gauge.
CONSTANTS
  Setting <- MCCpuCrit60
  Critical = {}
  Loopback <- MCLoopback
  UrlHost <- MCUrlHost
  Urlless = {}
  Env = "Linux"
  ServiceList <- NoList
  Units = {}
  SelfUnit = "health-monitor"
  UnitStates <- MCUnitStates
  EndpointList <- NoList
  Vips = {}
  OwnAddrs <- MCOwnAddrs
  OsFamily = "rhel"
  OsRelease = TRUE
  Mounts = {"/"}
  Reported = {"/"}
  Percent = {0, 65}
  Iowaits = {0, 30}
  Loads = {0, 9}
  JournalUnits = {"kernel", "nginx"}
  StartHosts <- MCStart
  MaxChanges = 2
  MaxBlind = 0
SPECIFICATION Spec
INVARIANT UnhealthyIsAlerted
