\* Resource gauges: every percentage below, between and above the default limits.
CONSTANTS
  Setting <- MCUnset
  Critical = {}
  Loopback <- MCLoopback
  UrlHost <- MCUrlHost
  Urlless = {}
  Env = "Linux"
  ServiceList <- NoList
  Units = {}
  SelfUnit = "health-monitor"
  UnitStates <- MCUnitStates
  EndpointList <- NoList
  Vips = {}
  OwnAddrs <- MCOwnAddrs
  OsFamily = "rhel"
  OsRelease = TRUE
  Mounts = {"/", "/var", "/snap"}
  Reported = {"/", "/var"}
  Percent = {0, 82, 95}
  Iowaits = {0, 30}
  Loads = {0, 9}
  JournalUnits = {"kernel", "nginx"}
  StartHosts <- MCStart
  MaxChanges = 2
  MaxBlind = 2
SPECIFICATION Spec
INVARIANTS TypeOK NoInventedFault NoMissedFault Coherent AlertsFollowedUp AlertsMissRootOnly
PROPERTIES ImplementsContract
