\* The window and the interval of health-monitor.service and .timer, in minutes.
SPECIFICATION PartsSpec
CONSTANTS
  Parts = {"journal"}
  Nodes = {node1, node2}
  Strangers = {printer}
  ProbesVip = TRUE
  MaxMoves = 3
  Cpus = 2
  Pids = {p1, p2}
  Interval = 1
  TopLimit = 1
  LoadLimits = {0, 50, 85}
  MaxDelay = 1
  MaxChurn = 2
  Units = {sshd}
  Window = 15
  Every = 2
  EntryCap = 3
  UnitsListed = 1
  MaxErrors = 1
  Watched = {"nginx", "docker", "keepalived", "prometheus", "ssh"}
  Addresses = 1
  Endpoints = {"node1-health", "node2-health", "fleet-slo", "vip"}
  Rhel = TRUE
  Firewalls = {"nftables", "firewalld"}
  Runtimes = {"docker", "podman"}
  Endless = {"disk", "vip"}
  StartLimit = 60
  MaxTurns = 2
  Points = {root, var}
  MaxChanges = 2
  DiskLevels = {80, 85, 90, 95}
  DiskLimits <- MCDiskLimits
INVARIANTS
  NoRecount
